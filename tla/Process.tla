------------------------------- MODULE Process -------------------------------
(* Process life cycle, scheduling and sleeping in ucore: kern/process/proc.c,  *)
(* kern/schedule/sched.c, the tail of kern/trap/trap.c, and a kernel semaphore *)
(* (kern/sync/sem.c) on which processes synchronise.                           *)
(*                                                                             *)
(* One CPU runs "current".  Code in the kernel is never preempted: the CPU     *)
(* changes hands only in schedule().  The clock interrupt, however, arrives    *)
(* between any two steps that are not inside a local_intr_save section, also   *)
(* between the moment a process marks itself SLEEPING and its schedule().  An  *)
(* action is one such section, or code that no interrupt can observe.          *)
(*                                                                             *)
(* A member of Procs is a proc_struct.  find_proc(pid) is the identity here:   *)
(* module GetPid shows that live processes have distinct pids.  The run queue  *)
(* may return any queued process; module Stride has the policy.                *)
EXTENDS Integers, FiniteSets, Sem, TLC

CONSTANTS Procs, idleproc, initproc,
          NULL,          \* the null pointer
          MAX_PROCESS,   \* limit on nr_process
          MAX_TIME,      \* bound on the argument of do_sleep
          MAX_SEM        \* bound on the semaphore's value

ASSUME ProcessAssumption ==
  /\ idleproc \in Procs /\ initproc \in Procs /\ idleproc # initproc
  /\ NULL \notin Procs
  /\ MAX_PROCESS \in Nat /\ MAX_TIME \in Nat /\ MAX_SEM \in Nat

\* Everybody but the two kernel threads.
Users == Procs \ {idleproc, initproc}

\* Users are interchangeable (used by the safety runs only).
Interchangeable == Permutations(Users)

VARIABLES state,         \* NONE: no such process; PROC_UNINIT exists only inside do_fork
          wait_state,    \* why a process sleeps
          exiting,       \* processes with PF_EXITING in their flags
          parent,
          rq,            \* how often each process is linked into the run queue
          current,
          need_resched,  \* set of processes that are to give up the CPU
          pc,            \* where each process is in the kernel
          waitfor,       \* do_wait's argument: a child, or NULL for any child
          remaining,     \* ticks left on the timer of do_sleep, 0 if not linked
          sem            \* the semaphore

vars == <<state, wait_state, exiting, parent, rq, current, need_resched, pc,
          waitfor, remaining, sem>>

Interruptible == {"WT_CHILD", "WT_TIMER"}      \* wait_state & WT_INTERRUPTED
WaitStates == Interruptible \cup {"0", "WT_KSEM"}

\* Places from which a process calls schedule(), each with the place where it
\* goes on when it is given the CPU again.
SchedReturn == [trap_sched  |-> "user",
                wait_sched  |-> "wait_ret",
                sleep_sched |-> "sleep_ret",
                down_sched  |-> "down_ret",
                init_sched  |-> "wait",
                exit_sched  |-> "dead"]

Labels == DOMAIN SchedReturn \cup
          {"none", "user", "trap_ret", "wait", "wait_ret", "sleep_ret", "down_ret",
           "exit", "exit_notify", "dead", "idle", "init_main", "init_done", "panic"}

Alive == {p \in Procs : state[p] # "NONE"}

Children(p) == {c \in Alive : parent[c] = p}

nr_process == Cardinality(Alive)

\* proc_init has run: idleproc is current and initproc waits for the CPU.
Init ==
  /\ state = [p \in Procs |-> IF p \in Users THEN "NONE" ELSE "RUNNABLE"]
  /\ wait_state = [p \in Procs |-> "0"]
  /\ exiting = {}
  /\ parent = [p \in Procs |-> IF p = initproc THEN idleproc ELSE NULL]
  /\ rq = [p \in Procs |-> IF p = initproc THEN 1 ELSE 0]
  /\ current = idleproc
  /\ need_resched = {idleproc}
  /\ pc = [p \in Procs |-> CASE p = idleproc -> "idle"
                             [] p = initproc -> "init_main"
                             [] OTHER        -> "none"]
  /\ waitfor = [p \in Procs |-> NULL]
  /\ remaining = [p \in Procs |-> 0]
  /\ sem = sem_init(0)

-----------------------------------------------------------------------------
(* The scheduler. *)

At(p, label) == current = p /\ pc[p] = label /\ pc[initproc] # "panic"

Goto(p, label) == pc' = [pc EXCEPT ![p] = label]

\* Faulty wakeup_proc: enqueues the process even if it is the running one.
wakeup_procs_EnqueuesCurrent(W) ==
  LET asleep == {q \in W : state[q] # "RUNNABLE"} IN
  /\ state' = [q \in Procs |-> IF q \in asleep THEN "RUNNABLE" ELSE state[q]]
  /\ wait_state' = [q \in Procs |-> IF q \in asleep THEN "0" ELSE wait_state[q]]
  /\ rq' = [q \in Procs |-> IF q \in asleep \ {idleproc} THEN rq[q] + 1 ELSE rq[q]]

\* wakeup_proc for each process of W.  The running process, which can be woken
\* between marking itself SLEEPING and its schedule(), is not enqueued:
\* schedule() will do that.  Waking a RUNNABLE process only warns.
wakeup_procs(W) ==
  LET asleep == {q \in W : state[q] # "RUNNABLE"} IN
  /\ state' = [q \in Procs |-> IF q \in asleep THEN "RUNNABLE" ELSE state[q]]
  /\ wait_state' = [q \in Procs |-> IF q \in asleep THEN "0" ELSE wait_state[q]]
  /\ rq' = [q \in Procs |-> IF q \in asleep \ {current, idleproc} THEN rq[q] + 1 ELSE rq[q]]

\* The process marks itself SLEEPING.
Sleep(p, why) ==
  /\ state' = [state EXCEPT ![p] = "SLEEPING"]
  /\ wait_state' = [wait_state EXCEPT ![p] = why]

\* schedule(): requeue the running process if it is still RUNNABLE, then run a
\* queued process, or idleproc if there is none.
schedule(p) ==
  LET queued == [q \in Procs |->
                   IF q = p /\ p # idleproc /\ state[p] = "RUNNABLE"
                   THEN rq[q] + 1 ELSE rq[q]]
      ready  == {q \in Procs : queued[q] > 0}
  IN  /\ need_resched' = need_resched \ {p}
      /\ \E next \in (IF ready = {} THEN {idleproc} ELSE ready) :
           /\ rq' = [q \in Procs |-> IF q = next /\ q \in ready THEN queued[q] - 1 ELSE queued[q]]
           /\ current' = next
      /\ UNCHANGED <<state, wait_state, exiting, parent, waitfor, remaining, sem>>

Schedule(p) ==
  /\ \E label \in DOMAIN SchedReturn :
       At(p, label) /\ Goto(p, SchedReturn[label])
  /\ schedule(p)

\* The loop of cpu_idle.
cpu_idle ==
  /\ At(idleproc, "idle")
  /\ idleproc \in need_resched
  /\ schedule(idleproc)
  /\ UNCHANGED pc

\* The tail of trap() on the way back to user mode: a killed process exits, a
\* process whose time is up gives way.
TrapReturn(p) ==
  /\ At(p, "trap_ret")
  /\ Goto(p, IF p \in exiting THEN "exit"
             ELSE IF p \in need_resched THEN "trap_sched" ELSE "user")
  /\ UNCHANGED <<state, wait_state, exiting, parent, rq, current, need_resched,
                 waitfor, remaining, sem>>

\* The clock interrupt: run_timer_list (as module Deadlines has it) wakes the
\* sleepers whose time has come, then proc_tick charges the running process,
\* whose time slice may be used up.  From user mode the interrupt returns
\* through the tail of trap(); kernel code goes on where it was.
clock ==
  /\ pc[initproc] # "panic"
  /\ wakeup_procs({q \in Procs : remaining[q] = 1})
  /\ remaining' = [q \in Procs |-> IF remaining[q] > 0 THEN remaining[q] - 1 ELSE 0]
  /\ need_resched' \in (IF current = idleproc THEN {need_resched \cup {idleproc}}
                        ELSE {need_resched, need_resched \cup {current}})
  /\ pc' = [pc EXCEPT ![current] = IF @ = "user" THEN "trap_ret" ELSE @]
  /\ UNCHANGED <<exiting, parent, current, waitfor, sem>>

-----------------------------------------------------------------------------
(* System calls of a user process p. *)

\* do_fork by p: create child c and make it runnable.
NewProcess(p, c) ==
  /\ nr_process < MAX_PROCESS
  /\ state[c] = "NONE"
  /\ state' = [state EXCEPT ![c] = "RUNNABLE"]
  /\ wait_state' = [wait_state EXCEPT ![c] = "0"]
  /\ exiting' = exiting \ {c}
  /\ parent' = [parent EXCEPT ![c] = p]
  /\ rq' = [rq EXCEPT ![c] = @ + 1]
  /\ need_resched' = need_resched \ {c}
  /\ UNCHANGED <<current, waitfor, remaining, sem>>

do_fork(p) ==
  /\ At(p, "user")
  /\ \E c \in Users :
       /\ NewProcess(p, c)
       /\ pc' = [pc EXCEPT ![c] = "user", ![p] = "trap_ret"]

\* do_fork without a free process or without memory changes nothing.
do_fork_fails(p) ==
  /\ At(p, "user")
  /\ Goto(p, "trap_ret")
  /\ UNCHANGED <<state, wait_state, exiting, parent, rq, current, need_resched,
                 waitfor, remaining, sem>>

do_yield(p) ==
  /\ At(p, "user")
  /\ need_resched' = need_resched \cup {p}
  /\ Goto(p, "trap_ret")
  /\ UNCHANGED <<state, wait_state, exiting, parent, rq, current, waitfor, remaining, sem>>

\* do_sleep: arm a timer and sleep, all with interrupts disabled ...
do_sleep(p) ==
  /\ At(p, "user")
  /\ \E time \in 1..MAX_TIME : remaining' = [remaining EXCEPT ![p] = time]
  /\ Sleep(p, "WT_TIMER")
  /\ Goto(p, "sleep_sched")
  /\ UNCHANGED <<exiting, parent, rq, current, need_resched, waitfor, sem>>

\* Faulty return from do_sleep: the timer, on the kernel stack, stays linked.
SleepReturn_KeepsTimer(p) ==
  /\ At(p, "sleep_ret")
  /\ Goto(p, "trap_ret")
  /\ UNCHANGED <<state, wait_state, exiting, parent, rq, current, need_resched,
                 waitfor, remaining, sem>>

\* ... and once awake, by the timer or by do_kill, unlink it.
SleepReturn(p) ==
  /\ At(p, "sleep_ret")
  /\ remaining' = [remaining EXCEPT ![p] = 0]
  /\ Goto(p, "trap_ret")
  /\ UNCHANGED <<state, wait_state, exiting, parent, rq, current, need_resched,
                 waitfor, sem>>

\* Faulty do_kill: wakes a process whatever it sleeps on.
do_kill_WakesAll(p) ==
  /\ At(p, "user")
  /\ \E q \in Alive \ {idleproc} :
       /\ exiting' = exiting \cup {q}
       /\ wakeup_procs(IF q \notin exiting /\ wait_state[q] # "0" THEN {q} ELSE {})
  /\ Goto(p, "trap_ret")
  /\ UNCHANGED <<parent, current, need_resched, waitfor, remaining, sem>>

\* do_kill of any process in the hash list; idleproc is not in it.  The victim
\* is woken only the first time, and only from an interruptible sleep.
do_kill(p) ==
  /\ At(p, "user")
  /\ \E q \in Alive \ {idleproc} :
       /\ exiting' = exiting \cup {q}
       /\ wakeup_procs(IF q \notin exiting /\ wait_state[q] \in Interruptible THEN {q} ELSE {})
  /\ Goto(p, "trap_ret")
  /\ UNCHANGED <<parent, current, need_resched, waitfor, remaining, sem>>

\* down(&sem): take the semaphore or sleep, uninterruptibly, in its queue.
down(p) ==
  /\ At(p, "user")
  /\ sem' = Down(sem, p)
  /\ IF Blocks(sem)
     THEN Sleep(p, "WT_KSEM") /\ Goto(p, "down_sched")
     ELSE UNCHANGED <<state, wait_state>> /\ Goto(p, "trap_ret")
  /\ UNCHANGED <<exiting, parent, rq, current, need_resched, waitfor, remaining>>

InQueue(p) == \E k \in 1..Len(sem.wait_queue) : sem.wait_queue[k] = p

\* __down after schedule(): wait_current_del leaves the queue if still in it.
DownReturn(p) ==
  /\ At(p, "down_ret")
  /\ sem' = IF InQueue(p)
            THEN [value |-> sem.value,
                  wait_queue |-> SelectSeq(sem.wait_queue, LAMBDA q : q # p)]
            ELSE sem
  /\ Goto(p, "trap_ret")
  /\ UNCHANGED <<state, wait_state, exiting, parent, rq, current, need_resched,
                 waitfor, remaining>>

up(p) ==
  /\ At(p, "user")
  /\ sem.value < MAX_SEM
  /\ sem' = Up(sem)
  /\ wakeup_procs(Woken(sem))
  /\ Goto(p, "trap_ret")
  /\ UNCHANGED <<exiting, parent, current, need_resched, waitfor, remaining>>

-----------------------------------------------------------------------------
(* Exit and wait. *)

sys_exit(p) ==
  /\ At(p, "user")
  /\ Goto(p, "exit")
  /\ UNCHANGED <<state, wait_state, exiting, parent, rq, current, need_resched,
                 waitfor, remaining, sem>>

\* do_exit up to the assignment of PROC_ZOMBIE.  initproc must not exit.
do_exit(p) ==
  /\ At(p, "exit")
  /\ IF p = initproc
     THEN Goto(p, "panic") /\ UNCHANGED state
     ELSE Goto(p, "exit_notify") /\ state' = [state EXCEPT ![p] = "ZOMBIE"]
  /\ waitfor' = [waitfor EXCEPT ![p] = NULL]
  /\ UNCHANGED <<wait_state, exiting, parent, rq, current, need_resched,
                 remaining, sem>>

\* Faulty do_exit: initproc is not told about zombies it inherits.
ExitNotify_ForgetsInit(p) ==
  /\ At(p, "exit_notify")
  /\ wakeup_procs(IF wait_state[parent[p]] = "WT_CHILD" THEN {parent[p]} ELSE {})
  /\ parent' = [c \in Procs |-> IF c \in Children(p) THEN initproc ELSE parent[c]]
  /\ Goto(p, "exit_sched")
  /\ UNCHANGED <<exiting, current, need_resched, waitfor, remaining, sem>>

\* Faulty do_exit: tells initproc about the zombies it inherits but not the parent.
ExitNotify_SkipsParent(p) ==
  LET inherits == \E c \in Children(p) : state[c] = "ZOMBIE"
      told == IF inherits THEN {initproc} ELSE {}
  IN  /\ At(p, "exit_notify")
      /\ wakeup_procs({q \in told : wait_state[q] = "WT_CHILD"})
      /\ parent' = [c \in Procs |-> IF c \in Children(p) THEN initproc ELSE parent[c]]
      /\ Goto(p, "exit_sched")
      /\ UNCHANGED <<exiting, current, need_resched, waitfor, remaining, sem>>

\* The rest of do_exit, with interrupts disabled: wake the parent if it waits
\* for a child, hand the children to initproc and wake it if it inherits a
\* zombie.
ExitNotify(p) ==
  LET inherits == \E c \in Children(p) : state[c] = "ZOMBIE"
      told == {parent[p]} \cup (IF inherits THEN {initproc} ELSE {})
  IN  /\ At(p, "exit_notify")
      /\ wakeup_procs({q \in told : wait_state[q] = "WT_CHILD"})
      /\ parent' = [c \in Procs |-> IF c \in Children(p) THEN initproc ELSE parent[c]]
      /\ Goto(p, "exit_sched")
      /\ UNCHANGED <<exiting, current, need_resched, waitfor, remaining, sem>>

sys_wait(p) ==
  /\ At(p, "user")
  /\ \E c \in Users \cup {NULL} : waitfor' = [waitfor EXCEPT ![p] = c]
  /\ Goto(p, "wait")
  /\ UNCHANGED <<state, wait_state, exiting, parent, rq, current, need_resched,
                 remaining, sem>>

\* The children do_wait looks at.
Awaited(p) == {c \in Children(p) : waitfor[p] \in {NULL, c}}

\* Unlink zombie c and free its proc_struct.
Reap(c) ==
  /\ state' = [state EXCEPT ![c] = "NONE"]
  /\ parent' = [parent EXCEPT ![c] = NULL]
  /\ exiting' = exiting \ {c}
  /\ need_resched' = need_resched \ {c}

\* One pass of do_wait from "repeat".  With waitfor = NULL the code takes the
\* first zombie of the sibling list (module ProcLinks); any zombie may be first.
do_wait(p) ==
  LET kids    == Awaited(p)
      zombies == {c \in kids : state[c] = "ZOMBIE"}
  IN
  /\ At(p, "wait")
  /\ \/ /\ zombies # {}
        /\ \E c \in zombies :
             /\ Reap(c)
             /\ pc' = [pc EXCEPT ![c] = "none",
                                 ![p] = IF p = initproc THEN "init_sched" ELSE "trap_ret"]
        /\ waitfor' = [waitfor EXCEPT ![p] = NULL]
        /\ UNCHANGED wait_state
     \/ /\ zombies = {} /\ kids # {}
        /\ Sleep(p, "WT_CHILD")
        /\ Goto(p, "wait_sched")
        /\ UNCHANGED <<exiting, parent, need_resched, waitfor>>
     \/ /\ kids = {}
        /\ Goto(p, IF p = initproc THEN "init_done" ELSE "trap_ret")
        /\ waitfor' = [waitfor EXCEPT ![p] = NULL]
        /\ UNCHANGED <<state, wait_state, exiting, parent, need_resched>>
  /\ UNCHANGED <<rq, current, remaining, sem>>

\* Faulty do_wait: does not notice that it was killed while it slept.
WaitReturn_IgnoresKill(p) ==
  /\ At(p, "wait_ret")
  /\ Goto(p, "wait")
  /\ UNCHANGED <<state, wait_state, exiting, parent, rq, current, need_resched,
                 waitfor, remaining, sem>>

\* do_wait after schedule(): a killed process exits, others look again.
WaitReturn(p) ==
  /\ At(p, "wait_ret")
  /\ Goto(p, IF p \in exiting THEN "exit" ELSE "wait")
  /\ UNCHANGED <<state, wait_state, exiting, parent, rq, current, need_resched,
                 waitfor, remaining, sem>>

-----------------------------------------------------------------------------
(* initproc. *)

\* init_main starts the first user process and then waits for any child.
init_main ==
  /\ At(initproc, "init_main")
  /\ \E c \in Users :
       /\ NewProcess(initproc, c)
       /\ pc' = [pc EXCEPT ![c] = "user", ![initproc] = "wait"]

\* All children are gone: init_main checks its assertions and returns, which
\* ends in do_exit and the panic that stops the machine.
init_returns ==
  /\ At(initproc, "init_done")
  /\ Goto(initproc, "exit")
  /\ UNCHANGED <<state, wait_state, exiting, parent, rq, current, need_resched,
                 waitfor, remaining, sem>>

\* __panic never returns.
panic ==
  /\ pc[initproc] = "panic"
  /\ UNCHANGED vars

Syscall(p) ==
  \/ do_fork(p) \/ do_fork_fails(p) \/ do_yield(p) \/ do_sleep(p) \/ do_kill(p)
  \/ down(p) \/ up(p) \/ sys_exit(p) \/ sys_wait(p)

Kernel(p) ==
  \/ TrapReturn(p) \/ SleepReturn(p) \/ DownReturn(p)
  \/ do_exit(p) \/ ExitNotify(p) \/ do_wait(p) \/ WaitReturn(p)

Next ==
  \/ \E p \in Users : Syscall(p)
  \/ \E p \in Procs : Kernel(p) \/ Schedule(p)
  \/ init_main \/ init_returns \/ cpu_idle \/ clock \/ panic

Spec == Init /\ [][Next]_vars

\* The CPU is shared (module Stride): a process in the run queue is picked again
\* and again.  A running process proceeds, and the clock ticks and uses up time
\* slices.
Fairness ==
  /\ \A p \in Procs :
       /\ WF_vars(Kernel(p))
       /\ SF_vars((\E q \in Procs : Schedule(q) \/ (q = idleproc /\ cpu_idle)) /\ current' = p)
  /\ WF_vars(\E p \in Procs : Schedule(p))
  /\ WF_vars(init_main) /\ WF_vars(init_returns) /\ WF_vars(cpu_idle)
  /\ WF_vars(clock /\ current \in need_resched')

FairSpec == Spec /\ Fairness

-----------------------------------------------------------------------------
TypeOK ==
  /\ state \in [Procs -> {"NONE", "RUNNABLE", "SLEEPING", "ZOMBIE"}]
  /\ wait_state \in [Procs -> WaitStates]
  /\ exiting \subseteq Procs
  /\ parent \in [Procs -> Procs \cup {NULL}]
  /\ rq \in [Procs -> Nat]
  /\ current \in Procs
  /\ need_resched \subseteq Procs
  /\ pc \in [Procs -> Labels]
  /\ waitfor \in [Procs -> Procs \cup {NULL}]
  /\ remaining \in [Procs -> Nat]
  /\ sem \in SemType(Procs)

\* A process is linked into the run queue exactly once if it is RUNNABLE and not
\* running, and not at all otherwise.  A second enqueue would corrupt the skew
\* heap, a missing one would lose the process.
RunQueueExact ==
  \A p \in Procs \ {idleproc} :
    rq[p] = IF state[p] = "RUNNABLE" /\ p # current THEN 1 ELSE 0

\* assert(proc->state != PROC_ZOMBIE) in wakeup_proc: nothing that could still
\* wake a process (a timer on its dead stack, a semaphore's queue, a wait_state
\* that do_kill or do_exit act on) outlives it.
NothingWakesTheDead ==
  \A p \in Procs : state[p] \in {"ZOMBIE", "NONE"} =>
    wait_state[p] = "0" /\ remaining[p] = 0 /\ ~InQueue(p)

\* The assertions of __up, wait->proc->wait_state == WT_KSEM, and of down,
\* flags == 0: whoever is in the queue of the semaphore is asleep for it, and a
\* process comes back from down only because up chose it.
SemaphoreSleepIsUninterrupted ==
  \A p \in Procs :
    InQueue(p) <=> state[p] = "SLEEPING" /\ wait_state[p] = "WT_KSEM"

\* No lost wakeup: a process asleep in do_wait has no zombie among the children
\* it waits for, but for one that is just about to notify it.
NoLostChildExit ==
  \A p \in Procs : state[p] = "SLEEPING" /\ wait_state[p] = "WT_CHILD" =>
    \A c \in Awaited(p) : state[c] = "ZOMBIE" => pc[c] = "exit_notify"

\* do_exit follows current->parent: a process that has not been reaped always
\* has a parent that is not dead, or is in the middle of handing its children
\* over.
ParentAlive ==
  \A c \in Alive \ {idleproc} :
    /\ parent[c] \in Alive
    /\ state[parent[c]] = "ZOMBIE" => pc[parent[c]] = "exit_notify"

\* assert(nr_process == 2) in init_main: when do_wait finds no child left, every
\* process ever created has been reaped, orphans included.
InitIsLast == pc[initproc] = "init_done" => nr_process = 2

\* Dead children are never forgotten, whoever dies first: do_wait sleeps through no exit,
\* do_exit leaves nobody with a dead parent, and initproc ends after everybody else.
ChildrenAreReaped == NoLostChildExit /\ ParentAlive /\ InitIsLast

Halted == pc[initproc] = "panic"

InDoWait(p) == pc[p] \in {"wait", "wait_sched", "wait_ret"}

\* do_wait returns once a child it waits for is dead: the exit wakes the waiter
\* and the waiter's next pass finds the zombie.
WaitReturnsOnceChildIsDead ==
  \A p \in Procs \ {idleproc} :
    InDoWait(p) /\ (\E c \in Awaited(p) : state[c] = "ZOMBIE") ~> ~InDoWait(p) \/ Halted

Dead(p) == state[p] \in {"ZOMBIE", "NONE"}

\* A user process killed in its sleep (do_sleep or do_wait) does not get back to
\* user mode: it wakes up and exits.
KilledSleeperDies ==
  \A p \in Users :
    p \in exiting /\ state[p] = "RUNNABLE" /\ pc[p] \in {"wait_ret", "sleep_ret"}
      ~> Dead(p) \/ Halted

\* What "kill process" (the table of system calls in proc.c) leads one to expect:
\* a killed process dies, unless it sleeps uninterruptibly for a semaphore.  The
\* code does not do this: trap() tests PF_EXITING before it calls schedule(), not
\* after, so a process killed while it waits for the CPU goes back to user mode,
\* and do_wait does not test the flag before it sleeps.
KilledDies ==
  \A p \in Users :
    p \in exiting ~> Dead(p) \/ wait_state[p] = "WT_KSEM" \/ Halted
=============================================================================
