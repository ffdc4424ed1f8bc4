---------------------------- MODULE Process_proof ----------------------------
(* The life cycle of processes is sound for every set of processes and every   *)
(* bound: the run queue is exact, nothing wakes the dead, semaphore sleeps are *)
(* not interrupted, and children are reaped.                                   *)
EXTENDS Process, WellFoundedInduction, FiniteSetTheorems, TLAPS

-----------------------------------------------------------------------------
(* The inductive invariant. *)

\* Where a process is says which state it is in, and what it sleeps for says
\* where it is.
PlaceInv(p) ==
  /\ state[p] = "NONE" <=> pc[p] = "none"
  /\ state[p] = "ZOMBIE" <=> pc[p] \in {"exit_notify", "exit_sched", "dead"}
  /\ state[p] = "SLEEPING" <=> wait_state[p] # "0"
  /\ wait_state[p] = "WT_CHILD" => pc[p] \in {"wait_sched", "wait_ret"}
  /\ wait_state[p] = "WT_TIMER" => pc[p] \in {"sleep_sched", "sleep_ret"}
  /\ wait_state[p] = "WT_KSEM" => pc[p] \in {"down_sched", "down_ret"}
  /\ remaining[p] > 0 => pc[p] \in {"sleep_sched", "sleep_ret"}

\* Where a process can be without the CPU.
Parked == {"none", "dead", "user", "wait", "wait_ret", "sleep_ret", "down_ret", "init_main", "idle"}

\* Only the running process is on its way to sleep or to its end.
CpuInv(p) ==
  IF p = current
  THEN /\ pc[p] \notin {"none", "dead"}
       /\ state[p] = "SLEEPING" => pc[p] \in {"wait_sched", "sleep_sched", "down_sched"}
  ELSE pc[p] \in Parked

\* The kernel threads keep to their own code.
KernelThreadsInv ==
  /\ pc[idleproc] = "idle" /\ state[idleproc] = "RUNNABLE" /\ rq[idleproc] = 0
  /\ pc[initproc] \in {"init_main", "wait", "wait_sched", "wait_ret", "init_sched", "init_done", "exit", "panic"}
  /\ waitfor[initproc] = NULL
  /\ \A p \in Users : pc[p] \notin {"idle", "init_main", "init_sched", "init_done", "panic"}

\* Nobody is in the queue of the semaphore twice.
QueueInv ==
  \A j, k \in 1..Len(sem.wait_queue) : sem.wait_queue[j] = sem.wait_queue[k] => j = k

\* Processes can be ranked so that a child of a user process ranks above it: the
\* parents of parents end at initproc.
Ranked(rank) ==
  \A c \in Alive \cap Users : parent[c] \in Users => rank[parent[c]] < rank[c]

FamilyInv ==
  /\ \A c \in Alive \cap Users : parent[c] \in Users \cup {initproc}
  /\ parent[initproc] = idleproc
  /\ \E rank \in [Procs -> Nat] : Ranked(rank)

\* When initproc is done it is alone with idleproc.
LastInv == pc[initproc] = "init_done" => Alive = {idleproc, initproc}

Inv ==
  /\ TypeOK
  /\ \A p \in Procs : PlaceInv(p) /\ CpuInv(p)
  /\ KernelThreadsInv
  /\ RunQueueExact
  /\ QueueInv
  /\ SemaphoreSleepIsUninterrupted
  /\ NoLostChildExit
  /\ ParentAlive
  /\ FamilyInv
  /\ LastInv

-----------------------------------------------------------------------------
LEMMA InitInv == Init => Inv
<1> SUFFICES ASSUME Init PROVE Inv
  OBVIOUS
<1> USE ProcessAssumption DEF Users
<1>1. sem.value = 0 /\ sem.wait_queue = <<>> /\ Len(sem.wait_queue) = 0 /\ sem \in SemType(Procs)
  BY DEF Init, sem_init, SemType
<1>2. TypeOK
  BY <1>1 DEF Init, TypeOK, WaitStates, Interruptible, Labels, SchedReturn
<1>3. \A p \in Procs : PlaceInv(p) /\ CpuInv(p)
  BY DEF Init, PlaceInv, CpuInv, Parked
<1>4. KernelThreadsInv /\ RunQueueExact
  BY DEF Init, KernelThreadsInv, RunQueueExact
<1>5. QueueInv /\ SemaphoreSleepIsUninterrupted
  BY <1>1 DEF Init, QueueInv, SemaphoreSleepIsUninterrupted, InQueue
<1>6. Alive = {idleproc, initproc}
  BY DEF Init, Alive
<1>7. NoLostChildExit /\ ParentAlive /\ LastInv
  BY <1>6 DEF Init, NoLostChildExit, ParentAlive, LastInv
<1>8. FamilyInv
  <2>1. [p \in Procs |-> 0] \in [Procs -> Nat] /\ Ranked([p \in Procs |-> 0])
    BY <1>6 DEF Ranked
  <2> QED BY <1>6, <2>1 DEF Init, FamilyInv
<1> QED BY <1>2, <1>3, <1>4, <1>5, <1>7, <1>8 DEF Inv

\* The running process is alive; where its timer is not linked its remaining is 0.
LEMMA NoTimer ==
  ASSUME Inv, NEW p \in Procs, pc[p] \notin {"sleep_sched", "sleep_ret"}
  PROVE  remaining = [remaining EXCEPT ![p] = 0]
<1>1. remaining \in [Procs -> Nat] /\ remaining[p] = 0
  BY DEF Inv, TypeOK, PlaceInv
<1> QED BY <1>1

\* A step that only takes the running process to another place in the kernel.
LEMMA GotoStep ==
  ASSUME Inv, NEW p \in Procs \ {idleproc}, p = current, state[p] = "RUNNABLE",
         NEW label \in {"user", "trap_ret", "trap_sched", "wait", "exit", "init_sched", "init_done", "panic"},
         p = initproc => label \in {"wait", "exit", "init_sched", "init_done", "panic"},
         p # initproc => label \notin {"init_sched", "init_done", "panic"},
         label = "init_done" => Alive = {idleproc, initproc},
         Goto(p, label),
         remaining' = [remaining EXCEPT ![p] = 0],
         waitfor' \in [Procs -> Procs \cup {NULL}],
         \A q \in Procs \ {p} : waitfor'[q] = waitfor[q],
         p = initproc => waitfor'[p] = NULL,
         exiting' \subseteq Procs, need_resched' \subseteq Procs,
         sem' \in SemType(Procs), sem'.wait_queue = sem.wait_queue,
         UNCHANGED <<state, wait_state, parent, rq, current>>
  PROVE  Inv'
<1> USE ProcessAssumption DEF Users
<1>0. pc' = [pc EXCEPT ![p] = label] /\ pc \in [Procs -> Labels] /\ label \in Labels
  BY DEF Goto, Inv, TypeOK, Labels, SchedReturn
<1>1. TypeOK'
  BY <1>0 DEF Inv, TypeOK
<1>2. \A q \in Procs : PlaceInv(q)' /\ CpuInv(q)'
  BY <1>0 DEF Inv, TypeOK, PlaceInv, CpuInv, Parked, WaitStates, Interruptible
<1>3. KernelThreadsInv' /\ RunQueueExact'
  BY <1>0 DEF Inv, KernelThreadsInv, RunQueueExact
<1>4. QueueInv' /\ SemaphoreSleepIsUninterrupted'
  BY DEF Inv, QueueInv, SemaphoreSleepIsUninterrupted, InQueue
<1>5. Alive' = Alive
  BY DEF Alive
<1>6. NoLostChildExit'
  BY <1>0, <1>5 DEF Inv, PlaceInv, NoLostChildExit, Awaited, Children
<1>7. ParentAlive'
  BY <1>0, <1>5 DEF Inv, PlaceInv, ParentAlive
<1>8. FamilyInv'
  BY <1>5 DEF Inv, FamilyInv, Ranked
<1>9. LastInv'
  BY <1>0, <1>5 DEF Inv, LastInv
<1> QED BY <1>1, <1>2, <1>3, <1>4, <1>6, <1>7, <1>8, <1>9 DEF Inv

\* The simple steps: those that only take the running process on.
LEMMA TrapReturnStep == ASSUME Inv, NEW p \in Procs, TrapReturn(p) PROVE Inv'
<1> USE ProcessAssumption DEF Users
<1>1. p = current /\ pc[p] = "trap_ret" /\ state[p] = "RUNNABLE" /\ p \in Users
  BY DEF TrapReturn, At, Inv, TypeOK, PlaceInv, KernelThreadsInv, CpuInv
<1>2. remaining' = [remaining EXCEPT ![p] = 0]
  BY <1>1, NoTimer DEF TrapReturn
<1>3. CASE p \in exiting
  <2>1. Goto(p, "exit")
    BY <1>3 DEF TrapReturn
  <2> QED BY <1>1, <1>2, <2>1, GotoStep DEF TrapReturn, Inv, TypeOK
<1>4. CASE p \notin exiting /\ p \in need_resched
  <2>1. Goto(p, "trap_sched")
    BY <1>4 DEF TrapReturn
  <2> QED BY <1>1, <1>2, <2>1, GotoStep DEF TrapReturn, Inv, TypeOK
<1>5. CASE p \notin exiting /\ p \notin need_resched
  <2>1. Goto(p, "user")
    BY <1>5 DEF TrapReturn
  <2> QED BY <1>1, <1>2, <2>1, GotoStep DEF TrapReturn, Inv, TypeOK
<1> QED BY <1>3, <1>4, <1>5

\* A process in user mode is a runnable user process without a timer.
LEMMA InUserMode ==
  ASSUME Inv, NEW p \in Users, At(p, "user")
  PROVE  /\ p = current /\ pc[p] = "user" /\ state[p] = "RUNNABLE"
         /\ p \in Procs \ {idleproc} /\ p # initproc
         /\ remaining = [remaining EXCEPT ![p] = 0]
<1>1. p = current /\ pc[p] = "user" /\ state[p] = "RUNNABLE" /\ p \in Procs \ {idleproc} /\ p # initproc
  BY ProcessAssumption DEF At, Inv, TypeOK, PlaceInv, CpuInv, Users
<1> QED BY <1>1, NoTimer

LEMMA ForkFailsStep == ASSUME Inv, NEW p \in Users, do_fork_fails(p) PROVE Inv'
<1>1. At(p, "user")
  BY DEF do_fork_fails
<1> QED BY <1>1, InUserMode, GotoStep DEF do_fork_fails, Inv, TypeOK

LEMMA YieldStep == ASSUME Inv, NEW p \in Users, do_yield(p) PROVE Inv'
<1>1. At(p, "user")
  BY DEF do_yield
<1>2. need_resched' \subseteq Procs
  BY DEF do_yield, Inv, TypeOK, Users
<1> QED BY <1>1, <1>2, InUserMode, GotoStep DEF do_yield, Inv, TypeOK

LEMMA SysExitStep == ASSUME Inv, NEW p \in Users, sys_exit(p) PROVE Inv'
<1>1. At(p, "user")
  BY DEF sys_exit
<1> QED BY <1>1, InUserMode, GotoStep DEF sys_exit, Inv, TypeOK

LEMMA SysWaitStep == ASSUME Inv, NEW p \in Users, sys_wait(p) PROVE Inv'
<1>1. At(p, "user")
  BY DEF sys_wait
<1>2. /\ waitfor' \in [Procs -> Procs \cup {NULL}]
      /\ \A q \in Procs \ {p} : waitfor'[q] = waitfor[q]
  BY DEF sys_wait, Inv, TypeOK, Users
<1> QED BY <1>1, <1>2, InUserMode, GotoStep DEF sys_wait, Inv, TypeOK

LEMMA SleepReturnStep == ASSUME Inv, NEW p \in Procs, SleepReturn(p) PROVE Inv'
<1>1. p = current /\ state[p] = "RUNNABLE" /\ p \in Procs \ {idleproc} /\ p # initproc
  BY DEF SleepReturn, At, Inv, TypeOK, PlaceInv, KernelThreadsInv, CpuInv
<1> QED BY <1>1, GotoStep DEF SleepReturn, Inv, TypeOK

\* Back from schedule() in __down the process is out of the queue already: up took it out.
LEMMA DownReturnStep == ASSUME Inv, NEW p \in Procs, DownReturn(p) PROVE Inv'
<1>1. p = current /\ pc[p] = "down_ret" /\ state[p] = "RUNNABLE" /\ p \in Procs \ {idleproc} /\ p # initproc
  BY DEF DownReturn, At, Inv, TypeOK, PlaceInv, KernelThreadsInv, CpuInv
<1>2. ~InQueue(p)
  BY <1>1 DEF Inv, SemaphoreSleepIsUninterrupted
<1>3. sem' = sem /\ remaining' = [remaining EXCEPT ![p] = 0]
  BY <1>1, <1>2, NoTimer DEF DownReturn
<1> QED BY <1>1, <1>3, GotoStep DEF DownReturn, Inv, TypeOK

LEMMA WaitReturnStep == ASSUME Inv, NEW p \in Procs, WaitReturn(p) PROVE Inv'
<1>1. p = current /\ pc[p] = "wait_ret" /\ state[p] = "RUNNABLE" /\ p \in Procs \ {idleproc}
  BY DEF WaitReturn, At, Inv, TypeOK, PlaceInv, KernelThreadsInv, CpuInv
<1>2. remaining' = [remaining EXCEPT ![p] = 0] /\ (p = initproc => waitfor'[p] = NULL)
  BY <1>1, NoTimer DEF WaitReturn, Inv, KernelThreadsInv
<1> QED BY <1>1, <1>2, GotoStep DEF WaitReturn, Inv, TypeOK

LEMMA InitReturnsStep == ASSUME Inv, init_returns PROVE Inv'
<1> USE ProcessAssumption
<1>1. initproc = current /\ pc[initproc] = "init_done" /\ state[initproc] = "RUNNABLE"
  BY DEF init_returns, At, Inv, TypeOK, PlaceInv, CpuInv
<1>2. remaining' = [remaining EXCEPT ![initproc] = 0] /\ waitfor'[initproc] = NULL
  BY <1>1, NoTimer DEF init_returns, Inv, KernelThreadsInv
<1> QED BY <1>1, <1>2, GotoStep DEF init_returns, Inv, TypeOK

-----------------------------------------------------------------------------
(* The scheduler. *)

\* schedule() by the running process, which goes on at a parked place: it is queued
\* again if it is runnable, and whoever gets the CPU leaves the queue.
LEMMA SchedStep ==
  ASSUME Inv, NEW p \in Procs, p = current, schedule(p),
         NEW label \in Labels, pc' = [pc EXCEPT ![p] = label],
         \/ p = idleproc /\ pc' = pc
         \/ p # idleproc /\ \E l \in DOMAIN SchedReturn : pc[p] = l /\ label = SchedReturn[l]
  PROVE  Inv'
<1> USE ProcessAssumption DEF Users
<1>0. /\ pc \in [Procs -> Labels] /\ rq \in [Procs -> Nat] /\ state \in [Procs -> {"NONE", "RUNNABLE", "SLEEPING", "ZOMBIE"}]
      /\ UNCHANGED <<state, wait_state, exiting, parent, waitfor, remaining, sem>>
      /\ need_resched' = need_resched \ {p}
  BY DEF Inv, TypeOK, schedule
<1> DEFINE queued == [q \in Procs |-> IF q = p /\ p # idleproc /\ state[p] = "RUNNABLE" THEN rq[q] + 1 ELSE rq[q]]
           ready == {q \in Procs : queued[q] > 0}
<1>1. PICK next \in (IF ready = {} THEN {idleproc} ELSE ready) :
        /\ rq' = [q \in Procs |-> IF q = next /\ q \in ready THEN queued[q] - 1 ELSE queued[q]]
        /\ current' = next
  BY DEF schedule
<1>2. queued \in [Procs -> Nat] /\ next \in Procs
  BY <1>0
<1>3. \A q \in Procs \ {idleproc} : queued[q] = IF state[q] = "RUNNABLE" THEN 1 ELSE 0
  BY <1>0 DEF Inv, RunQueueExact
<1>4. queued[idleproc] = 0
  BY <1>0 DEF Inv, KernelThreadsInv
<1>5. state[next] = "RUNNABLE"
  BY <1>1, <1>2, <1>3, <1>4 DEF Inv, KernelThreadsInv
<1>6. rq' \in [Procs -> Nat]
  BY <1>1, <1>2
<1>7. TypeOK'
  BY <1>0, <1>1, <1>2, <1>6 DEF Inv, TypeOK
<1>8. \A q \in Procs \ {p} : pc'[q] = pc[q]
  BY <1>0
<1>9. pc'[p] = label /\ label \in Parked
  BY <1>0 DEF SchedReturn, Parked, Inv, KernelThreadsInv
<1>10. \A q \in Procs : PlaceInv(q)'
  <2> SUFFICES ASSUME NEW q \in Procs PROVE PlaceInv(q)'
    OBVIOUS
  <2>1. CASE q # p
    BY <1>0, <1>8, <2>1 DEF Inv, PlaceInv
  <2>2. CASE q = p
    <3>1. PlaceInv(p) /\ CpuInv(p)
      BY DEF Inv
    <3> QED BY <1>0, <1>9, <2>2, <3>1 DEF PlaceInv, CpuInv, SchedReturn, Inv, KernelThreadsInv
  <2> QED BY <2>1, <2>2
<1>11. \A q \in Procs : CpuInv(q)'
  <2> SUFFICES ASSUME NEW q \in Procs PROVE CpuInv(q)'
    OBVIOUS
  <2>1. CASE q = next
    BY <1>0, <1>1, <1>5, <1>10, <2>1 DEF CpuInv, PlaceInv
  <2>2. CASE q # next
    BY <1>1, <1>8, <1>9, <2>2 DEF Inv, CpuInv
  <2> QED BY <2>1, <2>2
<1>12. KernelThreadsInv'
  <2>1. rq'[idleproc] = 0
    BY <1>1, <1>2, <1>4
  <2>2. p = idleproc \/ p = initproc \/ p \in Users
    OBVIOUS
  <2>3. pc'[idleproc] = "idle"
    BY <1>0, <1>8 DEF Inv, KernelThreadsInv
  <2>4. pc'[initproc] \in {"init_main", "wait", "wait_sched", "wait_ret", "init_sched", "init_done", "exit", "panic"}
    BY <1>0, <1>8, <1>9 DEF Inv, KernelThreadsInv, SchedReturn
  <2>5. \A q \in Users : pc'[q] \notin {"idle", "init_main", "init_sched", "init_done", "panic"}
    BY <1>0, <1>8, <1>9 DEF Inv, KernelThreadsInv, SchedReturn
  <2> QED BY <1>0, <2>1, <2>3, <2>4, <2>5 DEF Inv, KernelThreadsInv
<1>13. RunQueueExact'
  BY <1>0, <1>1, <1>2, <1>3, <1>5 DEF RunQueueExact
<1>14. QueueInv' /\ SemaphoreSleepIsUninterrupted'
  BY <1>0 DEF Inv, QueueInv, SemaphoreSleepIsUninterrupted, InQueue
<1>15. Alive' = Alive
  BY <1>0 DEF Alive
<1>16. p # idleproc => pc[p] # "exit_notify" /\ pc[p] # "init_done"
  BY DEF SchedReturn
<1>17. NoLostChildExit'
  BY <1>0, <1>8, <1>15, <1>16 DEF Inv, KernelThreadsInv, NoLostChildExit, Awaited, Children
<1>18. ParentAlive'
  BY <1>0, <1>8, <1>15, <1>16 DEF Inv, KernelThreadsInv, ParentAlive
<1>19. FamilyInv'
  BY <1>0, <1>15 DEF Inv, FamilyInv, Ranked
<1>20. LastInv'
  BY <1>8, <1>9, <1>15 DEF Inv, LastInv, Parked
<1> QED BY <1>7, <1>10, <1>11, <1>12, <1>13, <1>14, <1>17, <1>18, <1>19, <1>20 DEF Inv

LEMMA ScheduleStep == ASSUME Inv, NEW p \in Procs, Schedule(p) PROVE Inv'
<1>1. PICK l \in DOMAIN SchedReturn : At(p, l) /\ Goto(p, SchedReturn[l])
  BY DEF Schedule
<1>2. SchedReturn[l] \in Labels
  BY DEF SchedReturn, Labels
<1>3. p # idleproc
  BY <1>1 DEF At, Inv, KernelThreadsInv, SchedReturn
<1> QED BY <1>1, <1>2, <1>3, SchedStep DEF Schedule, At, Goto

LEMMA IdleStep == ASSUME Inv, cpu_idle PROVE Inv'
<1>1. pc' = [pc EXCEPT ![idleproc] = "idle"] /\ "idle" \in Labels
  BY ProcessAssumption DEF cpu_idle, At, Inv, TypeOK, Labels
<1> QED BY <1>1, SchedStep, ProcessAssumption DEF cpu_idle, At

-----------------------------------------------------------------------------
(* Waking processes. *)

\* What wakeup_proc does to the processes of W, none of which is dead: the sleepers
\* among them become runnable and join the run queue, except for the running one.
LEMMA WakeFacts ==
  ASSUME Inv, NEW W \in SUBSET Procs, wakeup_procs(W), UNCHANGED current,
         \A q \in W : state[q] \in {"RUNNABLE", "SLEEPING"}
  PROVE  /\ state' \in [Procs -> {"NONE", "RUNNABLE", "SLEEPING", "ZOMBIE"}]
         /\ wait_state' \in [Procs -> WaitStates]
         /\ rq' \in [Procs -> Nat]
         /\ RunQueueExact' /\ rq'[idleproc] = 0
         /\ Alive' = Alive
         /\ \A q \in Procs :
              IF q \in W /\ state[q] = "SLEEPING"
              THEN state'[q] = "RUNNABLE" /\ wait_state'[q] = "0"
              ELSE state'[q] = state[q] /\ wait_state'[q] = wait_state[q]
<1> USE ProcessAssumption
<1> DEFINE asleep == {q \in W : state[q] # "RUNNABLE"}
<1>0. /\ state \in [Procs -> {"NONE", "RUNNABLE", "SLEEPING", "ZOMBIE"}]
      /\ wait_state \in [Procs -> WaitStates] /\ rq \in [Procs -> Nat]
      /\ rq[idleproc] = 0 /\ RunQueueExact
  BY DEF Inv, TypeOK, KernelThreadsInv
<1>1. /\ state' = [q \in Procs |-> IF q \in asleep THEN "RUNNABLE" ELSE state[q]]
      /\ wait_state' = [q \in Procs |-> IF q \in asleep THEN "0" ELSE wait_state[q]]
      /\ rq' = [q \in Procs |-> IF q \in asleep \ {current, idleproc} THEN rq[q] + 1 ELSE rq[q]]
  BY DEF wakeup_procs
<1>2. \A q \in Procs : q \in asleep <=> q \in W /\ state[q] = "SLEEPING"
  OBVIOUS
<1> HIDE DEF asleep
<1>3. "0" \in WaitStates
  BY DEF WaitStates
<1>4. /\ state' \in [Procs -> {"NONE", "RUNNABLE", "SLEEPING", "ZOMBIE"}]
      /\ wait_state' \in [Procs -> WaitStates]
      /\ rq' \in [Procs -> Nat]
  BY <1>0, <1>1, <1>3
<1>5. RunQueueExact' /\ rq'[idleproc] = 0
  BY <1>0, <1>1, <1>2 DEF RunQueueExact
<1>6. \A q \in Procs :
        IF q \in W /\ state[q] = "SLEEPING"
        THEN state'[q] = "RUNNABLE" /\ wait_state'[q] = "0"
        ELSE state'[q] = state[q] /\ wait_state'[q] = wait_state[q]
  BY <1>1, <1>2
<1>7. Alive' = Alive
  BY <1>6 DEF Alive
<1> QED BY <1>4, <1>5, <1>6, <1>7

\* A step that wakes the processes of W, takes some of them out of the semaphore's
\* queue, and lets a running user process fall through to the tail of trap().
LEMMA WakeStep ==
  ASSUME Inv, NEW W \in SUBSET Procs, wakeup_procs(W),
         \A q \in W : state[q] \in {"RUNNABLE", "SLEEPING"},
         pc' = [pc EXCEPT ![current] = IF @ = "user" THEN "trap_ret" ELSE @],
         remaining' \in [Procs -> Nat], \A q \in Procs : remaining'[q] > 0 => remaining[q] > 0,
         exiting' \subseteq Procs, need_resched' \subseteq Procs,
         sem' \in SemType(Procs), QueueInv',
         \A q \in Procs : InQueue(q)' <=> InQueue(q) /\ q \notin W,
         UNCHANGED <<parent, current, waitfor>>
  PROVE  Inv'
<1> USE ProcessAssumption DEF Users
<1>0. /\ state' \in [Procs -> {"NONE", "RUNNABLE", "SLEEPING", "ZOMBIE"}]
      /\ wait_state' \in [Procs -> WaitStates]
      /\ rq' \in [Procs -> Nat]
      /\ RunQueueExact' /\ rq'[idleproc] = 0
      /\ Alive' = Alive
      /\ \A q \in Procs :
           IF q \in W /\ state[q] = "SLEEPING"
           THEN state'[q] = "RUNNABLE" /\ wait_state'[q] = "0"
           ELSE state'[q] = state[q] /\ wait_state'[q] = wait_state[q]
  BY WakeFacts
<1>1. pc \in [Procs -> Labels] /\ "trap_ret" \in Labels /\ current \in Procs
  BY DEF Inv, TypeOK, Labels
<1>2. \A q \in Procs : IF q = current /\ pc[q] = "user" THEN pc'[q] = "trap_ret" ELSE pc'[q] = pc[q]
  BY <1>1
<1>3. TypeOK'
  BY <1>0, <1>1 DEF Inv, TypeOK
<1>4. \A q \in Procs : PlaceInv(q)' /\ CpuInv(q)'
  <2> SUFFICES ASSUME NEW q \in Procs PROVE PlaceInv(q)' /\ CpuInv(q)'
    OBVIOUS
  <2>1. PlaceInv(q) /\ CpuInv(q)
    BY DEF Inv
  <2>2. PlaceInv(q)'
    BY <1>0, <1>2, <2>1 DEF PlaceInv
  <2>3. CpuInv(q)'
    BY <1>0, <1>2, <2>1 DEF CpuInv
  <2> QED BY <2>2, <2>3
<1>5. KernelThreadsInv'
  <2>1. idleproc \notin {q \in W : state[q] = "SLEEPING"}
    BY DEF Inv, KernelThreadsInv
  <2> QED BY <1>0, <1>2, <2>1 DEF Inv, KernelThreadsInv
<1>6. SemaphoreSleepIsUninterrupted'
  BY <1>0 DEF Inv, SemaphoreSleepIsUninterrupted
<1>7. NoLostChildExit'
  BY <1>0, <1>2 DEF Inv, NoLostChildExit, Awaited, Children, Alive
<1>8. ParentAlive'
  <2> SUFFICES ASSUME NEW c \in Alive \ {idleproc}
               PROVE  parent[c] \in Alive /\ (state'[parent[c]] = "ZOMBIE" => pc'[parent[c]] = "exit_notify")
    BY <1>0 DEF ParentAlive
  <2>1. parent[c] \in Alive /\ parent[c] \in Procs /\ (state[parent[c]] = "ZOMBIE" => pc[parent[c]] = "exit_notify")
    BY DEF Inv, ParentAlive, Alive
  <2> QED BY <1>0, <1>2, <2>1
<1>9. FamilyInv'
  BY <1>0 DEF Inv, FamilyInv, Ranked
<1>10. LastInv'
  BY <1>0, <1>2 DEF Inv, LastInv
<1> QED BY <1>0, <1>3, <1>4, <1>5, <1>6, <1>7, <1>8, <1>9, <1>10 DEF Inv

\* A sleeper whose timer runs out is not in the queue of the semaphore.
LEMMA ClockStep == ASSUME Inv, clock PROVE Inv'
<1> USE ProcessAssumption
<1> DEFINE W == {q \in Procs : remaining[q] = 1}
<1>1. W \in SUBSET Procs /\ wakeup_procs(W)
  BY DEF clock
<1>2. \A q \in W : pc[q] \in {"sleep_sched", "sleep_ret"} /\ state[q] \in {"RUNNABLE", "SLEEPING"}
  BY DEF Inv, TypeOK, PlaceInv
<1>3. \A q \in W : ~InQueue(q)
  BY <1>2 DEF Inv, PlaceInv, SemaphoreSleepIsUninterrupted
<1>4. remaining' \in [Procs -> Nat] /\ \A q \in Procs : remaining'[q] > 0 => remaining[q] > 0
  BY DEF clock, Inv, TypeOK
<1>5. exiting' \subseteq Procs /\ need_resched' \subseteq Procs /\ sem' = sem /\ sem \in SemType(Procs)
  BY DEF clock, Inv, TypeOK
<1>6. QueueInv' /\ \A q \in Procs : InQueue(q)' <=> InQueue(q) /\ q \notin W
  BY <1>3, <1>5 DEF Inv, QueueInv, InQueue
<1> HIDE DEF W
<1> QED BY <1>1, <1>2, <1>4, <1>5, <1>6, WakeStep DEF clock

\* do_kill does not reach into a semaphore's queue.
LEMMA KillStep == ASSUME Inv, NEW p \in Users, do_kill(p) PROVE Inv'
<1> USE ProcessAssumption
<1>1. PICK v \in Alive \ {idleproc} :
        /\ exiting' = exiting \cup {v}
        /\ wakeup_procs(IF v \notin exiting /\ wait_state[v] \in Interruptible THEN {v} ELSE {})
  BY DEF do_kill
<1> DEFINE W == IF v \notin exiting /\ wait_state[v] \in Interruptible THEN {v} ELSE {}
<1>2. W \in SUBSET Procs /\ wakeup_procs(W) /\ exiting' \subseteq Procs
  BY <1>1 DEF Alive, Inv, TypeOK
<1>3. \A q \in W : state[q] = "SLEEPING" /\ wait_state[q] # "WT_KSEM"
  BY <1>2 DEF Inv, PlaceInv, Interruptible
<1>4. sem' = sem /\ sem \in SemType(Procs) /\ need_resched' \subseteq Procs
      /\ remaining' = remaining /\ remaining \in [Procs -> Nat]
  BY DEF do_kill, Inv, TypeOK
<1>5. QueueInv' /\ \A q \in Procs : InQueue(q)' <=> InQueue(q) /\ q \notin W
  BY <1>3, <1>4 DEF Inv, QueueInv, InQueue, SemaphoreSleepIsUninterrupted
<1>6. pc' = [pc EXCEPT ![current] = IF @ = "user" THEN "trap_ret" ELSE @]
  BY DEF do_kill, At, Goto
<1> HIDE DEF W
<1> QED BY <1>2, <1>3, <1>4, <1>5, <1>6, WakeStep DEF do_kill

\* up hands the semaphore to the head of the queue, which sleeps for it.
LEMMA UpStep == ASSUME Inv, NEW p \in Users, up(p) PROVE Inv'
<1> USE ProcessAssumption
<1> DEFINE w == sem.wait_queue
           W == Woken(sem)
<1>1. sem.value \in Nat /\ w \in Seq(Procs) /\ sem' = Up(sem)
  BY DEF Inv, TypeOK, SemType, up
<1>2. pc' = [pc EXCEPT ![current] = IF @ = "user" THEN "trap_ret" ELSE @]
  BY DEF up, At, Goto
<1>3. CASE w = <<>>
  <2>1. W = {} /\ sem'.wait_queue = <<>> /\ sem' \in SemType(Procs)
    BY <1>1, <1>3 DEF Woken, Up, SemType
  <2>2. QueueInv' /\ \A q \in Procs : InQueue(q)' <=> InQueue(q) /\ q \notin W
    BY <1>3, <2>1 DEF QueueInv, InQueue
  <2> HIDE DEF W
  <2> QED BY <1>2, <2>1, <2>2, WakeStep DEF up, Inv, TypeOK, W
<1>4. CASE w # <<>>
  <2>1. W = {w[1]} /\ w[1] \in Procs /\ InQueue(w[1]) /\ sem'.wait_queue = Tail(w) /\ sem' \in SemType(Procs)
    BY <1>1, <1>4 DEF Woken, Up, SemType, InQueue
  <2>2. /\ Len(Tail(w)) = Len(w) - 1 /\ Len(w) \in Nat /\ Len(w) > 0
        /\ \A k \in 1..(Len(w) - 1) : Tail(w)[k] = w[k + 1]
    BY <1>1, <1>4
  <2>3. QueueInv'
    <3>1. QueueInv
      BY DEF Inv
    <3> QED BY <2>1, <2>2, <3>1 DEF QueueInv
  <2>4. \A q \in Procs : InQueue(q)' <=> InQueue(q) /\ q \notin W
    <3> SUFFICES ASSUME NEW q \in Procs PROVE InQueue(q)' <=> InQueue(q) /\ q # w[1]
      BY <2>1
    <3>1. ASSUME InQueue(q), q # w[1] PROVE InQueue(q)'
      <4>1. PICK k \in 1..Len(w) : w[k] = q
        BY <3>1 DEF InQueue
      <4>2. k - 1 \in 1..(Len(w) - 1) /\ Tail(w)[k - 1] = q
        BY <2>2, <3>1, <4>1
      <4> QED BY <2>1, <2>2, <4>2 DEF InQueue
    <3>2. ASSUME InQueue(q)' PROVE InQueue(q) /\ q # w[1]
      <4>1. PICK k \in 1..(Len(w) - 1) : w[k + 1] = q
        BY <2>1, <2>2, <3>2 DEF InQueue
      <4>2. k + 1 \in 1..Len(w) /\ 1 \in 1..Len(w) /\ k + 1 # 1
        BY <2>2
      <4>3. QueueInv
        BY DEF Inv
      <4> QED BY <4>1, <4>2, <4>3 DEF InQueue, QueueInv
    <3> QED BY <3>1, <3>2
  <2>5. \A q \in W : state[q] = "SLEEPING"
    BY <2>1 DEF Inv, SemaphoreSleepIsUninterrupted
  <2>6. wakeup_procs(W) /\ remaining' = remaining /\ remaining \in [Procs -> Nat] /\ exiting' \subseteq Procs
        /\ need_resched' \subseteq Procs /\ UNCHANGED <<parent, current, waitfor>> /\ W \in SUBSET Procs
    BY <2>1 DEF up, Inv, TypeOK
  <2> HIDE DEF W, w
  <2> QED BY <1>2, <2>1, <2>3, <2>4, <2>5, <2>6, WakeStep
<1> QED BY <1>3, <1>4

\* An exiting process wakes a parent that waits for it, and initproc if it leaves it
\* a zombie: nobody is left asleep beside a dead child.
LEMMA ExitNotifyStep == ASSUME Inv, NEW p \in Procs, ExitNotify(p) PROVE Inv'
<1> USE ProcessAssumption DEF Users
<1> DEFINE inherits == \E c \in Children(p) : state[c] = "ZOMBIE"
           told == {parent[p]} \cup (IF inherits THEN {initproc} ELSE {})
           W == {q \in told : wait_state[q] = "WT_CHILD"}
<1>1. /\ p = current /\ pc[p] = "exit_notify" /\ state[p] = "ZOMBIE" /\ p # idleproc /\ p # initproc
      /\ p \in Alive /\ parent[p] \in Procs
  BY DEF ExitNotify, At, Inv, PlaceInv, KernelThreadsInv, ParentAlive, Alive
<1>2. W \in SUBSET Procs /\ wakeup_procs(W) /\ UNCHANGED <<exiting, current, need_resched, waitfor, remaining, sem>>
      /\ parent' = [c \in Procs |-> IF c \in Children(p) THEN initproc ELSE parent[c]]
  BY <1>1 DEF ExitNotify
<1>3. \A q \in W : state[q] = "SLEEPING"
  BY <1>2 DEF Inv, PlaceInv
<1>4. \A q \in Procs : q \in W <=> q \in told /\ wait_state[q] = "WT_CHILD"
  OBVIOUS
<1> HIDE DEF W
<1>5. /\ state' \in [Procs -> {"NONE", "RUNNABLE", "SLEEPING", "ZOMBIE"}]
      /\ wait_state' \in [Procs -> WaitStates]
      /\ rq' \in [Procs -> Nat]
      /\ RunQueueExact' /\ rq'[idleproc] = 0
      /\ Alive' = Alive
      /\ \A q \in Procs :
           IF q \in W /\ state[q] = "SLEEPING"
           THEN state'[q] = "RUNNABLE" /\ wait_state'[q] = "0"
           ELSE state'[q] = state[q] /\ wait_state'[q] = wait_state[q]
  BY <1>2, <1>3, WakeFacts
<1>6. /\ pc \in [Procs -> Labels] /\ "exit_sched" \in Labels
      /\ pc' = [pc EXCEPT ![p] = "exit_sched"]
  BY DEF Inv, TypeOK, Labels, SchedReturn, ExitNotify, Goto
<1>7. pc'[p] = "exit_sched" /\ \A q \in Procs \ {p} : pc'[q] = pc[q]
  BY <1>6
<1>8. TypeOK'
  BY <1>2, <1>5, <1>6 DEF Inv, TypeOK
<1>9. \A q \in Procs : PlaceInv(q)' /\ CpuInv(q)'
  <2> SUFFICES ASSUME NEW q \in Procs PROVE PlaceInv(q)' /\ CpuInv(q)'
    OBVIOUS
  <2>1. PlaceInv(q) /\ CpuInv(q)
    BY DEF Inv
  <2>2. PlaceInv(q)'
    BY <1>1, <1>2, <1>5, <1>7, <2>1 DEF PlaceInv
  <2>3. CpuInv(q)'
    BY <1>1, <1>2, <1>5, <1>7, <2>1 DEF CpuInv
  <2> QED BY <2>2, <2>3
<1>10. KernelThreadsInv'
  <2>1. ~(idleproc \in W /\ state[idleproc] = "SLEEPING")
    BY DEF Inv, KernelThreadsInv
  <2> QED BY <1>1, <1>2, <1>5, <1>7, <2>1 DEF Inv, KernelThreadsInv
<1>11. QueueInv' /\ SemaphoreSleepIsUninterrupted'
  <2>1. \A q \in W : wait_state[q] # "WT_KSEM"
    BY <1>2, <1>4
  <2> QED BY <1>2, <1>5, <2>1 DEF Inv, QueueInv, SemaphoreSleepIsUninterrupted, InQueue
<1>12. NoLostChildExit'
  <2> SUFFICES ASSUME NEW q \in Procs, state'[q] = "SLEEPING", wait_state'[q] = "WT_CHILD",
                      NEW c \in Awaited(q)', state'[c] = "ZOMBIE"
               PROVE  pc'[c] = "exit_notify"
    BY DEF NoLostChildExit
  <2>1. state[q] = "SLEEPING" /\ wait_state[q] = "WT_CHILD" /\ q \notin told
    BY <1>4, <1>5
  <2>2. c \in Alive /\ c \in Procs /\ parent'[c] = q /\ waitfor[q] \in {NULL, c} /\ state[c] = "ZOMBIE"
    BY <1>2, <1>5 DEF Awaited, Children, Alive
  <2>3. c \notin Children(p)
    BY <1>2, <2>1, <2>2
  <2>4. parent[c] = q /\ c # p
    BY <1>2, <2>1, <2>2, <2>3
  <2>5. pc[c] = "exit_notify"
    BY <2>1, <2>2, <2>4 DEF Inv, NoLostChildExit, Awaited, Children
  <2> QED BY <1>7, <2>2, <2>4, <2>5
<1>13. ParentAlive'
  <2> SUFFICES ASSUME NEW c \in Alive \ {idleproc}
               PROVE  parent'[c] \in Alive /\ (state'[parent'[c]] = "ZOMBIE" => pc'[parent'[c]] = "exit_notify")
    BY <1>5 DEF ParentAlive
  <2>1. parent[c] \in Alive /\ parent[c] \in Procs /\ (state[parent[c]] = "ZOMBIE" => pc[parent[c]] = "exit_notify")
        /\ c \in Procs
    BY DEF Inv, ParentAlive, Alive
  <2>2. CASE c \in Children(p)
    <3>1. initproc \in Alive /\ state[initproc] # "ZOMBIE"
      BY DEF Inv, KernelThreadsInv, PlaceInv, Alive
    <3> QED BY <1>2, <1>5, <2>1, <2>2, <3>1
  <2>3. CASE c \notin Children(p)
    <3>1. parent'[c] = parent[c] /\ parent[c] # p
      BY <1>2, <2>1, <2>3 DEF Children
    <3> QED BY <1>5, <1>7, <2>1, <3>1
  <2> QED BY <2>2, <2>3
<1>14. FamilyInv'
  <2>1. \A c \in Alive \cap Users : parent'[c] \in Users \cup {initproc}
    BY <1>2 DEF Inv, FamilyInv, Alive
  <2>2. parent'[initproc] = idleproc
    BY <1>1, <1>2 DEF Inv, FamilyInv, Children
  <2>3. PICK rank \in [Procs -> Nat] : Ranked(rank)
    BY DEF Inv, FamilyInv
  <2>4. Ranked(rank)'
    BY <1>2, <1>5, <2>3 DEF Ranked, Alive
  <2> QED BY <1>5, <2>1, <2>2, <2>3, <2>4 DEF FamilyInv
<1>15. LastInv'
  BY <1>1, <1>7 DEF Inv, LastInv, CpuInv, Parked
<1> QED BY <1>5, <1>8, <1>9, <1>10, <1>11, <1>12, <1>13, <1>14, <1>15 DEF Inv

-----------------------------------------------------------------------------
(* New processes, sleeping, exit and wait. *)

\* do_fork by the running process p: the child ranks just above it.
LEMMA NewProcessStep ==
  ASSUME Inv, NEW p \in Procs, p = current, NEW c \in Users, NewProcess(p, c),
         NEW label, pc' = [pc EXCEPT ![c] = "user", ![p] = label],
         \/ p \in Users /\ pc[p] = "user" /\ label = "trap_ret"
         \/ p = initproc /\ pc[p] = "init_main" /\ label = "wait"
  PROVE  Inv'
<1> USE ProcessAssumption DEF Users
<1>0. /\ state' = [state EXCEPT ![c] = "RUNNABLE"] /\ wait_state' = [wait_state EXCEPT ![c] = "0"]
      /\ parent' = [parent EXCEPT ![c] = p] /\ rq' = [rq EXCEPT ![c] = @ + 1]
      /\ exiting' = exiting \ {c} /\ need_resched' = need_resched \ {c} /\ state[c] = "NONE"
      /\ UNCHANGED <<current, waitfor, remaining, sem>>
  BY DEF NewProcess
<1>1. TypeOK
  BY DEF Inv
<1>2. pc[c] = "none" /\ c # p /\ rq[c] = 0 /\ state[p] = "RUNNABLE"
  BY <1>0, <1>1 DEF Inv, PlaceInv, CpuInv, RunQueueExact, TypeOK
<1>3. /\ pc'[c] = "user" /\ pc'[p] = label /\ \A q \in Procs \ {c, p} : pc'[q] = pc[q]
      /\ state'[c] = "RUNNABLE" /\ wait_state'[c] = "0" /\ parent'[c] = p /\ rq'[c] = 1
      /\ \A q \in Procs \ {c} : state'[q] = state[q] /\ wait_state'[q] = wait_state[q]
                                /\ parent'[q] = parent[q] /\ rq'[q] = rq[q]
  BY <1>0, <1>1, <1>2 DEF TypeOK
<1>4. TypeOK'
  <2>1. pc' \in [Procs -> Labels]
    BY <1>1 DEF TypeOK, Labels
  <2>2. "0" \in WaitStates
    BY DEF WaitStates
  <2> QED BY <1>0, <1>1, <2>1, <2>2 DEF TypeOK
<1>5. \A q \in Procs : PlaceInv(q)' /\ CpuInv(q)'
  <2> SUFFICES ASSUME NEW q \in Procs PROVE PlaceInv(q)' /\ CpuInv(q)'
    OBVIOUS
  <2>1. PlaceInv(q) /\ CpuInv(q)
    BY DEF Inv
  <2>2. CASE q = c
    <3>1. q # current' /\ remaining'[q] = 0 /\ pc'[q] = "user"
      BY <1>0, <1>1, <1>2, <1>3, <2>1, <2>2 DEF PlaceInv, TypeOK
    <3>2. PlaceInv(q)'
      BY <1>3, <2>2, <3>1 DEF PlaceInv
    <3> QED BY <3>1, <3>2 DEF CpuInv, Parked
  <2>3. CASE q = p
    <3>1. state'[q] = "RUNNABLE" /\ wait_state'[q] = wait_state[q] /\ remaining'[q] = remaining[q] /\ current' = current
      BY <1>0, <1>2, <1>3, <2>3
    <3>2. q = current /\ pc'[q] \in {"trap_ret", "wait"} /\ pc[q] \in {"user", "init_main"}
      BY <1>3, <2>3
    <3> QED BY <2>1, <3>1, <3>2 DEF PlaceInv, CpuInv
  <2>4. CASE q \notin {c, p}
    <3>1. /\ state'[q] = state[q] /\ wait_state'[q] = wait_state[q] /\ remaining'[q] = remaining[q]
          /\ pc'[q] = pc[q] /\ current' = current
      BY <1>0, <1>3, <2>4
    <3> QED BY <2>1, <3>1 DEF PlaceInv, CpuInv
  <2> QED BY <2>2, <2>3, <2>4
<1>6a. KernelThreadsInv'
  <2>1. KernelThreadsInv
    BY DEF Inv
  <2>2. idleproc \notin {c, p} /\ initproc # c
    BY <2>1 DEF KernelThreadsInv
  <2>3. \A q \in Users : pc'[q] \notin {"idle", "init_main", "init_sched", "init_done", "panic"}
    BY <1>3, <2>1 DEF KernelThreadsInv
  <2>4. pc'[initproc] \in {"init_main", "wait", "wait_sched", "wait_ret", "init_sched", "init_done", "exit", "panic"}
    BY <1>3, <2>1, <2>2 DEF KernelThreadsInv
  <2> QED BY <1>0, <1>3, <2>1, <2>2, <2>3, <2>4 DEF KernelThreadsInv
<1>6. RunQueueExact'
  <2>1. RunQueueExact /\ current' = current
    BY <1>0 DEF Inv
  <2> QED BY <1>2, <1>3, <2>1 DEF RunQueueExact
<1>7. QueueInv' /\ SemaphoreSleepIsUninterrupted'
  BY <1>0, <1>3 DEF Inv, QueueInv, SemaphoreSleepIsUninterrupted, InQueue
<1>8. Alive' = Alive \cup {c} /\ c \notin Alive /\ p \in Alive
  BY <1>0, <1>2, <1>3 DEF Alive
<1>9. NoLostChildExit'
  <2> SUFFICES ASSUME NEW q \in Procs, state'[q] = "SLEEPING", wait_state'[q] = "WT_CHILD",
                      NEW d \in Awaited(q)', state'[d] = "ZOMBIE"
               PROVE  pc'[d] = "exit_notify"
    BY DEF NoLostChildExit
  <2>1. q # c /\ d # c /\ d \in Alive /\ d \in Procs
    BY <1>3, <1>8 DEF Awaited, Children, Alive
  <2>2. d \in Awaited(q)
    BY <1>0, <1>3, <2>1 DEF Awaited, Children
  <2>3. pc[d] = "exit_notify"
    BY <1>3, <2>1, <2>2 DEF Inv, NoLostChildExit
  <2> QED BY <1>3, <2>1, <2>3
<1>10. ParentAlive'
  <2> SUFFICES ASSUME NEW d \in Alive' \ {idleproc}
               PROVE  parent'[d] \in Alive' /\ (state'[parent'[d]] = "ZOMBIE" => pc'[parent'[d]] = "exit_notify")
    BY DEF ParentAlive
  <2>1. CASE d = c
    BY <1>2, <1>3, <1>8, <2>1
  <2>2. CASE d # c
    <3>1. d \in Alive \ {idleproc} /\ parent'[d] = parent[d]
      BY <1>3, <1>8, <2>2 DEF Alive
    <3>2. parent[d] \in Alive /\ parent[d] # c /\ parent[d] \in Procs
          /\ (state[parent[d]] = "ZOMBIE" => pc[parent[d]] = "exit_notify")
      BY <1>8, <3>1 DEF Inv, ParentAlive, Alive
    <3>3. parent[d] = p \/ pc'[parent[d]] = pc[parent[d]]
      BY <1>3, <3>2
    <3>4. state'[parent[d]] = state[parent[d]]
      BY <1>3, <3>2
    <3> QED BY <1>2, <1>8, <3>1, <3>2, <3>3, <3>4
  <2> QED BY <2>1, <2>2
<1>11. FamilyInv'
  <2>1. PICK rank \in [Procs -> Nat] : Ranked(rank)
    BY DEF Inv, FamilyInv
  <2> DEFINE r == [rank EXCEPT ![c] = rank[p] + 1]
  <2>2. r \in [Procs -> Nat] /\ r[c] = rank[p] + 1 /\ r[p] = rank[p] /\ \A q \in Procs \ {c} : r[q] = rank[q]
    BY <1>2
  <2> HIDE DEF r
  <2>3. Ranked(r)'
    <3> SUFFICES ASSUME NEW d \in Alive' \cap Users, parent'[d] \in Users PROVE r[parent'[d]] < r[d]
      BY DEF Ranked
    <3>1. CASE d = c
      BY <1>3, <2>2, <3>1
    <3>2. CASE d # c
      <4>1. d \in Alive \cap Users /\ parent'[d] = parent[d]
        BY <1>3, <1>8, <3>2
      <4>2. parent[d] \in Alive
        BY <4>1 DEF Inv, ParentAlive
      <4>3. rank[parent[d]] < rank[d] /\ parent[d] # c /\ d # c
        BY <1>8, <2>1, <3>2, <4>1, <4>2 DEF Ranked
      <4> QED BY <2>2, <4>1, <4>3
    <3> QED BY <3>1, <3>2
  <2>4. \A d \in Alive' \cap Users : parent'[d] \in Users \cup {initproc}
    BY <1>3, <1>8 DEF Inv, FamilyInv
  <2>5. parent'[initproc] = idleproc
    BY <1>3 DEF Inv, FamilyInv
  <2> QED BY <2>2, <2>3, <2>4, <2>5 DEF FamilyInv
<1>12. LastInv'
  BY <1>2, <1>3 DEF Inv, LastInv, CpuInv, Parked
<1> QED BY <1>4, <1>5, <1>6, <1>6a, <1>7, <1>9, <1>10, <1>11, <1>12 DEF Inv

LEMMA ForkStep == ASSUME Inv, NEW p \in Users, do_fork(p) PROVE Inv'
<1>1. PICK c \in Users : NewProcess(p, c) /\ pc' = [pc EXCEPT ![c] = "user", ![p] = "trap_ret"]
  BY DEF do_fork
<1> QED BY <1>1, NewProcessStep DEF do_fork, At, Users

LEMMA InitMainStep == ASSUME Inv, init_main PROVE Inv'
<1>1. PICK c \in Users : NewProcess(initproc, c) /\ pc' = [pc EXCEPT ![c] = "user", ![initproc] = "wait"]
  BY DEF init_main
<1> QED BY <1>1, NewProcessStep, ProcessAssumption DEF init_main, At

\* The running process marks itself sleeping for "why"; when it waits for a child, none
\* of those it awaits is dead.
LEMMA SleepStep ==
  ASSUME Inv, NEW p \in Procs \ {idleproc}, p = current, state[p] = "RUNNABLE",
         pc[p] \in {"user", "wait"},
         NEW why, NEW label, Sleep(p, why), Goto(p, label),
         \/ why = "WT_CHILD" /\ label = "wait_sched" /\ \A c \in Awaited(p) : state[c] # "ZOMBIE"
         \/ why = "WT_TIMER" /\ label = "sleep_sched" /\ p # initproc
         \/ why = "WT_KSEM" /\ label = "down_sched" /\ p # initproc,
         remaining' \in [Procs -> Nat], \A q \in Procs \ {p} : remaining'[q] = remaining[q],
         why # "WT_TIMER" => remaining' = remaining,
         sem' \in SemType(Procs), QueueInv',
         \A q \in Procs : InQueue(q)' <=> InQueue(q) \/ (q = p /\ why = "WT_KSEM"),
         UNCHANGED <<exiting, parent, rq, current, need_resched, waitfor>>
  PROVE  Inv'
<1> USE ProcessAssumption DEF Users
<1>1. TypeOK
  BY DEF Inv
<1>2. /\ pc' = [pc EXCEPT ![p] = label] /\ state' = [state EXCEPT ![p] = "SLEEPING"]
      /\ wait_state' = [wait_state EXCEPT ![p] = why]
  BY DEF Goto, Sleep
<1>3. /\ pc'[p] = label /\ state'[p] = "SLEEPING" /\ wait_state'[p] = why
      /\ \A q \in Procs \ {p} : pc'[q] = pc[q] /\ state'[q] = state[q] /\ wait_state'[q] = wait_state[q]
  BY <1>1, <1>2 DEF TypeOK
<1>4. TypeOK'
  <2>1. label \in Labels /\ why \in WaitStates
    BY DEF Labels, SchedReturn, WaitStates, Interruptible
  <2> QED BY <1>1, <1>2, <2>1 DEF TypeOK
<1>5. \A q \in Procs : PlaceInv(q)' /\ CpuInv(q)'
  <2> SUFFICES ASSUME NEW q \in Procs PROVE PlaceInv(q)' /\ CpuInv(q)'
    OBVIOUS
  <2>1. PlaceInv(q) /\ CpuInv(q)
    BY DEF Inv
  <2>2. CASE q = p
    BY <1>1, <1>3, <2>1, <2>2 DEF PlaceInv, CpuInv, TypeOK
  <2>3. CASE q # p
    BY <1>3, <2>1, <2>3 DEF PlaceInv, CpuInv
  <2> QED BY <2>2, <2>3
<1>6. KernelThreadsInv' /\ RunQueueExact'
  BY <1>3 DEF Inv, KernelThreadsInv, RunQueueExact
<1>7. SemaphoreSleepIsUninterrupted'
  BY <1>3 DEF Inv, SemaphoreSleepIsUninterrupted
<1>8. Alive' = Alive
  BY <1>3 DEF Alive
<1>9. NoLostChildExit'
  <2> SUFFICES ASSUME NEW q \in Procs, state'[q] = "SLEEPING", wait_state'[q] = "WT_CHILD",
                      NEW c \in Awaited(q)', state'[c] = "ZOMBIE"
               PROVE  pc'[c] = "exit_notify"
    BY DEF NoLostChildExit
  <2>1. c \in Awaited(q) /\ c \in Procs /\ c # p /\ state[c] = "ZOMBIE"
    BY <1>3, <1>8 DEF Awaited, Children, Alive
  <2>2. q # p
    BY <1>3, <2>1
  <2>3. pc[c] = "exit_notify"
    BY <1>3, <2>1, <2>2 DEF Inv, NoLostChildExit
  <2> QED BY <1>3, <2>1, <2>3
<1>10. ParentAlive'
  <2> SUFFICES ASSUME NEW c \in Alive \ {idleproc}
               PROVE  parent[c] \in Alive /\ (state'[parent[c]] = "ZOMBIE" => pc'[parent[c]] = "exit_notify")
    BY <1>8 DEF ParentAlive
  <2>1. parent[c] \in Alive /\ parent[c] \in Procs /\ (state[parent[c]] = "ZOMBIE" => pc[parent[c]] = "exit_notify")
    BY DEF Inv, ParentAlive, Alive
  <2> QED BY <1>3, <2>1
<1>11. FamilyInv'
  BY <1>8 DEF Inv, FamilyInv, Ranked
<1>12. LastInv'
  BY <1>3, <1>8 DEF Inv, LastInv
<1> QED BY <1>4, <1>5, <1>6, <1>7, <1>9, <1>10, <1>11, <1>12 DEF Inv

LEMMA DoSleepStep == ASSUME Inv, NEW p \in Users, do_sleep(p) PROVE Inv'
<1> USE ProcessAssumption
<1>1. At(p, "user")
  BY DEF do_sleep
<1>2. p = current /\ pc[p] = "user" /\ state[p] = "RUNNABLE" /\ p \in Procs \ {idleproc} /\ p # initproc
  BY <1>1, InUserMode
<1>3. remaining' \in [Procs -> Nat] /\ \A q \in Procs \ {p} : remaining'[q] = remaining[q]
  BY <1>2 DEF do_sleep, Inv, TypeOK
<1>4. QueueInv' /\ (\A q \in Procs : InQueue(q)' <=> InQueue(q)) /\ sem' \in SemType(Procs)
  BY DEF do_sleep, Inv, TypeOK, QueueInv, InQueue
<1> QED BY <1>2, <1>3, <1>4, SleepStep DEF do_sleep

\* down takes the semaphore, or joins the queue that the process cannot be in yet.
LEMMA DownStep == ASSUME Inv, NEW p \in Users, down(p) PROVE Inv'
<1> USE ProcessAssumption
<1> DEFINE w == sem.wait_queue
<1>1. At(p, "user") /\ sem' = Down(sem, p) /\ sem.value \in Nat /\ w \in Seq(Procs)
  BY DEF down, Inv, TypeOK, SemType
<1>2. /\ p = current /\ pc[p] = "user" /\ state[p] = "RUNNABLE" /\ p \in Procs \ {idleproc} /\ p # initproc
      /\ remaining = [remaining EXCEPT ![p] = 0]
  BY <1>1, InUserMode
<1>3. CASE Blocks(sem)
  <2>1. /\ sem'.wait_queue = Append(w, p) /\ sem' \in SemType(Procs)
        /\ Len(Append(w, p)) = Len(w) + 1 /\ Len(w) \in Nat
        /\ Append(w, p)[Len(w) + 1] = p
        /\ \A k \in 1..Len(w) : Append(w, p)[k] = w[k]
    BY <1>1, <1>2, <1>3 DEF Down, SemType
  <2>2. \A k \in 1..Len(w) : w[k] # p
    BY <1>2 DEF Inv, SemaphoreSleepIsUninterrupted, InQueue
  <2> HIDE DEF w
  <2>3. QueueInv'
    <3>1. \A j, k \in 1..Len(w) : w[j] = w[k] => j = k
      BY DEF Inv, QueueInv, w
    <3> QED BY <2>1, <2>2, <3>1 DEF QueueInv
  <2>4. \A q \in Procs : InQueue(q)' <=> InQueue(q) \/ q = p
    <3>1. \A q \in Procs : InQueue(q) <=> \E k \in 1..Len(w) : w[k] = q
      BY DEF InQueue, w
    <3>2. \A q \in Procs : InQueue(q)' <=> \E k \in 1..(Len(w) + 1) : Append(w, p)[k] = q
      BY <2>1 DEF InQueue
    <3> QED BY <2>1, <3>1, <3>2
  <2>5. Sleep(p, "WT_KSEM") /\ Goto(p, "down_sched") /\ remaining' = remaining /\ remaining \in [Procs -> Nat]
        /\ UNCHANGED <<exiting, parent, rq, current, need_resched, waitfor>>
    BY <1>3 DEF down, Inv, TypeOK
  <2> QED BY <1>2, <2>1, <2>3, <2>4, <2>5, SleepStep
<1>4. CASE ~Blocks(sem)
  <2>1. sem' \in SemType(Procs) /\ sem'.wait_queue = w
    BY <1>1, <1>4 DEF Down, Blocks, SemType
  <2>2. UNCHANGED <<state, wait_state>> /\ Goto(p, "trap_ret")
        /\ UNCHANGED <<exiting, parent, rq, current, need_resched, waitfor, remaining>>
    BY <1>4 DEF down
  <2> QED BY <1>2, <2>1, <2>2, GotoStep DEF Inv, TypeOK
<1> QED BY <1>3, <1>4

\* A process becomes a zombie while it still runs, about to notify its parent.
LEMMA ExitStep == ASSUME Inv, NEW p \in Procs, do_exit(p) PROVE Inv'
<1> USE ProcessAssumption DEF Users
<1>1. p = current /\ pc[p] = "exit" /\ state[p] = "RUNNABLE" /\ p # idleproc
  BY DEF do_exit, At, Inv, TypeOK, PlaceInv, KernelThreadsInv, CpuInv
<1>2. /\ waitfor' \in [Procs -> Procs \cup {NULL}] /\ waitfor'[p] = NULL
      /\ \A q \in Procs \ {p} : waitfor'[q] = waitfor[q]
  BY DEF do_exit, Inv, TypeOK
<1>3. CASE p = initproc
  <2>1. remaining' = [remaining EXCEPT ![p] = 0]
    BY <1>1, NoTimer DEF do_exit
  <2> QED BY <1>1, <1>2, <1>3, <2>1, GotoStep DEF do_exit, Inv, TypeOK
<1>4. CASE p # initproc
  <2>1. /\ pc' = [pc EXCEPT ![p] = "exit_notify"] /\ state' = [state EXCEPT ![p] = "ZOMBIE"]
        /\ UNCHANGED <<wait_state, exiting, parent, rq, current, need_resched, remaining, sem>>
    BY <1>4 DEF do_exit, Goto
  <2>2. TypeOK
    BY DEF Inv
  <2>3. /\ pc'[p] = "exit_notify" /\ state'[p] = "ZOMBIE"
        /\ \A q \in Procs \ {p} : pc'[q] = pc[q] /\ state'[q] = state[q]
    BY <2>1, <2>2 DEF TypeOK
  <2>4. TypeOK'
    BY <1>2, <2>1, <2>2 DEF TypeOK, Labels
  <2>5. \A q \in Procs : PlaceInv(q)' /\ CpuInv(q)'
    <3> SUFFICES ASSUME NEW q \in Procs PROVE PlaceInv(q)' /\ CpuInv(q)'
      OBVIOUS
    <3>1. PlaceInv(q) /\ CpuInv(q)
      BY DEF Inv
    <3>2. CASE q = p
      BY <1>1, <2>1, <2>2, <2>3, <3>1, <3>2 DEF PlaceInv, CpuInv, TypeOK, WaitStates, Interruptible
    <3>3. CASE q # p
      BY <2>1, <2>3, <3>1, <3>3 DEF PlaceInv, CpuInv
    <3> QED BY <3>2, <3>3
  <2>6. KernelThreadsInv' /\ RunQueueExact'
    BY <1>1, <1>2, <1>4, <2>1, <2>3 DEF Inv, KernelThreadsInv, RunQueueExact
  <2>7. QueueInv' /\ SemaphoreSleepIsUninterrupted'
    BY <1>1, <2>1, <2>3 DEF Inv, QueueInv, SemaphoreSleepIsUninterrupted, InQueue
  <2>8. Alive' = Alive
    BY <1>1, <2>3 DEF Alive
  <2>9. NoLostChildExit'
    BY <1>1, <1>2, <2>1, <2>3, <2>8 DEF Inv, NoLostChildExit, Awaited, Children, Alive
  <2>10. ParentAlive'
    <3> SUFFICES ASSUME NEW c \in Alive \ {idleproc}
                 PROVE  parent[c] \in Alive /\ (state'[parent[c]] = "ZOMBIE" => pc'[parent[c]] = "exit_notify")
      BY <2>1, <2>8 DEF ParentAlive
    <3>1. parent[c] \in Alive /\ parent[c] \in Procs /\ (state[parent[c]] = "ZOMBIE" => pc[parent[c]] = "exit_notify")
      BY DEF Inv, ParentAlive, Alive
    <3> QED BY <2>3, <3>1
  <2>11. FamilyInv'
    BY <2>1, <2>8 DEF Inv, FamilyInv, Ranked
  <2>12. LastInv'
    BY <1>4, <2>3, <2>8 DEF Inv, LastInv
  <2> QED BY <2>4, <2>5, <2>6, <2>7, <2>9, <2>10, <2>11, <2>12 DEF Inv
<1> QED BY <1>3, <1>4

\* A non-empty set of numbers has a minimal element, here the least rank.
LEMMA Minimal ==
  ASSUME NEW R, IsWellFoundedOn(R, Nat), NEW S, S \subseteq Nat, S # {}
  PROVE  \E n \in S : \A m \in S : ~(<<m, n>> \in R)
BY WFMin

LEMMA NotLess ==
  ASSUME NEW R, \A m, n \in Nat : <<m, n>> \in R <=> m < n,
         NEW S, S \subseteq Nat, \E n \in S : \A m \in S : ~(<<m, n>> \in R)
  PROVE  \E n \in S : \A m \in S : ~(m < n)
OBVIOUS

LEMMA LeastRank ==
  ASSUME NEW S, S \subseteq Nat, S # {}
  PROVE  \E n \in S : \A m \in S : ~(m < n)
<1>1. \A m, n \in Nat : <<m, n>> \in OpToRel(<, Nat) <=> m < n
  BY DEF OpToRel
<1>2. \E n \in S : \A m \in S : ~(<<m, n>> \in OpToRel(<, Nat))
  BY NatLessThanWellFounded, Minimal
<1> QED BY <1>1, <1>2, NotLess

\* When initproc has no children left there is nobody left: going from parent to parent
\* from any other process would end at a child of initproc.
LEMMA NobodyLeft ==
  ASSUME Inv, Children(initproc) = {}
  PROVE  Alive = {idleproc, initproc}
<1> USE ProcessAssumption DEF Users
<1>1. idleproc \in Alive /\ initproc \in Alive
  BY DEF Inv, KernelThreadsInv, PlaceInv, Alive
<1>2. Alive \cap Users = {}
  <2> SUFFICES ASSUME Alive \cap Users # {} PROVE FALSE
    OBVIOUS
  <2>1. PICK rank \in [Procs -> Nat] : Ranked(rank)
    BY DEF Inv, FamilyInv
  <2> DEFINE S == {rank[u] : u \in Alive \cap Users}
  <2>2. S \subseteq Nat /\ S # {}
    OBVIOUS
  <2>3. PICK m \in S : \A n \in S : ~(n < m)
    BY <2>2, LeastRank
  <2>4. PICK u \in Alive \cap Users : rank[u] = m
    OBVIOUS
  <2>5. parent[u] \in Users /\ parent[u] \in Alive
    BY DEF Inv, FamilyInv, ParentAlive, Children
  <2>6. rank[parent[u]] \in S /\ rank[parent[u]] < m /\ m \in Nat /\ rank[parent[u]] \in Nat
    BY <2>1, <2>4, <2>5 DEF Ranked
  <2> QED BY <2>3, <2>6
<1> QED BY <1>1, <1>2 DEF Alive

\* Freeing a zombie child: it is off the CPU for good and nobody's parent.
LEMMA ReapStep ==
  ASSUME Inv, NEW p \in Procs \ {idleproc}, p = current, state[p] = "RUNNABLE", pc[p] = "wait",
         NEW c \in Children(p), state[c] = "ZOMBIE", Reap(c),
         pc' = [pc EXCEPT ![c] = "none", ![p] = IF p = initproc THEN "init_sched" ELSE "trap_ret"],
         waitfor' = [waitfor EXCEPT ![p] = NULL],
         UNCHANGED <<wait_state, rq, current, remaining, sem>>
  PROVE  Inv'
<1> USE ProcessAssumption DEF Users
<1>1. TypeOK
  BY DEF Inv
<1>2. c \in Procs /\ c \in Alive /\ c # p /\ pc[c] = "dead" /\ c # initproc /\ c # idleproc
      /\ wait_state[c] = "0" /\ remaining[c] = 0
  BY <1>1 DEF Children, Alive, Inv, PlaceInv, CpuInv, Parked, KernelThreadsInv, TypeOK
<1>3. /\ state' = [state EXCEPT ![c] = "NONE"] /\ parent' = [parent EXCEPT ![c] = NULL]
      /\ exiting' = exiting \ {c} /\ need_resched' = need_resched \ {c}
  BY DEF Reap
<1>4. /\ pc'[c] = "none" /\ state'[c] = "NONE" /\ pc'[p] = (IF p = initproc THEN "init_sched" ELSE "trap_ret")
      /\ waitfor'[p] = NULL /\ state'[p] = "RUNNABLE"
      /\ \A q \in Procs \ {c} : state'[q] = state[q] /\ parent'[q] = parent[q]
      /\ \A q \in Procs \ {p} : waitfor'[q] = waitfor[q]
      /\ \A q \in Procs \ {c, p} : pc'[q] = pc[q]
  BY <1>1, <1>2, <1>3 DEF TypeOK
<1>5. TypeOK'
  <2>1. pc' \in [Procs -> Labels]
    BY <1>1 DEF TypeOK, Labels, SchedReturn
  <2> QED BY <1>1, <1>3, <2>1 DEF TypeOK
<1>6. \A q \in Procs : PlaceInv(q)' /\ CpuInv(q)'
  <2> SUFFICES ASSUME NEW q \in Procs PROVE PlaceInv(q)' /\ CpuInv(q)'
    OBVIOUS
  <2>1. PlaceInv(q) /\ CpuInv(q)
    BY DEF Inv
  <2>2. CASE q = p
    BY <1>2, <1>4, <2>1, <2>2 DEF PlaceInv, CpuInv
  <2>3. CASE q = c
    BY <1>2, <1>4, <2>1, <2>3 DEF PlaceInv, CpuInv, Parked
  <2>4. CASE q \notin {p, c}
    BY <1>4, <2>1, <2>4 DEF PlaceInv, CpuInv
  <2> QED BY <2>2, <2>3, <2>4
<1>7a. KernelThreadsInv'
  <2>1. KernelThreadsInv
    BY DEF Inv
  <2>2. \A q \in Users : pc'[q] \notin {"idle", "init_main", "init_sched", "init_done", "panic"}
    <3> SUFFICES ASSUME NEW q \in Users PROVE pc'[q] \notin {"idle", "init_main", "init_sched", "init_done", "panic"}
      OBVIOUS
    <3>1. q = c \/ q = p \/ pc'[q] = pc[q]
      BY <1>4
    <3>2. q = p => pc'[q] = "trap_ret"
      BY <1>4
    <3> QED BY <1>4, <2>1, <3>1, <3>2 DEF KernelThreadsInv
  <2>3. pc'[initproc] \in {"init_main", "wait", "wait_sched", "wait_ret", "init_sched", "init_done", "exit", "panic"}
    BY <1>2, <1>4, <2>1 DEF KernelThreadsInv
  <2> QED BY <1>2, <1>4, <2>1, <2>2, <2>3 DEF KernelThreadsInv
<1>7. RunQueueExact'
  <2>1. RunQueueExact
    BY DEF Inv
  <2> QED BY <1>2, <1>4, <2>1 DEF RunQueueExact
<1>8. QueueInv' /\ SemaphoreSleepIsUninterrupted'
  BY <1>4 DEF Inv, QueueInv, SemaphoreSleepIsUninterrupted, InQueue
<1>9. Alive' = Alive \ {c}
  BY <1>2, <1>4 DEF Alive
<1>10. NoLostChildExit'
  <2> SUFFICES ASSUME NEW q \in Procs, state'[q] = "SLEEPING", wait_state'[q] = "WT_CHILD",
                      NEW d \in Awaited(q)', state'[d] = "ZOMBIE"
               PROVE  pc'[d] = "exit_notify"
    BY DEF NoLostChildExit
  <2>1. q # c /\ q # p /\ d # c /\ d # p /\ d \in Alive /\ d \in Procs
    BY <1>4, <1>9 DEF Awaited, Children, Alive
  <2>2. d \in Awaited(q)
    BY <1>4, <2>1 DEF Awaited, Children
  <2>3. pc[d] = "exit_notify"
    BY <1>4, <2>1, <2>2 DEF Inv, NoLostChildExit
  <2> QED BY <1>4, <2>1, <2>3
<1>11. ParentAlive'
  <2> SUFFICES ASSUME NEW d \in Alive \ {idleproc}, d # c
               PROVE  parent'[d] \in Alive' /\ (state'[parent'[d]] = "ZOMBIE" => pc'[parent'[d]] = "exit_notify")
    BY <1>9 DEF ParentAlive
  <2>1. parent[d] \in Alive /\ parent[d] \in Procs /\ (state[parent[d]] = "ZOMBIE" => pc[parent[d]] = "exit_notify")
        /\ d \in Procs
    BY DEF Inv, ParentAlive, Alive
  <2>2. parent[d] # c /\ parent'[d] = parent[d] /\ state'[parent[d]] = state[parent[d]]
    BY <1>2, <1>4, <2>1
  <2>3. parent[d] = p \/ pc'[parent[d]] = pc[parent[d]]
    BY <1>4, <2>1, <2>2
  <2> QED BY <1>4, <1>9, <2>1, <2>2, <2>3
<1>12. FamilyInv'
  <2>1. PICK rank \in [Procs -> Nat] : Ranked(rank)
    BY DEF Inv, FamilyInv
  <2>2. Ranked(rank)'
    BY <1>4, <1>9, <2>1 DEF Ranked
  <2>3. \A d \in Alive' \cap Users : parent'[d] \in Users \cup {initproc}
    BY <1>4, <1>9 DEF Inv, FamilyInv
  <2>4. parent'[initproc] = idleproc
    BY <1>2, <1>4 DEF Inv, FamilyInv
  <2> QED BY <2>1, <2>2, <2>3, <2>4 DEF FamilyInv
<1>13. LastInv'
  BY <1>2, <1>4 DEF Inv, LastInv, CpuInv, Parked
<1> QED BY <1>5, <1>6, <1>7, <1>7a, <1>8, <1>10, <1>11, <1>12, <1>13 DEF Inv

LEMMA WaitStep == ASSUME Inv, NEW p \in Procs, do_wait(p) PROVE Inv'
<1> USE ProcessAssumption
<1> DEFINE kids == Awaited(p)
           zombies == {c \in kids : state[c] = "ZOMBIE"}
<1>1. p = current /\ pc[p] = "wait" /\ state[p] = "RUNNABLE" /\ p \in Procs \ {idleproc}
  BY DEF do_wait, At, Inv, TypeOK, PlaceInv, KernelThreadsInv, CpuInv
<1>2. UNCHANGED <<rq, current, remaining, sem>>
  BY DEF do_wait
<1>3. ASSUME NEW c \in zombies, Reap(c), UNCHANGED wait_state,
             pc' = [pc EXCEPT ![c] = "none", ![p] = IF p = initproc THEN "init_sched" ELSE "trap_ret"],
             waitfor' = [waitfor EXCEPT ![p] = NULL]
      PROVE  Inv'
  <2>1. c \in Children(p) /\ state[c] = "ZOMBIE"
    BY <1>3 DEF Awaited
  <2> QED BY <1>1, <1>2, <1>3, <2>1, ReapStep
<1>4. ASSUME zombies = {}, Sleep(p, "WT_CHILD"), Goto(p, "wait_sched"),
             UNCHANGED <<exiting, parent, need_resched, waitfor>>
      PROVE  Inv'
  <2>1. \A c \in Awaited(p) : state[c] # "ZOMBIE"
    BY <1>4
  <2>2. QueueInv' /\ (\A q \in Procs : InQueue(q)' <=> InQueue(q)) /\ sem' \in SemType(Procs)
        /\ remaining' \in [Procs -> Nat]
    BY <1>2 DEF Inv, TypeOK, QueueInv, InQueue
  <2> QED BY <1>1, <1>2, <1>4, <2>1, <2>2, SleepStep
<1>5. ASSUME kids = {}, Goto(p, IF p = initproc THEN "init_done" ELSE "trap_ret"),
             waitfor' = [waitfor EXCEPT ![p] = NULL],
             UNCHANGED <<state, wait_state, exiting, parent, need_resched>>
      PROVE  Inv'
  <2>1. /\ waitfor' \in [Procs -> Procs \cup {NULL}] /\ waitfor'[p] = NULL
        /\ \A q \in Procs \ {p} : waitfor'[q] = waitfor[q]
    BY <1>5 DEF Inv, TypeOK
  <2>2. remaining' = [remaining EXCEPT ![p] = 0]
    BY <1>1, <1>2, NoTimer
  <2>3. sem' \in SemType(Procs) /\ exiting' \subseteq Procs /\ need_resched' \subseteq Procs
    BY <1>2, <1>5 DEF Inv, TypeOK
  <2>4. CASE p = initproc
    <3>1. Children(initproc) = {}
      BY <1>5, <2>4 DEF Awaited, Inv, KernelThreadsInv
    <3>2. Alive = {idleproc, initproc}
      BY <3>1, NobodyLeft
    <3> QED BY <1>1, <1>2, <1>5, <2>1, <2>2, <2>3, <2>4, <3>2, GotoStep
  <2>5. CASE p # initproc
    BY <1>1, <1>2, <1>5, <2>1, <2>2, <2>3, <2>5, GotoStep
  <2> QED BY <2>4, <2>5
<1> HIDE DEF kids, zombies
<1>6. \/ \E c \in zombies :
           /\ Reap(c)
           /\ pc' = [pc EXCEPT ![c] = "none", ![p] = IF p = initproc THEN "init_sched" ELSE "trap_ret"]
           /\ waitfor' = [waitfor EXCEPT ![p] = NULL] /\ UNCHANGED wait_state
      \/ zombies = {} /\ Sleep(p, "WT_CHILD") /\ Goto(p, "wait_sched")
         /\ UNCHANGED <<exiting, parent, need_resched, waitfor>>
      \/ kids = {} /\ Goto(p, IF p = initproc THEN "init_done" ELSE "trap_ret")
         /\ waitfor' = [waitfor EXCEPT ![p] = NULL]
         /\ UNCHANGED <<state, wait_state, exiting, parent, need_resched>>
  BY DEF do_wait, kids, zombies
<1> QED BY <1>3, <1>4, <1>5, <1>6

-----------------------------------------------------------------------------
LEMMA StutterInv == ASSUME Inv, UNCHANGED vars PROVE Inv'
<1> USE DEF vars
<1>1. TypeOK' /\ KernelThreadsInv' /\ RunQueueExact' /\ QueueInv' /\ SemaphoreSleepIsUninterrupted'
  BY DEF Inv, TypeOK, KernelThreadsInv, RunQueueExact, QueueInv, SemaphoreSleepIsUninterrupted, InQueue
<1>2. (\A p \in Procs : PlaceInv(p) /\ CpuInv(p))'
  BY DEF Inv, PlaceInv, CpuInv
<1>3. Alive' = Alive
  BY DEF Alive
<1>4. NoLostChildExit' /\ ParentAlive' /\ FamilyInv' /\ LastInv'
  BY <1>3 DEF Inv, NoLostChildExit, Awaited, Children, ParentAlive, FamilyInv, Ranked, LastInv
<1> QED BY <1>1, <1>2, <1>4 DEF Inv

LEMMA NextInv == Inv /\ [Next]_vars => Inv'
<1> SUFFICES ASSUME Inv, [Next]_vars PROVE Inv'
  OBVIOUS
<1>1. ASSUME NEW p \in Users, Syscall(p) PROVE Inv'
  BY <1>1, ForkStep, ForkFailsStep, YieldStep, DoSleepStep, KillStep, DownStep, UpStep, SysExitStep,
     SysWaitStep DEF Syscall
<1>2. ASSUME NEW p \in Procs, Kernel(p) PROVE Inv'
  BY <1>2, TrapReturnStep, SleepReturnStep, DownReturnStep, ExitStep, ExitNotifyStep, WaitStep,
     WaitReturnStep DEF Kernel
<1>3. ASSUME NEW p \in Procs, Schedule(p) PROVE Inv'
  BY <1>3, ScheduleStep
<1>4. CASE init_main \/ init_returns \/ cpu_idle \/ clock
  BY <1>4, InitMainStep, InitReturnsStep, IdleStep, ClockStep
<1>5. CASE panic \/ UNCHANGED vars
  BY <1>5, StutterInv DEF panic
<1> QED BY <1>1, <1>2, <1>3, <1>4, <1>5 DEF Next

LEMMA AlwaysInv == Spec => []Inv
BY InitInv, NextInv, PTL DEF Spec

-----------------------------------------------------------------------------
\* Process control blocks, the run queue and the semaphore keep their types.
THEOREM TypeCorrect == Spec => []TypeOK
<1>1. Inv => TypeOK
  BY DEF Inv
<1> QED BY <1>1, AlwaysInv, PTL

\* A process is in the run queue exactly once while it is runnable and not running, and
\* not at all otherwise, whichever interrupts come between marking a process and
\* schedule(): wakeup_proc and schedule() never enqueue twice and never lose a process.
THEOREM TheRunQueueIsExact == Spec => []RunQueueExact
<1>1. Inv => RunQueueExact
  BY DEF Inv
<1> QED BY <1>1, AlwaysInv, PTL

\* The assertion of wakeup_proc: no timer, no semaphore queue and no wait_state can still
\* wake a process that is a zombie or has been reaped.
THEOREM TheDeadStayAsleep == Spec => []NothingWakesTheDead
<1>1. Inv => NothingWakesTheDead
  BY DEF Inv, TypeOK, PlaceInv, SemaphoreSleepIsUninterrupted, NothingWakesTheDead
<1> QED BY <1>1, AlwaysInv, PTL

\* The assertions of __up and down: the queue of a semaphore holds exactly the processes
\* asleep for it; no signal and no timer takes a process out of it.
THEOREM OnlyUpEndsADown == Spec => []SemaphoreSleepIsUninterrupted
<1>1. Inv => SemaphoreSleepIsUninterrupted
  BY DEF Inv
<1> QED BY <1>1, AlwaysInv, PTL

\* do_wait and do_exit forget no child: no waiter sleeps beside a dead child, no process
\* has a dead parent, and init_main ends when two processes are left.
THEOREM EveryChildIsReaped == Spec => []ChildrenAreReaped
<1>1. Inv => ChildrenAreReaped
  <2> SUFFICES ASSUME Inv PROVE ChildrenAreReaped
    OBVIOUS
  <2>1. InitIsLast
    <3> SUFFICES ASSUME pc[initproc] = "init_done" PROVE nr_process = 2
      BY DEF InitIsLast
    <3>1. Alive = {idleproc} \cup {initproc} /\ initproc \notin {idleproc}
      BY ProcessAssumption DEF Inv, LastInv
    <3>2. IsFiniteSet({idleproc}) /\ Cardinality({idleproc}) = 1
      BY FS_Singleton
    <3>3. Cardinality({idleproc} \cup {initproc}) = 2
      BY <3>1, <3>2, FS_AddElement
    <3> QED BY <3>1, <3>3 DEF nr_process
  <2> QED BY <2>1 DEF Inv, ChildrenAreReaped
<1> QED BY <1>1, AlwaysInv, PTL

=============================================================================
