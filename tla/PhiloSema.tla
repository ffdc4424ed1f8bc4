------------------------------ MODULE PhiloSema ------------------------------
(* The dining philosophers of kern/sync/check_sync.c that use semaphores: N    *)
(* kernel threads, the semaphore mutex around state_sema, and one semaphore    *)
(* s[i] on which philosopher i waits for its forks.                            *)
(*                                                                             *)
(* There is one CPU.  Only the thread "current" takes steps.  The kernel runs  *)
(* a thread until it sleeps or quits, and then schedule() picks any runnable   *)
(* thread, or the idle thread.  Preempt may also take the CPU away between any *)
(* two steps: ucore does not do this to kernel threads, but the semaphores are *)
(* there to make the algorithm right if it did.                                *)
EXTENDS Integers, FiniteSets, Sem

CONSTANTS N,           \* number of philosophers
          TIMES,       \* meals per philosopher
          Idle         \* idleproc

Phil == 0..N-1

ASSUME PhiloAssumption ==
  /\ N \in Nat /\ N >= 2
  /\ TIMES \in Nat
  /\ Idle \notin Phil

LEFT(i)  == (i - 1 + N) % N
RIGHT(i) == (i + 1) % N

VARIABLES state_sema,  \* THINKING, HUNGRY or EATING, for each philosopher
          mutex, s,    \* semaphores
          pc,          \* where each thread is
          iter,        \* meals each thread has begun
          current      \* the thread that has the CPU

vars == <<state_sema, mutex, s, pc, iter, current>>

\* Labels of a sleeping thread, each with the label at which it goes on once
\* woken: by the timer (thinking, eating) or by up (the others).
Resume == [thinking  |-> "take",
           take_wait |-> "hungry",
           fork_wait |-> "eat",
           eating    |-> "put",
           put_wait  |-> "sated"]

Asleep == DOMAIN Resume

TakeCS == {"hungry", "take_test", "take_eat", "take_up"}
PutCS  == {"sated", "left_test", "left_eat", "right_test", "right_eat", "put_up"}

Labels == Asleep \cup TakeCS \cup PutCS \cup
          {"think", "take", "take_down", "eat", "put", "quit"}

-----------------------------------------------------------------------------
Init ==
  /\ state_sema = [i \in Phil |-> "THINKING"]
  /\ mutex = sem_init(1)
  /\ s = [i \in Phil |-> sem_init(0)]
  /\ pc = [i \in Phil |-> "think"]
  /\ iter = [i \in Phil |-> 0]
  /\ current = Idle

At(i, label) == current = i /\ pc[i] = label

Goto(i, label) == pc' = [pc EXCEPT ![i] = label]

\* schedule(): the CPU goes to a thread that is runnable in the new state.
schedule ==
  LET runnable == {j \in Phil : pc'[j] \notin Asleep \cup {"quit"}}
  IN  current' \in IF runnable = {} THEN {Idle} ELSE runnable

\* do_sleep(SLEEP_TIME): asleep until the timer (or a do_kill) wakes the thread.
do_sleep(i, label) == Goto(i, label) /\ schedule

\* The step that follows up(sem): thread i goes on, and so does the one it woke.
AfterUp(i, label, sem) ==
  pc' = [j \in Phil |-> CASE j = i           -> label
                          [] j \in Woken(sem) -> Resume[pc[j]]
                          [] OTHER           -> pc[j]]

\* down(&mutex), then label "in"; a thread that has to wait sleeps at "wait".
down_mutex(i, from, wait, in) ==
  /\ At(i, from)
  /\ mutex' = Down(mutex, i)
  /\ IF Blocks(mutex)
     THEN Goto(i, wait) /\ schedule
     ELSE Goto(i, in) /\ UNCHANGED current
  /\ UNCHANGED <<state_sema, s, iter>>

up_mutex(i, from, to) ==
  /\ At(i, from)
  /\ mutex' = Up(mutex)
  /\ AfterUp(i, to, mutex)
  /\ UNCHANGED <<state_sema, s, iter, current>>

SetState(i, from, to, value) ==
  /\ At(i, from)
  /\ state_sema' = [state_sema EXCEPT ![i] = value]
  /\ Goto(i, to)
  /\ UNCHANGED <<mutex, s, iter, current>>

\* Faulty test: looks at the left neighbour only.
MayEat_LeftOnly(t) ==
  /\ state_sema[t] = "HUNGRY"
  /\ state_sema[LEFT(t)] # "EATING"

MayEat(t) ==
  /\ state_sema[t] = "HUNGRY"
  /\ state_sema[LEFT(t)] # "EATING"
  /\ state_sema[RIGHT(t)] # "EATING"

\* phi_test_sema(t) run by thread i: evaluate the condition, then, if it held,
\* make t EATING and release its semaphore.
phi_test_sema(i, t, test, eat, to) ==
  \/ /\ At(i, test)
     /\ Goto(i, IF MayEat(t) THEN eat ELSE to)
     /\ UNCHANGED <<state_sema, mutex, s, iter, current>>
  \/ /\ At(i, eat)
     /\ state_sema' = [state_sema EXCEPT ![t] = "EATING"]
     /\ s' = [s EXCEPT ![t] = Up(@)]
     /\ AfterUp(i, to, s[t])
     /\ UNCHANGED <<mutex, iter, current>>

\* down(&s[i]): wait for the forks unless the test already granted them.
down_s(i) ==
  /\ At(i, "take_down")
  /\ s' = [s EXCEPT ![i] = Down(@, i)]
  /\ IF Blocks(s[i])
     THEN Goto(i, "fork_wait") /\ schedule
     ELSE Goto(i, "eat") /\ UNCHANGED current
  /\ UNCHANGED <<state_sema, mutex, iter>>

phi_take_forks_sema(i) ==
  \/ down_mutex(i, "take", "take_wait", "hungry")
  \/ SetState(i, "hungry", "take_test", "HUNGRY")
  \/ phi_test_sema(i, i, "take_test", "take_eat", "take_up")
  \/ up_mutex(i, "take_up", "take_down")
  \/ down_s(i)

\* Faulty put: tests the left neighbour only, so the right one is never told.
phi_put_forks_sema_SkipsRight(i) ==
  \/ down_mutex(i, "put", "put_wait", "sated")
  \/ SetState(i, "sated", "left_test", "THINKING")
  \/ phi_test_sema(i, LEFT(i), "left_test", "left_eat", "put_up")
  \/ up_mutex(i, "put_up", "think")

phi_put_forks_sema(i) ==
  \/ down_mutex(i, "put", "put_wait", "sated")
  \/ SetState(i, "sated", "left_test", "THINKING")
  \/ phi_test_sema(i, LEFT(i), "left_test", "left_eat", "right_test")
  \/ phi_test_sema(i, RIGHT(i), "right_test", "right_eat", "put_up")
  \/ up_mutex(i, "put_up", "think")

\* The loop head of philosopher_using_semaphore: think, or quit when sated.
Think(i) ==
  /\ At(i, "think")
  /\ IF iter[i] < TIMES
     THEN /\ iter' = [iter EXCEPT ![i] = @ + 1]
          /\ do_sleep(i, "thinking")
     ELSE /\ Goto(i, "quit") /\ schedule
          /\ UNCHANGED iter
  /\ UNCHANGED <<state_sema, mutex, s>>

Eat(i) ==
  /\ At(i, "eat")
  /\ do_sleep(i, "eating")
  /\ UNCHANGED <<state_sema, mutex, s, iter>>

philosopher_using_semaphore(i) ==
  \/ Think(i)
  \/ phi_take_forks_sema(i)
  \/ Eat(i)
  \/ phi_put_forks_sema(i)

\* run_timer_list wakes a thread sleeping in do_sleep, whoever has the CPU.
TimerWakes(i) ==
  /\ pc[i] \in {"thinking", "eating"}
  /\ Goto(i, Resume[pc[i]])
  /\ UNCHANGED <<state_sema, mutex, s, iter, current>>

\* cpu_idle calls schedule() whenever it is asked to reschedule.
cpu_idle ==
  /\ current = Idle
  /\ UNCHANGED pc /\ schedule
  /\ UNCHANGED <<state_sema, mutex, s, iter>>

\* A time slice ends.
Preempt ==
  /\ current # Idle
  /\ UNCHANGED pc /\ schedule
  /\ UNCHANGED <<state_sema, mutex, s, iter>>

Next ==
  \/ \E i \in Phil : philosopher_using_semaphore(i) \/ TimerWakes(i)
  \/ cpu_idle
  \/ Preempt

Spec == Init /\ [][Next]_vars

\* A step in which the CPU goes to thread i.
Dispatch(i) ==
  /\ current # i
  /\ cpu_idle \/ Preempt \/ (\E j \in Phil : philosopher_using_semaphore(j))
  /\ current' = i

-----------------------------------------------------------------------------
TypeOK ==
  /\ state_sema \in [Phil -> {"THINKING", "HUNGRY", "EATING"}]
  /\ mutex \in SemType(Phil)
  /\ s \in [Phil -> SemType(Phil)]
  /\ pc \in [Phil -> Labels]
  /\ iter \in [Phil -> Nat]
  /\ current \in Phil \cup {Idle}

\* Philosopher i holds both forks: from the return of phi_take_forks_sema until
\* phi_put_forks_sema marks it THINKING.
Dining(i) == pc[i] \in {"eat", "eating", "put", "put_wait", "sated"}

\* Two neighbours never hold forks at the same time, which is what the exercise
\* is about: the fork between them would be in both hands.
NeighboursNeverDineTogether ==
  \A i \in Phil : Dining(i) => ~Dining(RIGHT(i))

\* mutex protects every access to state_sema: at most one thread is between its
\* down(&mutex) and its up(&mutex), counting a thread that was handed the
\* semaphore and has not run yet.
InCS(i) == pc[i] \in TakeCS \cup PutCS

MutualExclusion == \A i, j \in Phil : InCS(i) /\ InCS(j) => i = j

\* Every philosopher has eaten TIMES times and has quit.
Finished == \A i \in Phil : pc[i] = "quit" /\ iter[i] = TIMES
=============================================================================
