------------------------- MODULE Philosophers_proof -------------------------
(* For every number of philosophers and meals, with and without preemption     *)
(* between any two steps: the semaphores of sem.c and the Hoare monitor of     *)
(* monitor.c keep their promises to the dining philosophers of check_sync.c.   *)
EXTENDS PhiloMonitor, TLAPS

-----------------------------------------------------------------------------
(* A semaphore that is free, taken, or has one waiter. *)

Waiting(i) == [value |-> 0, wait_queue |-> <<i>>]

\* up on a free semaphore with nobody waiting makes it available.
LEMMA UpIdle == Up(sem_init(0)) = sem_init(1) /\ Woken(sem_init(0)) = {}
BY DEF Up, Woken, sem_init

\* up with one waiter hands over: the semaphore stays taken, the waiter wakes.
LEMMA UpWaiting ==
  ASSUME NEW i
  PROVE  Up(Waiting(i)) = sem_init(0) /\ Woken(Waiting(i)) = {i}
<1>1. <<i>> # <<>> /\ Head(<<i>>) = i /\ Tail(<<i>>) = <<>>
  OBVIOUS
<1> QED BY <1>1 DEF Up, Woken, sem_init, Waiting

\* down on an available semaphore takes it.
LEMMA DownTakes ==
  ASSUME NEW i
  PROVE  Down(sem_init(1), i) = sem_init(0) /\ ~Blocks(sem_init(1))
BY DEF Down, Blocks, sem_init

\* down on a taken semaphore queues the caller.
LEMMA DownWaits ==
  ASSUME NEW i
  PROVE  Down(sem_init(0), i) = Waiting(i) /\ Blocks(sem_init(0))
<1>1. Append(<<>>, i) = <<i>>
  OBVIOUS
<1> QED BY <1>1 DEF Down, Blocks, sem_init, Waiting

\* Sitting in a ring: left and right are each other's inverses.
LEMMA Neighbours ==
  ASSUME NEW i \in Phil
  PROVE  /\ LEFT(i) \in Phil /\ RIGHT(i) \in Phil
         /\ LEFT(RIGHT(i)) = i /\ RIGHT(LEFT(i)) = i
         /\ RIGHT(i) # i
<1>1. LEFT(i) = IF i = 0 THEN N - 1 ELSE i - 1
  <2>1. CASE i = 0
    BY <2>1, PhiloAssumption DEF LEFT, Phil
  <2>2. CASE i # 0
    BY <2>2, PhiloAssumption DEF LEFT, Phil
  <2> QED BY <2>1, <2>2
<1>2. RIGHT(i) = IF i = N - 1 THEN 0 ELSE i + 1
  BY PhiloAssumption DEF RIGHT, Phil
<1> QED BY <1>1, <1>2, PhiloAssumption DEF LEFT, RIGHT, Phil

\* Joining the tail of a queue.
LEMMA AppendQueue ==
  ASSUME NEW S, NEW q \in Seq(S), NEW e \in S
  PROVE  /\ Append(q, e) \in Seq(S)
         /\ Len(Append(q, e)) = Len(q) + 1
         /\ \A k \in 1..Len(q) : Append(q, e)[k] = q[k] /\ q[k] \in S
         /\ Append(q, e)[Len(q) + 1] = e
OBVIOUS

\* Leaving the head of a queue.
LEMMA PopQueue ==
  ASSUME NEW S, NEW q \in Seq(S), q # <<>>
  PROVE  /\ Head(q) = q[1] /\ Head(q) \in S
         /\ Tail(q) \in Seq(S)
         /\ Len(q) \in Nat /\ Len(q) >= 1
         /\ Len(Tail(q)) = Len(q) - 1
         /\ \A k \in 1..Len(Tail(q)) : Tail(q)[k] = q[k+1] /\ k + 1 \in 1..Len(q)
         /\ \A k \in 1..Len(q) : q[k] \in S
OBVIOUS

-----------------------------------------------------------------------------
(* The philosophers with semaphores: the inductive invariant. *)

\* Threads parked in the queue of mutex are asleep in down(&mutex), each once.
QueueInv ==
  LET q == mutex.wait_queue IN
  /\ \A k \in 1..Len(q) : pc[q[k]] \in {"take_wait", "put_wait"}
  /\ \A k, l \in 1..Len(q) : q[k] = q[l] => k = l

\* mutex is available only when nobody is in a critical section.
MutexInv ==
  /\ mutex.value \in {0, 1}
  /\ mutex.value = 1 => \A i \in Phil : ~InCS(i)
  /\ MutualExclusion

\* Where thread i is determines its state and its fork semaphore; only between
\* its test and its down(&s[i]) are there two cases: the forks were granted or
\* they were not.
ForkInv(i) ==
  \/ /\ pc[i] \in {"take_test", "take_eat", "take_up", "take_down"}
     /\ state_sema[i] = "HUNGRY" /\ s[i] = sem_init(0)
  \/ /\ pc[i] \in {"take_up", "take_down"}
     /\ state_sema[i] = "EATING" /\ s[i] = sem_init(1)
  \/ /\ pc[i] = "fork_wait"
     /\ state_sema[i] = "HUNGRY" /\ s[i] = Waiting(i)
  \/ /\ Dining(i)
     /\ state_sema[i] = "EATING" /\ s[i] = sem_init(0)
  \/ /\ pc[i] \in {"think", "thinking", "take", "take_wait", "hungry", "left_test",
                   "left_eat", "right_test", "right_eat", "put_up", "quit"}
     /\ state_sema[i] = "THINKING" /\ s[i] = sem_init(0)

\* What a test has seen still holds when the tester acts on it.
TestInv(i) ==
  /\ pc[i] = "take_eat" => MayEat(i)
  /\ pc[i] = "left_eat" => MayEat(LEFT(i))
  /\ pc[i] = "right_eat" => MayEat(RIGHT(i))

NoNeighboursEating ==
  \A i \in Phil : state_sema[i] = "EATING" => state_sema[RIGHT(i)] # "EATING"

Inv ==
  /\ TypeOK
  /\ QueueInv
  /\ MutexInv
  /\ \A i \in Phil : ForkInv(i)
  /\ \A i \in Phil : TestInv(i)
  /\ NoNeighboursEating

-----------------------------------------------------------------------------
\* Resume, as a table.
LEMMA ResumeTable ==
  /\ Asleep = {"thinking", "take_wait", "fork_wait", "eating", "put_wait"}
  /\ Resume["thinking"] = "take"    /\ Resume["eating"] = "put"
  /\ Resume["take_wait"] = "hungry" /\ Resume["put_wait"] = "sated"
  /\ Resume["fork_wait"] = "eat"
BY DEF Asleep, Resume

\* schedule() leaves the CPU with a philosopher or with the idle thread.
LEMMA ScheduleType ==
  ASSUME schedule
  PROVE  current' \in Phil \cup {Idle}
BY DEF schedule

LEMMA InitInv == Init => Inv
<1> SUFFICES ASSUME Init PROVE Inv
  OBVIOUS
<1>1. sem_init(1) \in SemType(Phil) /\ sem_init(0) \in SemType(Phil)
  BY DEF sem_init, SemType
<1>2. TypeOK
  BY <1>1 DEF Init, TypeOK, Labels
<1>3. mutex.wait_queue = <<>> /\ mutex.value = 1 /\ Len(mutex.wait_queue) = 0
  BY DEF Init, sem_init
<1>4. QueueInv
  BY <1>3 DEF QueueInv
<1>5. MutexInv
  BY <1>3 DEF MutexInv, MutualExclusion, InCS, TakeCS, PutCS, Init
<1>6. (\A i \in Phil : ForkInv(i)) /\ \A i \in Phil : TestInv(i)
  BY DEF ForkInv, TestInv, Init
<1>7. NoNeighboursEating
  BY DEF NoNeighboursEating, Init
<1> QED BY <1>2, <1>4, <1>5, <1>6, <1>7 DEF Inv

\* down(&mutex): the caller enters the critical section of a free mutex, or
\* goes to sleep at the tail of the queue.
LEMMA DownMutexStep ==
  ASSUME Inv, NEW i \in Phil,
         \/ down_mutex(i, "take", "take_wait", "hungry")
         \/ down_mutex(i, "put", "put_wait", "sated")
  PROVE  Inv'
<1>1. PICK from \in {"take", "put"}, wait \in {"take_wait", "put_wait"},
           in \in {"hungry", "sated"} :
        /\ down_mutex(i, from, wait, in)
        /\ from = "take" <=> wait = "take_wait"
        /\ from = "take" <=> in = "hungry"
  OBVIOUS
<1>2. /\ pc \in [Phil -> Labels] /\ pc[i] = from
      /\ mutex \in SemType(Phil) /\ mutex.value \in Nat /\ mutex.wait_queue \in Seq(Phil)
  BY <1>1 DEF Inv, TypeOK, down_mutex, At, SemType
<1>3. UNCHANGED <<state_sema, s, iter>> /\ mutex' = Down(mutex, i)
  BY <1>1 DEF down_mutex
<1>4. CASE Blocks(mutex)
  <2>1. pc' = [pc EXCEPT ![i] = wait] /\ current' \in Phil \cup {Idle}
    BY <1>1, <1>4, ScheduleType DEF down_mutex, Goto
  <2>2. mutex' = [value |-> 0, wait_queue |-> Append(mutex.wait_queue, i)] /\ mutex.value = 0
    BY <1>3, <1>4 DEF Down, Blocks
  <2>3. TypeOK'
    BY <1>2, <1>3, <2>1, <2>2, AppendQueue DEF Inv, TypeOK, SemType, Labels, Asleep, Resume
  <2>4. QueueInv'
    <3> DEFINE q == mutex.wait_queue
    <3>1. \A k \in 1..Len(q) : q[k] # i
      BY <1>2 DEF Inv, QueueInv
    <3>2. Len(q) \in Nat
      BY <1>2
    <3>3. mutex'.wait_queue = Append(q, i)
      BY <2>2
    <3> QED
      BY <1>2, <2>1, <3>1, <3>2, <3>3, AppendQueue DEF Inv, QueueInv
  <2>5. \A j \in Phil : InCS(j)' <=> InCS(j)
    BY <1>2, <2>1 DEF InCS, TakeCS, PutCS
  <2>6. MutexInv'
    BY <2>2, <2>5 DEF Inv, MutexInv, MutualExclusion
  <2>7. (\A j \in Phil : ForkInv(j))'
    BY <1>2, <1>1, <1>3, <2>1 DEF Inv, ForkInv, Dining
  <2>8. (\A j \in Phil : TestInv(j))' /\ NoNeighboursEating'
    BY <1>2, <1>3, <2>1 DEF Inv, TestInv, MayEat, NoNeighboursEating
  <2> QED BY <2>3, <2>4, <2>6, <2>7, <2>8 DEF Inv
<1>5. CASE ~Blocks(mutex)
  <2>1. pc' = [pc EXCEPT ![i] = in] /\ current' = current
    BY <1>1, <1>5 DEF down_mutex, Goto
  <2>2. mutex' = [value |-> 0, wait_queue |-> mutex.wait_queue] /\ mutex.value = 1
    BY <1>2, <1>3, <1>5 DEF Down, Blocks, Inv, MutexInv
  <2>3. TypeOK'
    BY <1>2, <1>3, <2>1, <2>2 DEF Inv, TypeOK, SemType, Labels, TakeCS, PutCS
  <2>4. QueueInv'
    BY <1>2, <2>1, <2>2 DEF Inv, QueueInv
  <2>5. \A j \in Phil : ~InCS(j)
    BY <2>2 DEF Inv, MutexInv
  <2>6. \A j \in Phil : InCS(j)' => j = i
    BY <1>2, <2>1, <2>5 DEF InCS, TakeCS, PutCS
  <2>7. MutexInv'
    BY <2>2, <2>6 DEF MutexInv, MutualExclusion
  <2>8. (\A j \in Phil : ForkInv(j))'
    BY <1>2, <1>1, <1>3, <2>1 DEF Inv, ForkInv, Dining
  <2>9. (\A j \in Phil : TestInv(j))' /\ NoNeighboursEating'
    BY <1>2, <1>3, <2>1 DEF Inv, TestInv, MayEat, NoNeighboursEating
  <2> QED BY <2>3, <2>4, <2>7, <2>8, <2>9 DEF Inv
<1> QED BY <1>4, <1>5

\* up(&mutex): the caller leaves its critical section, and the thread that has
\* waited longest, if any, is in its own from now on.
LEMMA UpMutexStep ==
  ASSUME Inv, NEW i \in Phil,
         up_mutex(i, "take_up", "take_down") \/ up_mutex(i, "put_up", "think")
  PROVE  Inv'
<1>1. PICK from \in {"take_up", "put_up"}, to \in {"take_down", "think"} :
        up_mutex(i, from, to) /\ (from = "take_up" <=> to = "take_down")
  OBVIOUS
<1>2. /\ pc \in [Phil -> Labels] /\ pc[i] = from
      /\ mutex \in SemType(Phil) /\ mutex.value \in Nat /\ mutex.wait_queue \in Seq(Phil)
  BY <1>1 DEF Inv, TypeOK, up_mutex, At, SemType
<1>3. UNCHANGED <<state_sema, s, iter, current>> /\ mutex' = Up(mutex)
  BY <1>1 DEF up_mutex
<1>4. mutex.value = 0 /\ \A j \in Phil : InCS(j) => j = i
  BY <1>2 DEF Inv, MutexInv, MutualExclusion, InCS, TakeCS, PutCS
<1>5. CASE mutex.wait_queue = <<>>
  <2>1. pc' = [pc EXCEPT ![i] = to]
    BY <1>1, <1>2, <1>5 DEF up_mutex, AfterUp, Woken
  <2>2. mutex' = [value |-> 1, wait_queue |-> <<>>]
    BY <1>3, <1>4, <1>5 DEF Up
  <2>3. TypeOK'
    BY <1>2, <1>3, <2>1, <2>2 DEF Inv, TypeOK, SemType, Labels
  <2>4. QueueInv'
    <3>1. Len(mutex'.wait_queue) = 0
      BY <2>2
    <3> QED BY <3>1 DEF QueueInv
  <2>5. \A j \in Phil : ~InCS(j)'
    BY <1>2, <1>4, <2>1 DEF InCS, TakeCS, PutCS
  <2>6. MutexInv'
    BY <2>2, <2>5 DEF MutexInv, MutualExclusion
  <2>7. (\A j \in Phil : ForkInv(j))'
    BY <1>2, <1>1, <1>3, <2>1 DEF Inv, ForkInv, Dining
  <2>8. (\A j \in Phil : TestInv(j))' /\ NoNeighboursEating'
    BY <1>2, <1>3, <2>1 DEF Inv, TestInv, MayEat, NoNeighboursEating
  <2> QED BY <2>3, <2>4, <2>6, <2>7, <2>8 DEF Inv
<1>6. CASE mutex.wait_queue # <<>>
  <2> DEFINE q == mutex.wait_queue
             h == Head(q)
  <2>1. /\ h = q[1] /\ h \in Phil /\ 1 \in 1..Len(q) /\ Len(q) \in Nat
        /\ pc[h] \in {"take_wait", "put_wait"}
    BY <1>2, <1>6, PopQueue DEF Inv, QueueInv
  <2>2. h # i
    BY <1>2, <2>1
  <2>3. /\ pc'[i] = to
        /\ pc'[h] = IF pc[h] = "take_wait" THEN "hungry" ELSE "sated"
        /\ \A j \in Phil \ {i, h} : pc'[j] = pc[j]
        /\ pc' \in [Phil -> Labels]
    <3>1. pc' = [j \in Phil |-> CASE j = i   -> to
                                  [] j \in {h} -> Resume[pc[j]]
                                  [] OTHER   -> pc[j]]
      BY <1>1, <1>6 DEF up_mutex, AfterUp, Woken
    <3> QED
      BY <1>2, <2>1, <2>2, <3>1, ResumeTable DEF Labels, TakeCS, PutCS
  <2>4. mutex' = [value |-> 0, wait_queue |-> Tail(q)]
    BY <1>3, <1>4, <1>6 DEF Up
  <2>5. TypeOK'
    BY <1>2, <1>3, <1>6, <2>3, <2>4, PopQueue DEF Inv, TypeOK, SemType
  <2>6. QueueInv'
    <3> DEFINE r == Tail(q)
    <3>1. /\ Len(r) = Len(q) - 1
          /\ \A k \in 1..Len(r) : r[k] = q[k+1] /\ k + 1 \in 1..Len(q) /\ q[k+1] \in Phil
      BY <1>2, <1>6, PopQueue
    <3>2. \A k \in 1..Len(r) : r[k] # h
      BY <2>1, <3>1 DEF Inv, QueueInv
    <3>3. \A k \in 1..Len(r) : pc[r[k]] \in {"take_wait", "put_wait"} /\ r[k] \in Phil
      BY <3>1 DEF Inv, QueueInv
    <3>4. \A k \in 1..Len(r) : pc'[r[k]] \in {"take_wait", "put_wait"}
      BY <1>2, <2>3, <3>2, <3>3
    <3>5. \A k, l \in 1..Len(r) : r[k] = r[l] => k = l
      <4> SUFFICES ASSUME NEW k \in 1..Len(r), NEW l \in 1..Len(r), r[k] = r[l]
                   PROVE  k = l
        OBVIOUS
      <4>1. q[k+1] = q[l+1] /\ k + 1 \in 1..Len(q) /\ l + 1 \in 1..Len(q)
        BY <3>1
      <4>2. k + 1 = l + 1
        BY <4>1 DEF Inv, QueueInv
      <4> QED BY <4>2, <2>1, <3>1
    <3>6. mutex'.wait_queue = r
      BY <2>4
    <3> QED BY <3>4, <3>5, <3>6 DEF QueueInv
  <2>7. \A j \in Phil : InCS(j)' => j = h
    BY <1>2, <1>4, <2>3 DEF InCS, TakeCS, PutCS
  <2>8. MutexInv'
    BY <2>4, <2>7 DEF MutexInv, MutualExclusion
  <2>9. (\A j \in Phil : ForkInv(j))'
    BY <1>2, <1>1, <1>3, <2>1, <2>2, <2>3 DEF Inv, ForkInv, Dining
  <2>10. (\A j \in Phil : TestInv(j))' /\ NoNeighboursEating'
    BY <1>2, <1>3, <2>1, <2>2, <2>3 DEF Inv, TestInv, MayEat, NoNeighboursEating
  <2> QED BY <2>5, <2>6, <2>8, <2>9, <2>10 DEF Inv
<1> QED BY <1>5, <1>6

\* state_sema[i] = HUNGRY or THINKING, inside the critical section.
LEMMA SetStateStep ==
  ASSUME Inv, NEW i \in Phil,
         \/ SetState(i, "hungry", "take_test", "HUNGRY")
         \/ SetState(i, "sated", "left_test", "THINKING")
  PROVE  Inv'
<1>1. PICK from \in {"hungry", "sated"}, to \in {"take_test", "left_test"},
           v \in {"HUNGRY", "THINKING"} :
        /\ SetState(i, from, to, v)
        /\ from = "hungry" <=> to = "take_test"
        /\ from = "hungry" <=> v = "HUNGRY"
  OBVIOUS
<1>2. /\ pc \in [Phil -> Labels] /\ pc[i] = from
      /\ state_sema \in [Phil -> {"THINKING", "HUNGRY", "EATING"}]
  BY <1>1 DEF Inv, TypeOK, SetState, At
<1>3. /\ UNCHANGED <<mutex, s, iter, current>>
      /\ state_sema' = [state_sema EXCEPT ![i] = v]
      /\ pc' = [pc EXCEPT ![i] = to]
  BY <1>1 DEF SetState, Goto
<1>4. TypeOK'
  BY <1>2, <1>3 DEF Inv, TypeOK, Labels, TakeCS, PutCS
<1>5. QueueInv'
  BY <1>2, <1>3 DEF Inv, QueueInv
<1>6. \A j \in Phil : InCS(j) <=> InCS(j)'
  BY <1>2, <1>3 DEF InCS, TakeCS, PutCS
<1>7. MutexInv'
  BY <1>3, <1>6 DEF Inv, MutexInv, MutualExclusion
<1>8. (\A j \in Phil : ForkInv(j))'
  BY <1>1, <1>2, <1>3 DEF Inv, ForkInv, Dining
<1>9. \A j \in Phil : InCS(j) => j = i
  BY <1>2 DEF Inv, MutexInv, MutualExclusion, InCS, TakeCS, PutCS
<1>10. (\A j \in Phil : TestInv(j))'
  BY <1>2, <1>3, <1>9 DEF TestInv, InCS, TakeCS, PutCS
<1>11. NoNeighboursEating'
  BY <1>2, <1>3, Neighbours DEF Inv, NoNeighboursEating
<1> QED BY <1>4, <1>5, <1>7, <1>8, <1>10, <1>11 DEF Inv

\* A step that moves only thread i, between labels that mean the same for the
\* critical section, for i's fork semaphore and for its pending test.
LEMMA MoveStep ==
  ASSUME Inv, NEW i \in Phil, NEW to \in Labels,
         pc' = [pc EXCEPT ![i] = to],
         current' \in Phil \cup {Idle},
         iter' \in [Phil -> Nat],
         UNCHANGED <<state_sema, mutex, s>>,
         pc[i] \notin {"take_wait", "put_wait"},
         InCS(i)' <=> InCS(i), ForkInv(i)', TestInv(i)'
  PROVE  Inv'
<1>1. pc \in [Phil -> Labels]
  BY DEF Inv, TypeOK
<1>2. TypeOK'
  BY <1>1 DEF Inv, TypeOK
<1>3. QueueInv'
  BY <1>1 DEF Inv, QueueInv
<1>4. \A j \in Phil : InCS(j) <=> InCS(j)'
  BY <1>1 DEF InCS, TakeCS, PutCS
<1>5. MutexInv'
  BY <1>4 DEF Inv, MutexInv, MutualExclusion
<1>6. (\A j \in Phil : ForkInv(j))'
  BY <1>1 DEF Inv, ForkInv, Dining
<1>7. (\A j \in Phil : TestInv(j))'
  BY <1>1 DEF Inv, TestInv, MayEat
<1>8. NoNeighboursEating'
  BY DEF Inv, NoNeighboursEating
<1> QED BY <1>2, <1>3, <1>5, <1>6, <1>7, <1>8 DEF Inv

\* phi_test_sema(t): evaluating the condition, then granting the forks.
LEMMA TestStep ==
  ASSUME Inv, NEW i \in Phil,
         \/ phi_test_sema(i, i, "take_test", "take_eat", "take_up")
         \/ phi_test_sema(i, LEFT(i), "left_test", "left_eat", "right_test")
         \/ phi_test_sema(i, RIGHT(i), "right_test", "right_eat", "put_up")
  PROVE  Inv'
<1>1. PICK t \in Phil, test \in Labels, eat \in Labels, to \in Labels :
        /\ phi_test_sema(i, t, test, eat, to)
        /\ \/ t = i /\ test = "take_test" /\ eat = "take_eat" /\ to = "take_up"
           \/ t = LEFT(i) /\ test = "left_test" /\ eat = "left_eat" /\ to = "right_test"
           \/ t = RIGHT(i) /\ test = "right_test" /\ eat = "right_eat" /\ to = "put_up"
  BY Neighbours DEF Labels, TakeCS, PutCS
<1>2. pc \in [Phil -> Labels] /\ iter \in [Phil -> Nat] /\ current \in Phil \cup {Idle}
  BY DEF Inv, TypeOK
<1>3. CASE /\ At(i, test)
           /\ Goto(i, IF MayEat(t) THEN eat ELSE to)
           /\ UNCHANGED <<state_sema, mutex, s, iter, current>>
  <2> DEFINE after == IF MayEat(t) THEN eat ELSE to
  <2>1. pc[i] = test /\ pc' = [pc EXCEPT ![i] = after] /\ after \in Labels /\ pc'[i] = after
    BY <1>1, <1>2, <1>3 DEF At, Goto, Labels, TakeCS, PutCS
  <2>2. /\ UNCHANGED <<state_sema, mutex, s>>
        /\ current' \in Phil \cup {Idle} /\ iter' \in [Phil -> Nat]
    BY <1>2, <1>3
  <2>3. InCS(i)' <=> InCS(i)
    BY <1>1, <2>1 DEF InCS, TakeCS, PutCS
  <2>4. ForkInv(i)'
    BY <1>1, <2>1, <2>2 DEF Inv, ForkInv, Dining
  <2>5. TestInv(i)'
    BY <1>1, <2>1, <2>2 DEF TestInv, MayEat
  <2>6. pc[i] \notin {"take_wait", "put_wait"}
    BY <1>1, <2>1
  <2> HIDE DEF after
  <2> QED BY <2>1, <2>2, <2>3, <2>4, <2>5, <2>6, MoveStep
<1>4. CASE /\ At(i, eat)
           /\ state_sema' = [state_sema EXCEPT ![t] = "EATING"]
           /\ s' = [s EXCEPT ![t] = Up(@)]
           /\ AfterUp(i, to, s[t])
           /\ UNCHANGED <<mutex, iter, current>>
  <2>1. /\ pc[i] = eat /\ MayEat(t)
        /\ state_sema \in [Phil -> {"THINKING", "HUNGRY", "EATING"}]
        /\ s \in [Phil -> SemType(Phil)]
    BY <1>1, <1>4 DEF At, Inv, TestInv, TypeOK
  <2>2. \/ pc[t] \in {"take_test", "take_eat", "take_up", "take_down"} /\ s[t] = sem_init(0)
        \/ pc[t] = "fork_wait" /\ s[t] = Waiting(t) /\ t # i
    BY <1>1, <2>1 DEF Inv, ForkInv, MayEat, Dining
  <2>3. \A j \in Phil : InCS(j) => j = i
    BY <1>1, <2>1 DEF Inv, MutexInv, MutualExclusion, InCS, TakeCS, PutCS
  \* The grant, for a philosopher not yet waiting and for one asleep in down.
  <2>4. /\ pc' \in [Phil -> Labels] /\ pc'[i] = to
        /\ \A j \in Phil \ {i, t} : pc'[j] = pc[j]
        /\ t # i => pc'[t] = IF pc[t] = "fork_wait" THEN "eat" ELSE pc[t]
        /\ s'[t] = IF pc[t] = "fork_wait" THEN sem_init(0) ELSE sem_init(1)
        /\ \A j \in Phil \ {t} : s'[j] = s[j]
        /\ s' \in [Phil -> SemType(Phil)]
    <3>0. sem_init(0) \in SemType(Phil) /\ sem_init(1) \in SemType(Phil) /\ to \in Labels
          /\ "eat" \in Labels
      BY <1>1 DEF sem_init, SemType, Labels, TakeCS, PutCS
    <3>1. CASE pc[t] # "fork_wait"
      <4>1. s[t] = sem_init(0) /\ Woken(s[t]) = {} /\ Up(s[t]) = sem_init(1)
        BY <2>2, <3>1, UpIdle
      <4>2. pc' = [j \in Phil |-> IF j = i THEN to ELSE pc[j]]
        BY <1>2, <1>4, <4>1 DEF AfterUp
      <4> QED BY <1>2, <1>4, <2>1, <3>0, <3>1, <4>1, <4>2
    <3>2. CASE pc[t] = "fork_wait"
      <4>1. /\ s[t] = Waiting(t) /\ t # i
            /\ Woken(s[t]) = {t} /\ Up(s[t]) = sem_init(0)
        BY <2>2, <3>2, UpWaiting
      <4>2. pc' = [j \in Phil |-> IF j = i THEN to
                                  ELSE IF j = t THEN Resume[pc[j]] ELSE pc[j]]
        BY <1>2, <1>4, <4>1 DEF AfterUp
      <4> QED BY <1>2, <1>4, <2>1, <3>0, <3>2, <4>1, <4>2, ResumeTable
    <3> QED BY <3>1, <3>2
  <2>5. TypeOK'
    BY <1>2, <1>4, <2>1, <2>4 DEF Inv, TypeOK
  <2>6. QueueInv'
    <3>1. \A k \in 1..Len(mutex.wait_queue) : mutex.wait_queue[k] \in Phil
      BY DEF Inv, TypeOK, SemType
    <3> QED BY <1>1, <1>4, <2>1, <2>2, <2>4, <3>1 DEF Inv, QueueInv
  <2>7. /\ InCS(i)' /\ InCS(i)
        /\ \A j \in Phil : InCS(j)' => j = i
    BY <1>1, <2>1, <2>3, <2>4 DEF InCS, TakeCS, PutCS
  <2>8. MutexInv'
    BY <1>4, <2>7 DEF Inv, MutexInv, MutualExclusion
  <2>9. (\A j \in Phil : ForkInv(j))'
    <3> SUFFICES ASSUME NEW j \in Phil PROVE ForkInv(j)'
      OBVIOUS
    <3>1. CASE j = t
      BY <1>1, <1>4, <2>1, <2>2, <2>3, <2>4, <3>1 DEF ForkInv, Dining, InCS, TakeCS, PutCS
    <3>2. CASE j # t /\ j = i
      BY <1>1, <1>4, <2>1, <2>4, <3>2 DEF Inv, ForkInv, Dining
    <3>3. CASE j # t /\ j # i
      BY <1>1, <1>4, <2>1, <2>4, <3>3 DEF Inv, ForkInv, Dining
    <3> QED BY <3>1, <3>2, <3>3
  <2>10. (\A j \in Phil : TestInv(j))'
    BY <1>1, <2>4, <2>7 DEF TestInv, InCS, TakeCS, PutCS
  <2>11. NoNeighboursEating'
    BY <1>4, <2>1, Neighbours DEF Inv, NoNeighboursEating, MayEat
  <2> QED BY <2>5, <2>6, <2>8, <2>9, <2>10, <2>11 DEF Inv
<1> QED BY <1>1, <1>3, <1>4 DEF phi_test_sema

\* down(&s[i]): go on with the forks, or sleep until they are granted.
LEMMA DownForksStep ==
  ASSUME Inv, NEW i \in Phil, down_s(i)
  PROVE  Inv'
<1>1. /\ pc \in [Phil -> Labels] /\ pc[i] = "take_down" /\ s \in [Phil -> SemType(Phil)]
      /\ UNCHANGED <<state_sema, mutex, iter>>
      /\ s' = [s EXCEPT ![i] = Down(@, i)]
  BY DEF Inv, TypeOK, down_s, At
<1>2. \/ state_sema[i] = "HUNGRY" /\ s[i] = sem_init(0)
      \/ state_sema[i] = "EATING" /\ s[i] = sem_init(1)
  BY <1>1 DEF Inv, ForkInv, Dining
<1>3. sem_init(0) \in SemType(Phil) /\ Waiting(i) \in SemType(Phil)
  BY DEF sem_init, SemType, Waiting
<1>4. PICK to \in {"fork_wait", "eat"}, v \in {sem_init(0), Waiting(i)} :
        /\ pc' = [pc EXCEPT ![i] = to] /\ s' = [s EXCEPT ![i] = v]
        /\ current' \in Phil \cup {Idle}
        /\ \/ to = "fork_wait" /\ v = Waiting(i) /\ state_sema[i] = "HUNGRY"
           \/ to = "eat" /\ v = sem_init(0) /\ state_sema[i] = "EATING"
  <2>1. CASE state_sema[i] = "HUNGRY" /\ s[i] = sem_init(0)
    BY <1>1, <2>1, DownWaits, ScheduleType DEF down_s, Goto
  <2>2. CASE state_sema[i] = "EATING" /\ s[i] = sem_init(1)
    BY <1>1, <2>2, DownTakes DEF down_s, Goto, Inv, TypeOK
  <2> QED BY <1>2, <2>1, <2>2
<1>5. TypeOK'
  BY <1>1, <1>3, <1>4, ResumeTable DEF Inv, TypeOK, Labels
<1>6. QueueInv'
  BY <1>1, <1>4 DEF Inv, QueueInv
<1>7. \A j \in Phil : InCS(j) <=> InCS(j)'
  BY <1>1, <1>4 DEF InCS, TakeCS, PutCS
<1>8. MutexInv'
  BY <1>1, <1>7 DEF Inv, MutexInv, MutualExclusion
<1>9. (\A j \in Phil : ForkInv(j))'
  BY <1>1, <1>4 DEF Inv, ForkInv, Dining
<1>10. (\A j \in Phil : TestInv(j))' /\ NoNeighboursEating'
  BY <1>1, <1>4 DEF Inv, TestInv, MayEat, NoNeighboursEating
<1> QED BY <1>5, <1>6, <1>8, <1>9, <1>10 DEF Inv

\* Sleeping, quitting and being woken by the timer move one thread and touch
\* neither the semaphores nor state_sema.
LEMMA SleepStep ==
  ASSUME Inv, NEW i \in Phil, Think(i) \/ Eat(i) \/ TimerWakes(i)
  PROVE  Inv'
<1>1. /\ pc \in [Phil -> Labels] /\ iter \in [Phil -> Nat]
      /\ current \in Phil \cup {Idle} /\ ForkInv(i)
  BY DEF Inv, TypeOK
<1>2. PICK to \in {"thinking", "quit", "eating", "take", "put"} :
        /\ pc' = [pc EXCEPT ![i] = to]
        /\ \/ pc[i] = "think" /\ to \in {"thinking", "quit"}
           \/ pc[i] = "eat" /\ to = "eating"
           \/ pc[i] = "thinking" /\ to = "take"
           \/ pc[i] = "eating" /\ to = "put"
  BY ResumeTable DEF Think, Eat, TimerWakes, At, Goto, do_sleep
<1>3. UNCHANGED <<state_sema, mutex, s>> /\ iter' \in [Phil -> Nat]
  BY <1>1 DEF Think, Eat, TimerWakes
<1>4. current' \in Phil \cup {Idle}
  BY <1>1, ScheduleType DEF Think, Eat, TimerWakes, do_sleep
<1>5. to \in Labels /\ pc'[i] = to
  BY <1>1, <1>2, ResumeTable DEF Labels
<1>6. InCS(i)' <=> InCS(i)
  BY <1>2, <1>5 DEF InCS, TakeCS, PutCS
<1>7. ForkInv(i)' /\ TestInv(i)'
  BY <1>1, <1>2, <1>3, <1>5 DEF ForkInv, TestInv, Dining
<1> QED BY <1>2, <1>3, <1>4, <1>5, <1>6, <1>7, MoveStep

\* Handing the CPU over changes nothing else.
LEMMA CpuStep ==
  ASSUME Inv, cpu_idle \/ Preempt
  PROVE  Inv'
<1>1. UNCHANGED <<state_sema, mutex, s, pc, iter>> /\ current' \in Phil \cup {Idle}
  BY ScheduleType DEF cpu_idle, Preempt
<1> QED
  BY <1>1 DEF Inv, TypeOK, QueueInv, MutexInv, MutualExclusion, InCS, ForkInv, Dining,
              TestInv, MayEat, NoNeighboursEating

LEMMA NextInv == Inv /\ [Next]_vars => Inv'
<1> SUFFICES ASSUME Inv, [Next]_vars PROVE Inv'
  OBVIOUS
<1>1. CASE UNCHANGED vars
  BY <1>1 DEF vars, Inv, TypeOK, QueueInv, MutexInv, MutualExclusion, InCS, ForkInv,
              Dining, TestInv, MayEat, NoNeighboursEating
<1>2. CASE cpu_idle \/ Preempt
  BY <1>2, CpuStep
<1>3. ASSUME NEW i \in Phil, philosopher_using_semaphore(i) \/ TimerWakes(i)
      PROVE  Inv'
  <2>1. CASE Think(i) \/ Eat(i) \/ TimerWakes(i)
    BY <2>1, SleepStep
  <2>2. CASE phi_take_forks_sema(i)
    BY <2>2, DownMutexStep, SetStateStep, TestStep, UpMutexStep, DownForksStep
       DEF phi_take_forks_sema
  <2>3. CASE phi_put_forks_sema(i)
    BY <2>3, DownMutexStep, SetStateStep, TestStep, UpMutexStep DEF phi_put_forks_sema
  <2> QED BY <1>3, <2>1, <2>2, <2>3 DEF philosopher_using_semaphore
<1> QED BY <1>1, <1>2, <1>3 DEF Next

\* state_sema, the semaphores and the program counters stay within their types,
\* however many philosophers there are.
THEOREM TypeCorrect == Spec => []TypeOK
<1>1. Inv => TypeOK
  BY DEF Inv
<1> QED BY <1>1, InitInv, NextInv, PTL DEF Spec

\* mutex is a mutex: the direct hand-over of __up never lets two threads into
\* the sections that read and write state_sema.
THEOREM MutexExcludes == Spec => []MutualExclusion
<1>1. Inv => MutualExclusion
  BY DEF Inv, MutexInv
<1> QED BY <1>1, InitInv, NextInv, PTL DEF Spec

\* Neighbours never hold the same fork, for any number of philosophers and any
\* interleaving of their threads.
THEOREM NeighboursExclude == Spec => []NeighboursNeverDineTogether
<1>1. Inv => NeighboursNeverDineTogether
  <2> SUFFICES ASSUME Inv, NEW i \in Phil, Dining(i), Dining(RIGHT(i)) PROVE FALSE
    BY DEF NeighboursNeverDineTogether
  <2>1. RIGHT(i) \in Phil
    BY Neighbours
  <2>2. state_sema[i] = "EATING" /\ state_sema[RIGHT(i)] = "EATING"
    BY <2>1 DEF Inv, ForkInv, Dining
  <2> QED BY <2>2 DEF Inv, NoNeighboursEating
<1> QED BY <1>1, InitInv, NextInv, PTL DEF Spec

-----------------------------------------------------------------------------
(* The philosophers with a monitor: the inductive invariant. *)

Dines == {"eat", "eating", "put", "put_wait", "sated"}

\* Where thread i is, and in which call of phi_test_condvar, determines its state, its
\* count as a waiter and the semaphore of its condition.
LocalInv(i) ==
  \/ /\ \/ mt_pc[i] \in {"think", "thinking", "take", "take_wait", "hungry", "quit"}
        \/ mt_pc[i] \in {"test", "signal", "up_cv", "down_next", "next_wait", "signalled"} /\ site[i] # "self"
        \/ mt_pc[i] = "leave" /\ site[i] = "right"
     /\ state_condvar[i] = "THINKING" /\ cv_count[i] = 0 /\ cv_sem[i] = sem_init(0)
  \/ /\ mt_pc[i] \in {"test", "signal", "while", "wait"} /\ site[i] = "self"
     /\ state_condvar[i] # "THINKING" /\ cv_count[i] = 0 /\ cv_sem[i] = sem_init(0)
  \/ /\ mt_pc[i] \in Dines \/ (mt_pc[i] = "leave" /\ site[i] = "self")
     /\ state_condvar[i] = "EATING" /\ cv_count[i] = 0 /\ cv_sem[i] = sem_init(0)
  \/ /\ mt_pc[i] \in {"down_cv", "cond_wait", "woken"} /\ site[i] = "self"
     /\ state_condvar[i] # "THINKING" /\ cv_count[i] = 1
     /\ \/ mt_pc[i] = "down_cv" /\ cv_sem[i] = sem_init(0)
        \/ mt_pc[i] = "down_cv" /\ cv_sem[i] = sem_init(1) /\ state_condvar[i] = "EATING"
        \/ mt_pc[i] = "cond_wait" /\ cv_sem[i] = Waiting(i)
        \/ mt_pc[i] = "woken" /\ cv_sem[i] = sem_init(0) /\ state_condvar[i] = "EATING"

\* A thread between its test and its up(cv) has made its target eat; when it is about
\* to do the up, the target waits.
SignalInv(i) ==
  /\ mt_pc[i] \in {"signal", "up_cv"} => state_condvar[Target(i)] = "EATING"
  /\ mt_pc[i] = "up_cv" => mt_pc[Target(i)] \in {"down_cv", "cond_wait"}

Signaller(i) == mt_pc[i] \in {"up_cv", "down_next", "next_wait", "signalled"}

\* Threads parked in the queue of mutex are asleep in their down(mutex), each once.
QueueInv_condvar ==
  LET q == mt_mutex.wait_queue IN
  /\ \A k \in 1..Len(q) : mt_pc[q[k]] \in {"take_wait", "put_wait"}
  /\ \A k, l \in 1..Len(q) : q[k] = q[l] => k = l

\* The entry is open only when nobody is inside and no signaller wants to come back.
EntryInv ==
  /\ mt_mutex.value \in {0, 1}
  /\ mt_mutex.value = 1 => next_count = 0 /\ \A i \in Phil : ~Inside(i)

\* Signallers do not nest: at most one waits to come back, and "next" is its semaphore.
NextCountInv ==
  \/ next_count = 0 /\ next = sem_init(0) /\ \A i \in Phil : ~Signaller(i)
  \/ /\ next_count = 1
     /\ \E j \in Phil :
          /\ Signaller(j) /\ \A i \in Phil : Signaller(i) => i = j
          /\ \/ mt_pc[j] # "next_wait" /\ next = sem_init(0)
             \/ mt_pc[j] = "down_next" /\ next = sem_init(1)
             \/ mt_pc[j] = "next_wait" /\ next = Waiting(j)

\* While a signaller is outside, whoever is inside is a signalled waiter on its way out.
GuestInv ==
  \A i, j \in Phil : Signaller(j) /\ ~Inside(j) /\ Inside(i) =>
    mt_pc[i] \in {"down_cv", "woken", "while", "leave"} /\ site[i] = "self" /\ state_condvar[i] = "EATING"

NoNeighboursEating_condvar ==
  \A i \in Phil : state_condvar[i] = "EATING" => state_condvar[RIGHT(i)] # "EATING"

MonitorInv ==
  /\ MonitorTypeOK
  /\ \A i \in Phil : LocalInv(i) /\ SignalInv(i)
  /\ QueueInv_condvar
  /\ EntryInv
  /\ MonitorExclusion
  /\ NextCountInv
  /\ GuestInv
  /\ NoNeighboursEating_condvar

-----------------------------------------------------------------------------
(* Facts about the tables, the CPU and the semaphores. *)

LEMMA ResumeTable_condvar ==
  /\ Asleep_condvar = {"thinking", "take_wait", "next_wait", "cond_wait", "eating", "put_wait"}
  /\ Resume_condvar["thinking"] = "take"       /\ Resume_condvar["eating"] = "put"
  /\ Resume_condvar["take_wait"] = "hungry"    /\ Resume_condvar["put_wait"] = "sated"
  /\ Resume_condvar["next_wait"] = "signalled" /\ Resume_condvar["cond_wait"] = "woken"
BY DEF Asleep_condvar, Resume_condvar

\* schedule() leaves the CPU with a philosopher or with the idle thread.
LEMMA ScheduleType_condvar ==
  ASSUME schedule_condvar
  PROVE  mt_current' \in Phil \cup {Idle}
BY DEF schedule_condvar

\* The semaphores of the conditions and of "next" are in one of three states.
LEMMA SemStates ==
  /\ sem_init(0).value = 0 /\ sem_init(1).value = 1
  /\ sem_init(0) \in SemType(Phil) /\ sem_init(1) \in SemType(Phil)
  /\ \A j \in Phil : Waiting(j).value = 0 /\ Waiting(j) \in SemType(Phil)
BY DEF sem_init, Waiting, SemType

\* The target of a test is a philosopher, and not the tester unless it tests itself.
LEMMA TargetType ==
  ASSUME MonitorInv, NEW i \in Phil
  PROVE  Target(i) \in Phil /\ (site[i] = "self" <=> Target(i) = i)
<1>1. LEFT(i) \in Phil /\ RIGHT(i) \in Phil /\ RIGHT(i) # i /\ RIGHT(LEFT(i)) = i
  BY Neighbours
<1>2. LEFT(i) # i
  BY <1>1
<1>3. site[i] \in Sites
  BY DEF MonitorInv, MonitorTypeOK
<1> QED BY <1>1, <1>2, <1>3 DEF Target, Sites

LEMMA MonitorInitInv == MonitorInit => MonitorInv
<1> SUFFICES ASSUME MonitorInit PROVE MonitorInv
  OBVIOUS
<1>1. MonitorTypeOK
  BY SemStates, PhiloAssumption DEF MonitorInit, MonitorTypeOK, Labels_condvar, Sites
<1>2. \A i \in Phil : LocalInv(i) /\ SignalInv(i) /\ ~Inside(i) /\ ~Signaller(i)
  BY DEF MonitorInit, LocalInv, SignalInv, Inside, Signaller
<1>3. Len(mt_mutex.wait_queue) = 0
  BY DEF MonitorInit, sem_init
<1>4. QueueInv_condvar
  BY <1>3 DEF QueueInv_condvar
<1>5. EntryInv /\ MonitorExclusion /\ NextCountInv /\ GuestInv
  BY <1>2, SemStates DEF MonitorInit, EntryInv, MonitorExclusion, NextCountInv, GuestInv
<1>6. NoNeighboursEating_condvar
  BY DEF MonitorInit, NoNeighboursEating_condvar
<1> QED BY <1>1, <1>2, <1>4, <1>5, <1>6 DEF MonitorInv

-----------------------------------------------------------------------------
(* One lemma per kind of step. *)

\* A step that moves thread i without taking it into or out of the monitor, and that may
\* make a hungry philosopher eat.
LEMMA MoveStep_condvar ==
  ASSUME MonitorInv, NEW i \in Phil, NEW to \in Labels_condvar, mt_pc' = [mt_pc EXCEPT ![i] = to],
         state_condvar' \in [Phil -> {"THINKING", "HUNGRY", "EATING"}],
         site' \in [Phil -> Sites], cv_count' \in [Phil -> Nat],
         \A j \in Phil \ {i} :
           /\ site'[j] = site[j] /\ cv_count'[j] = cv_count[j]
           /\ \/ state_condvar'[j] = state_condvar[j]
              \/ state_condvar[j] = "HUNGRY" /\ state_condvar'[j] = "EATING",
         mt_iter' \in [Phil -> 0..TIMES], mt_current' \in Phil \cup {Idle},
         UNCHANGED <<mt_mutex, next, next_count, cv_sem>>,
         mt_pc[i] \notin {"take_wait", "put_wait", "down_cv", "cond_wait"},
         ~Signaller(i), ~Signaller(i)', Inside(i)' <=> Inside(i),
         ~Inside(i) => UNCHANGED state_condvar,
         LocalInv(i)', SignalInv(i)', NoNeighboursEating_condvar',
         Inside(i) /\ (\E j \in Phil : Signaller(j) /\ ~Inside(j)) =>
           to \in {"woken", "while", "leave"} /\ site'[i] = "self" /\ state_condvar'[i] = "EATING"
  PROVE  MonitorInv'
<1>0. /\ mt_pc \in [Phil -> Labels_condvar] /\ mt_mutex \in SemType(Phil)
      /\ state_condvar \in [Phil -> {"THINKING", "HUNGRY", "EATING"}]
  BY DEF MonitorInv, MonitorTypeOK
<1>1. mt_pc'[i] = to /\ \A j \in Phil \ {i} : mt_pc'[j] = mt_pc[j]
  BY <1>0
<1>2. \A j \in Phil : (Inside(j)' <=> Inside(j)) /\ (Signaller(j)' <=> Signaller(j))
  <2> SUFFICES ASSUME NEW j \in Phil, j # i
               PROVE  (Inside(j)' <=> Inside(j)) /\ (Signaller(j)' <=> Signaller(j))
    OBVIOUS
  <2>1. mt_pc'[j] = mt_pc[j]
    BY <1>1
  <2> QED BY <2>1 DEF Inside, Signaller
<1>3. MonitorTypeOK'
  BY <1>0 DEF MonitorInv, MonitorTypeOK
<1>4. \A j \in Phil : LocalInv(j)'
  <2> SUFFICES ASSUME NEW j \in Phil, j # i PROVE LocalInv(j)'
    OBVIOUS
  <2>1. LocalInv(j) /\ mt_pc'[j] = mt_pc[j] /\ site'[j] = site[j] /\ cv_count'[j] = cv_count[j] /\ cv_sem'[j] = cv_sem[j]
        /\ (state_condvar'[j] = state_condvar[j] \/ (state_condvar[j] = "HUNGRY" /\ state_condvar'[j] = "EATING"))
    BY <1>1 DEF MonitorInv
  <2> QED BY <2>1 DEF LocalInv
<1>5. \A j \in Phil : SignalInv(j)'
  <2> SUFFICES ASSUME NEW j \in Phil, j # i, mt_pc[j] \in {"signal", "up_cv"} PROVE SignalInv(j)'
    BY <1>1 DEF SignalInv
  <2>1. Inside(j)
    BY DEF Inside
  <2>2. UNCHANGED state_condvar
    BY <2>1 DEF MonitorInv, MonitorExclusion
  <2>3. Target(j)' = Target(j) /\ Target(j) \in Phil
    BY TargetType DEF Target
  <2>4. SignalInv(j)
    BY DEF MonitorInv
  <2> QED BY <1>1, <2>2, <2>3, <2>4 DEF SignalInv
<1>6. QueueInv_condvar'
  <2>1. \A k \in 1..Len(mt_mutex.wait_queue) : mt_mutex.wait_queue[k] \in Phil
    BY <1>0 DEF SemType
  <2> QED BY <1>1, <2>1 DEF MonitorInv, QueueInv_condvar
<1>7. EntryInv' /\ MonitorExclusion'
  BY <1>2 DEF MonitorInv, EntryInv, MonitorExclusion
<1>8. NextCountInv'
  <2>1. \A j \in Phil : Signaller(j) => mt_pc'[j] = mt_pc[j]
    BY <1>1
  <2> QED BY <1>2, <2>1 DEF MonitorInv, NextCountInv
<1>9. GuestInv'
  <2> SUFFICES ASSUME NEW k \in Phil, NEW j \in Phil, Signaller(j), ~Inside(j), Inside(k)
               PROVE  mt_pc'[k] \in {"down_cv", "woken", "while", "leave"} /\ site'[k] = "self"
                      /\ state_condvar'[k] = "EATING"
    BY <1>2 DEF GuestInv
  <2>1. CASE k = i
    BY <1>1, <2>1
  <2>2. CASE k # i
    BY <1>1, <2>2 DEF MonitorInv, GuestInv
  <2> QED BY <2>1, <2>2
<1> QED BY <1>3, <1>4, <1>5, <1>6, <1>7, <1>8, <1>9 DEF MonitorInv

\* A thread inside at a place where no signalled waiter can be: no signaller is waiting
\* to come back.
LEMMA NoPending ==
  ASSUME MonitorInv, NEW i \in Phil,
         mt_pc[i] \in {"hungry", "sated", "test", "signal", "wait"} \/ (mt_pc[i] = "leave" /\ site[i] # "self")
  PROVE  Inside(i) /\ ~\E j \in Phil : Signaller(j) /\ ~Inside(j)
BY DEF MonitorInv, GuestInv, Inside

\* Thinking, eating and waking up from either happen outside.
LEMMA OutsideStep ==
  ASSUME MonitorInv, NEW i \in Phil, Think_condvar(i) \/ Eat_condvar(i) \/ TimerWakes_condvar(i)
  PROVE  MonitorInv'
<1>1. /\ mt_pc \in [Phil -> Labels_condvar] /\ mt_iter \in [Phil -> 0..TIMES]
      /\ mt_current \in Phil \cup {Idle} /\ LocalInv(i)
  BY DEF MonitorInv, MonitorTypeOK
<1>2. PICK to \in {"thinking", "quit", "eating", "take", "put"} :
        /\ mt_pc' = [mt_pc EXCEPT ![i] = to]
        /\ \/ mt_pc[i] = "think" /\ to \in {"thinking", "quit"}
           \/ mt_pc[i] = "eat" /\ to = "eating"
           \/ mt_pc[i] = "thinking" /\ to = "take"
           \/ mt_pc[i] = "eating" /\ to = "put"
  BY ResumeTable_condvar DEF Think_condvar, Eat_condvar, TimerWakes_condvar, At_condvar, Goto_condvar
<1>3. UNCHANGED <<state_condvar, mt_mutex, next, next_count, cv_count, cv_sem, site>>
  BY DEF Think_condvar, Eat_condvar, TimerWakes_condvar, monitor
<1>4. mt_current' \in Phil \cup {Idle}
  BY <1>1, ScheduleType_condvar DEF Think_condvar, Eat_condvar, TimerWakes_condvar
<1>5. mt_iter' \in [Phil -> 0..TIMES]
  <2>1. CASE Think_condvar(i)
    <3>1. mt_iter[i] < TIMES => mt_iter[i] + 1 \in 0..TIMES
      BY <1>1, PhiloAssumption
    <3> QED BY <1>1, <2>1, <3>1 DEF Think_condvar
  <2>2. CASE Eat_condvar(i) \/ TimerWakes_condvar(i)
    BY <1>1, <2>2 DEF Eat_condvar, TimerWakes_condvar
  <2> QED BY <2>1, <2>2
<1>6. to \in Labels_condvar /\ mt_pc'[i] = to
  BY <1>1, <1>2, ResumeTable_condvar DEF Labels_condvar
<1>7. ~Inside(i) /\ ~Inside(i)' /\ ~Signaller(i) /\ ~Signaller(i)'
  BY <1>2, <1>6 DEF Inside, Signaller
<1>8. LocalInv(i)' /\ SignalInv(i)'
  BY <1>1, <1>2, <1>3, <1>6 DEF LocalInv, SignalInv, Dines
<1>9. NoNeighboursEating_condvar'
  BY <1>3 DEF MonitorInv, NoNeighboursEating_condvar
<1> QED BY <1>2, <1>3, <1>4, <1>5, <1>6, <1>7, <1>8, <1>9, MoveStep_condvar DEF MonitorInv, MonitorTypeOK

\* Becoming hungry or sated.
LEMMA SetStateStep_condvar ==
  ASSUME MonitorInv, NEW i \in Phil, SetHungry(i) \/ SetThinking(i)
  PROVE  MonitorInv'
<1>1. PICK from \in {"hungry", "sated"}, v \in {"HUNGRY", "THINKING"}, c \in {"self", "left"} :
        /\ SetState_condvar(i, from, v, c)
        /\ from = "hungry" <=> v = "HUNGRY"
        /\ from = "hungry" <=> c = "self"
  BY DEF SetHungry, SetThinking
<1>2. /\ mt_pc \in [Phil -> Labels_condvar] /\ mt_pc[i] = from /\ LocalInv(i) /\ "test" \in Labels_condvar
      /\ state_condvar \in [Phil -> {"THINKING", "HUNGRY", "EATING"}] /\ site \in [Phil -> Sites]
  BY <1>1 DEF MonitorInv, MonitorTypeOK, SetState_condvar, At_condvar, Labels_condvar
<1>3. /\ UNCHANGED <<mt_mutex, next, next_count, cv_count, cv_sem, mt_iter, mt_current>>
      /\ state_condvar' = [state_condvar EXCEPT ![i] = v] /\ site' = [site EXCEPT ![i] = c]
      /\ mt_pc' = [mt_pc EXCEPT ![i] = "test"]
  BY <1>1 DEF SetState_condvar, Goto_condvar, monitor
<1>4. /\ state_condvar' \in [Phil -> {"THINKING", "HUNGRY", "EATING"}] /\ site' \in [Phil -> Sites]
      /\ \A j \in Phil \ {i} : site'[j] = site[j] /\ state_condvar'[j] = state_condvar[j]
      /\ state_condvar'[i] = v /\ site'[i] = c /\ mt_pc'[i] = "test"
  BY <1>2, <1>3 DEF Sites
<1>5. Inside(i) /\ Inside(i)' /\ ~Signaller(i) /\ ~Signaller(i)'
  BY <1>2, <1>4 DEF Inside, Signaller
<1>6. LocalInv(i)' /\ SignalInv(i)'
  BY <1>1, <1>2, <1>3, <1>4 DEF LocalInv, SignalInv, Dines
<1>7. NoNeighboursEating_condvar'
  <2> SUFFICES ASSUME NEW j \in Phil, state_condvar'[j] = "EATING" PROVE state_condvar'[RIGHT(j)] # "EATING"
    BY DEF NoNeighboursEating_condvar
  <2>1. j # i /\ state_condvar[j] = "EATING" /\ RIGHT(j) \in Phil
    BY <1>4, Neighbours
  <2> QED BY <1>4, <2>1 DEF MonitorInv, NoNeighboursEating_condvar
<1>8. ~\E j \in Phil : Signaller(j) /\ ~Inside(j)
  BY <1>2, NoPending
<1> QED BY <1>2, <1>3, <1>4, <1>5, <1>6, <1>7, <1>8, MoveStep_condvar DEF MonitorInv, MonitorTypeOK

\* The return from phi_test_condvar.
LEMMA AfterTestStep ==
  ASSUME MonitorInv, NEW i \in Phil, mt_pc[i] \in {"test", "signal"}, AfterTest(i),
         UNCHANGED <<state_condvar, monitor, mt_iter, mt_current>>
  PROVE  MonitorInv'
<1>1. /\ mt_pc \in [Phil -> Labels_condvar] /\ site \in [Phil -> Sites] /\ LocalInv(i)
  BY DEF MonitorInv, MonitorTypeOK
<1>2. PICK to \in {"while", "test", "leave"} :
        /\ mt_pc' = [mt_pc EXCEPT ![i] = to]
        /\ \/ to = "while" /\ site[i] = "self" /\ site'[i] = "self"
           \/ to = "test" /\ site[i] = "left" /\ site'[i] = "right"
           \/ to = "leave" /\ site[i] = "right" /\ site'[i] = "right"
  BY <1>1 DEF AfterTest, Goto_condvar, Sites
<1>3. site' \in [Phil -> Sites] /\ \A j \in Phil \ {i} : site'[j] = site[j]
  BY <1>1 DEF AfterTest, Sites
<1>4. mt_pc'[i] = to /\ to \in Labels_condvar
  BY <1>1, <1>2 DEF Labels_condvar
<1>5. Inside(i) /\ Inside(i)' /\ ~Signaller(i) /\ ~Signaller(i)'
  BY <1>4 DEF Inside, Signaller
<1>6. UNCHANGED <<state_condvar, mt_mutex, next, next_count, cv_count, cv_sem, mt_iter, mt_current>>
  BY DEF monitor
<1>7. LocalInv(i)' /\ SignalInv(i)'
  BY <1>1, <1>2, <1>4, <1>6 DEF LocalInv, SignalInv, Dines
<1>8. ~\E j \in Phil : Signaller(j) /\ ~Inside(j)
  BY NoPending
<1>9. NoNeighboursEating_condvar'
  BY <1>6 DEF MonitorInv, NoNeighboursEating_condvar
<1> QED BY <1>2, <1>3, <1>4, <1>5, <1>6, <1>7, <1>8, <1>9, MoveStep_condvar DEF MonitorInv, MonitorTypeOK

\* phi_test_condvar makes its target eat only between neighbours who do not.
LEMMA TestStep_condvar == ASSUME MonitorInv, NEW i \in Phil, phi_test_condvar(i) PROVE MonitorInv'
<1> DEFINE t == Target(i)
<1>1. mt_pc[i] = "test" /\ UNCHANGED <<monitor, mt_iter, mt_current>>
  BY DEF phi_test_condvar, At_condvar
<1>2. CASE ~MayEat_condvar(t)
  BY <1>1, <1>2, AfterTestStep DEF phi_test_condvar
<1>3. CASE MayEat_condvar(t)
  <2>1. /\ state_condvar' = [state_condvar EXCEPT ![t] = "EATING"] /\ mt_pc' = [mt_pc EXCEPT ![i] = "signal"]
        /\ UNCHANGED <<site, mt_mutex, next, next_count, cv_count, cv_sem, mt_iter, mt_current>>
    BY <1>1, <1>3 DEF phi_test_condvar, Goto_condvar, monitor
  <2>2. /\ mt_pc \in [Phil -> Labels_condvar] /\ "signal" \in Labels_condvar /\ LocalInv(i)
        /\ state_condvar \in [Phil -> {"THINKING", "HUNGRY", "EATING"}]
    BY DEF MonitorInv, MonitorTypeOK, Labels_condvar
  <2>3. t \in Phil /\ (site[i] = "self" <=> t = i) /\ t' = t
    BY <2>1, TargetType DEF Target
  <2> HIDE DEF t
  <2>4. /\ mt_pc'[i] = "signal" /\ state_condvar'[t] = "EATING" /\ state_condvar[t] = "HUNGRY"
        /\ \A j \in Phil \ {t} : state_condvar'[j] = state_condvar[j]
        /\ state_condvar' \in [Phil -> {"THINKING", "HUNGRY", "EATING"}]
    BY <1>3, <2>1, <2>2, <2>3 DEF MayEat_condvar
  <2>5. Inside(i) /\ Inside(i)' /\ ~Signaller(i) /\ ~Signaller(i)'
    BY <1>1, <2>4 DEF Inside, Signaller
  <2>6. LocalInv(i)'
    BY <1>1, <2>1, <2>2, <2>3, <2>4 DEF LocalInv, Dines
  <2>7. SignalInv(i)'
    BY <2>3, <2>4 DEF SignalInv, t
  <2>8. NoNeighboursEating_condvar'
    <3> SUFFICES ASSUME NEW j \in Phil, state_condvar'[j] = "EATING" PROVE state_condvar'[RIGHT(j)] # "EATING"
      BY DEF NoNeighboursEating_condvar
    <3>1. RIGHT(j) \in Phil /\ LEFT(RIGHT(j)) = j /\ RIGHT(j) # j
      BY Neighbours
    <3>2. CASE j = t
      BY <1>3, <2>4, <3>1, <3>2 DEF MayEat_condvar
    <3>3. CASE j # t /\ RIGHT(j) = t
      BY <1>3, <2>4, <3>1, <3>3 DEF MayEat_condvar
    <3>4. CASE j # t /\ RIGHT(j) # t
      BY <2>4, <3>1, <3>4 DEF MonitorInv, NoNeighboursEating_condvar
    <3> QED BY <3>2, <3>3, <3>4
  <2>9. ~\E j \in Phil : Signaller(j) /\ ~Inside(j)
    BY <1>1, NoPending
  <2> QED BY <1>1, <2>1, <2>2, <2>3, <2>4, <2>5, <2>6, <2>7, <2>8, <2>9, MoveStep_condvar DEF MonitorInv, MonitorTypeOK
<1> QED BY <1>2, <1>3

\* The loop of phi_take_forks_condvar, and the return of cond_wait into it.
LEMMA WhileStep == ASSUME MonitorInv, NEW i \in Phil, While(i) \/ WaitReturn(i) PROVE MonitorInv'
<1>1. /\ mt_pc \in [Phil -> Labels_condvar] /\ LocalInv(i) /\ cv_count \in [Phil -> Nat]
  BY DEF MonitorInv, MonitorTypeOK
<1>2. PICK to \in {"while", "leave", "wait"} :
        /\ mt_pc' = [mt_pc EXCEPT ![i] = to]
        /\ \/ mt_pc[i] = "while" /\ to = "leave" /\ state_condvar[i] = "EATING" /\ UNCHANGED cv_count
           \/ mt_pc[i] = "while" /\ to = "wait" /\ state_condvar[i] # "EATING" /\ UNCHANGED cv_count
           \/ mt_pc[i] = "woken" /\ to = "while" /\ cv_count' = [cv_count EXCEPT ![i] = @ - 1]
  BY DEF While, WaitReturn, At_condvar, Goto_condvar, monitor
<1>3. UNCHANGED <<state_condvar, mt_mutex, next, next_count, cv_sem, mt_iter, mt_current, site>>
  BY DEF While, WaitReturn, monitor
<1>4. mt_pc'[i] = to /\ to \in Labels_condvar
  BY <1>1, <1>2 DEF Labels_condvar
<1>5. cv_count' \in [Phil -> Nat] /\ (\A j \in Phil \ {i} : cv_count'[j] = cv_count[j])
      /\ (mt_pc[i] = "woken" => cv_count'[i] = 0)
  <2>1. mt_pc[i] = "woken" => cv_count[i] = 1
    BY <1>1 DEF LocalInv, Dines
  <2> QED BY <1>1, <1>2, <2>1
<1>6. Inside(i) /\ Inside(i)' /\ ~Signaller(i) /\ ~Signaller(i)'
  BY <1>2, <1>4 DEF Inside, Signaller
<1>7. LocalInv(i)' /\ SignalInv(i)'
  BY <1>1, <1>2, <1>3, <1>4, <1>5 DEF LocalInv, SignalInv, Dines
<1>8. (\E j \in Phil : Signaller(j) /\ ~Inside(j)) =>
        to \in {"while", "leave"} /\ site'[i] = "self" /\ state_condvar'[i] = "EATING"
  BY <1>2, <1>3, <1>6 DEF MonitorInv, GuestInv
<1>9. NoNeighboursEating_condvar'
  BY <1>3 DEF MonitorInv, NoNeighboursEating_condvar
<1> QED BY <1>2, <1>3, <1>4, <1>5, <1>6, <1>7, <1>8, <1>9, MoveStep_condvar DEF MonitorInv, MonitorTypeOK

\* down(mutex): thread i enters an open monitor, or goes to sleep at the tail of the queue.
LEMMA EnterStep == ASSUME MonitorInv, NEW i \in Phil, Enter(i) PROVE MonitorInv'
<1>1. PICK from \in {"take", "put"}, wait \in {"take_wait", "put_wait"}, in \in {"hungry", "sated"} :
        /\ mt_pc[i] = from /\ AfterDown(i, mt_mutex, wait, in)
        /\ from = "take" <=> wait = "take_wait"
        /\ from = "take" <=> in = "hungry"
  BY DEF Enter, At_condvar
<1>2. /\ mt_pc \in [Phil -> Labels_condvar] /\ LocalInv(i)
      /\ mt_mutex \in SemType(Phil) /\ mt_mutex.value \in {0, 1} /\ mt_mutex.wait_queue \in Seq(Phil)
  BY DEF MonitorInv, MonitorTypeOK, SemType, EntryInv
<1>3. UNCHANGED <<state_condvar, next, next_count, cv_count, cv_sem, mt_iter, site>> /\ mt_mutex' = Down(mt_mutex, i)
  BY DEF Enter
<1>4. ~Inside(i) /\ ~Signaller(i)
  BY <1>1 DEF Inside, Signaller
<1>5. NoNeighboursEating_condvar'
  BY <1>3 DEF MonitorInv, NoNeighboursEating_condvar
\* Where i goes, and what nobody else notices.
<1>6. ASSUME NEW to \in {wait, in}, mt_pc' = [mt_pc EXCEPT ![i] = to]
      PROVE  /\ mt_pc'[i] = to /\ to \in Labels_condvar /\ \A j \in Phil \ {i} : mt_pc'[j] = mt_pc[j]
             /\ mt_pc' \in [Phil -> Labels_condvar] /\ ~Signaller(i)'
             /\ \A j \in Phil \ {i} : (Inside(j)' <=> Inside(j)) /\ (Signaller(j)' <=> Signaller(j))
             /\ \A j \in Phil : LocalInv(j)' /\ SignalInv(j)'
             /\ NextCountInv'
  <2>1. to \in Labels_condvar
    BY <1>1, ResumeTable_condvar DEF Labels_condvar
  <2>2. mt_pc'[i] = to /\ (\A j \in Phil \ {i} : mt_pc'[j] = mt_pc[j]) /\ mt_pc' \in [Phil -> Labels_condvar]
    BY <1>2, <1>6, <2>1
  <2>3. ~Signaller(i)'
    BY <1>1, <2>2 DEF Signaller
  <2>4. \A j \in Phil \ {i} : (Inside(j)' <=> Inside(j)) /\ (Signaller(j)' <=> Signaller(j))
    BY <1>3, <2>2 DEF Inside, Signaller
  <2>5. \A j \in Phil : LocalInv(j)'
    <3>1. LocalInv(i)'
      BY <1>1, <1>2, <1>3, <2>2 DEF LocalInv, Dines
    <3>2. \A j \in Phil \ {i} : LocalInv(j)'
      BY <1>3, <2>2 DEF MonitorInv, LocalInv, Dines
    <3> QED BY <3>1, <3>2
  <2>6. \A j \in Phil : SignalInv(j)'
    <3> SUFFICES ASSUME NEW j \in Phil, mt_pc'[j] \in {"signal", "up_cv"} PROVE SignalInv(j)'
      BY DEF SignalInv
    <3>1. j # i /\ mt_pc'[j] = mt_pc[j] /\ SignalInv(j) /\ Target(j)' = Target(j) /\ Target(j) \in Phil
      BY <1>1, <1>3, <2>2, TargetType DEF MonitorInv, Target
    <3> QED BY <1>1, <1>3, <2>2, <3>1 DEF SignalInv
  <2>7. NextCountInv'
    <3>1. \A j \in Phil : Signaller(j) => mt_pc'[j] = mt_pc[j]
      BY <1>4, <2>2
    <3> QED BY <1>3, <1>4, <2>3, <2>4, <3>1 DEF MonitorInv, NextCountInv
  <2> QED BY <2>1, <2>2, <2>3, <2>4, <2>5, <2>6, <2>7
<1>7. CASE Blocks(mt_mutex)
  <2> DEFINE q == mt_mutex.wait_queue
  <2>1. mt_pc' = [mt_pc EXCEPT ![i] = wait] /\ mt_current' \in Phil \cup {Idle}
    BY <1>1, <1>7, ScheduleType_condvar DEF AfterDown, Goto_condvar
  <2>2. mt_mutex' = [value |-> 0, wait_queue |-> Append(q, i)] /\ mt_mutex.value = 0
    BY <1>3, <1>7 DEF Down, Blocks
  <2>3. MonitorTypeOK'
    BY <1>2, <1>3, <1>6, <2>1, <2>2, AppendQueue DEF MonitorInv, MonitorTypeOK, SemType
  <2>4. QueueInv_condvar'
    <3>1. \A k \in 1..Len(q) : q[k] # i /\ q[k] \in Phil
      BY <1>1, <1>2 DEF MonitorInv, QueueInv_condvar
    <3>2. Len(q) \in Nat /\ mt_mutex'.wait_queue = Append(q, i) /\ mt_pc'[i] = wait
      BY <1>2, <1>6, <2>1, <2>2
    <3>3. \A k \in 1..Len(q) : mt_pc'[q[k]] \in {"take_wait", "put_wait"}
      BY <1>6, <2>1, <3>1 DEF MonitorInv, QueueInv_condvar
    <3>4. \A k, l \in 1..Len(q) : q[k] = q[l] => k = l
      BY DEF MonitorInv, QueueInv_condvar
    <3>5. /\ Len(Append(q, i)) = Len(q) + 1 /\ Append(q, i)[Len(q) + 1] = i
          /\ \A k \in 1..Len(q) : Append(q, i)[k] = q[k]
      BY <1>2, AppendQueue
    <3> HIDE DEF q
    <3> QED BY <3>1, <3>2, <3>3, <3>4, <3>5 DEF QueueInv_condvar
  <2>5. ~Inside(i)'
    BY <1>1, <1>6, <2>1 DEF Inside
  <2>6. EntryInv' /\ MonitorExclusion'
    BY <1>3, <1>4, <1>6, <2>1, <2>2, <2>5 DEF MonitorInv, EntryInv, MonitorExclusion
  <2>7. GuestInv'
    <3> SUFFICES ASSUME NEW k \in Phil, NEW j \in Phil, Signaller(j)', ~Inside(j)', Inside(k)'
                 PROVE  mt_pc'[k] \in {"down_cv", "woken", "while", "leave"} /\ site'[k] = "self"
                        /\ state_condvar'[k] = "EATING"
      BY DEF GuestInv
    <3>1. k # i /\ j # i /\ Signaller(j) /\ ~Inside(j) /\ Inside(k) /\ mt_pc'[k] = mt_pc[k]
      BY <1>6, <2>1, <2>5
    <3> QED BY <1>3, <3>1 DEF MonitorInv, GuestInv
  <2> QED BY <1>5, <1>6, <2>1, <2>3, <2>4, <2>6, <2>7 DEF MonitorInv
<1>8. CASE ~Blocks(mt_mutex)
  <2>1. mt_pc' = [mt_pc EXCEPT ![i] = in] /\ mt_current' = mt_current
    BY <1>1, <1>8 DEF AfterDown, Goto_condvar
  <2>2. mt_mutex' = [value |-> 0, wait_queue |-> mt_mutex.wait_queue] /\ mt_mutex.value = 1
    BY <1>2, <1>3, <1>8 DEF Down, Blocks
  <2>3. MonitorTypeOK'
    BY <1>2, <1>3, <1>6, <2>1, <2>2 DEF MonitorInv, MonitorTypeOK, SemType
  <2>4. QueueInv_condvar'
    <3>1. \A k \in 1..Len(mt_mutex.wait_queue) : mt_mutex.wait_queue[k] \in Phil /\ mt_mutex.wait_queue[k] # i
      BY <1>1, <1>2 DEF MonitorInv, QueueInv_condvar
    <3> QED BY <1>6, <2>1, <2>2, <3>1 DEF MonitorInv, QueueInv_condvar
  <2>5. next_count = 0 /\ \A j \in Phil : ~Inside(j) /\ ~Signaller(j)
    BY <2>2 DEF MonitorInv, EntryInv, NextCountInv
  <2>6. \A j \in Phil : (Inside(j)' => j = i) /\ ~Signaller(j)'
    BY <1>6, <2>1, <2>5
  <2>7. EntryInv' /\ MonitorExclusion' /\ GuestInv'
    BY <2>2, <2>6 DEF EntryInv, MonitorExclusion, GuestInv
  <2> QED BY <1>5, <1>6, <2>1, <2>3, <2>4, <2>7 DEF MonitorInv
<1> QED BY <1>7, <1>8

\* cond_signal with a waiter: there is no other signaller, and the waiter is asleep or
\* about to be.
LEMMA AnnounceStep == ASSUME MonitorInv, NEW i \in Phil, SignalAnnounce(i) PROVE MonitorInv'
<1> DEFINE t == Target(i)
<1>1. /\ mt_pc[i] = "signal" /\ cv_count[t] > 0 /\ next_count' = next_count + 1 /\ mt_pc' = [mt_pc EXCEPT ![i] = "up_cv"]
      /\ UNCHANGED <<state_condvar, mt_mutex, next, cv_count, cv_sem, mt_iter, mt_current, site>>
  BY DEF SignalAnnounce, At_condvar, Goto_condvar
<1>2. /\ mt_pc \in [Phil -> Labels_condvar] /\ "up_cv" \in Labels_condvar /\ LocalInv(i) /\ t \in Phil /\ LocalInv(t)
      /\ (site[i] = "self" <=> t = i) /\ t' = t /\ SignalInv(i) /\ mt_mutex \in SemType(Phil)
  BY <1>1, TargetType DEF MonitorInv, MonitorTypeOK, Labels_condvar, Target
<1>3. Inside(i) /\ ~\E j \in Phil : Signaller(j) /\ ~Inside(j)
  BY <1>1, NoPending
<1>4. \A j \in Phil : ~Signaller(j) /\ (Inside(j) => j = i)
  BY <1>1, <1>3 DEF MonitorInv, MonitorExclusion, Signaller
<1>5. next_count = 0 /\ next = sem_init(0)
  BY <1>4 DEF MonitorInv, NextCountInv
<1>6. t # i /\ mt_pc[t] \in {"down_cv", "cond_wait"} /\ state_condvar[t] = "EATING"
  <2>1. t # i /\ state_condvar[t] = "EATING"
    BY <1>1, <1>2 DEF LocalInv, Dines, SignalInv
  <2>2. mt_pc[t] \in {"down_cv", "cond_wait", "woken"}
    BY <1>1, <1>2 DEF LocalInv
  <2> QED BY <1>2, <1>4, <2>1, <2>2 DEF Inside
<1> HIDE DEF t
<1>7. mt_pc'[i] = "up_cv" /\ \A j \in Phil \ {i} : mt_pc'[j] = mt_pc[j]
  BY <1>1, <1>2
<1>8. MonitorTypeOK'
  BY <1>1, <1>2, <1>5 DEF MonitorInv, MonitorTypeOK
<1>9. \A j \in Phil : (Inside(j)' <=> Inside(j)) /\ (Signaller(j)' <=> j = i)
  <2>1. Inside(i)' /\ Signaller(i)'
    BY <1>7 DEF Inside, Signaller
  <2>2. \A j \in Phil \ {i} : (Inside(j)' <=> Inside(j)) /\ ~Signaller(j)'
    BY <1>1, <1>4, <1>7 DEF Inside, Signaller
  <2> QED BY <1>3, <2>1, <2>2
<1>10. \A j \in Phil : LocalInv(j)'
  <2>1. LocalInv(i)'
    BY <1>1, <1>2, <1>6, <1>7 DEF LocalInv, Dines
  <2>2. \A j \in Phil \ {i} : LocalInv(j)'
    BY <1>1, <1>7 DEF MonitorInv, LocalInv, Dines
  <2> QED BY <2>1, <2>2
<1>11. \A j \in Phil : SignalInv(j)'
  <2>1. SignalInv(i)'
    BY <1>1, <1>2, <1>6, <1>7 DEF SignalInv, t
  <2>2. \A j \in Phil \ {i} : mt_pc'[j] \notin {"signal", "up_cv"}
    BY <1>4, <1>7 DEF Inside
  <2> QED BY <2>1, <2>2 DEF SignalInv
<1>12. QueueInv_condvar'
  <2>1. \A k \in 1..Len(mt_mutex.wait_queue) : mt_mutex.wait_queue[k] \in Phil /\ mt_mutex.wait_queue[k] # i
    BY <1>1, <1>2 DEF MonitorInv, QueueInv_condvar, SemType
  <2> QED BY <1>1, <1>7, <2>1 DEF MonitorInv, QueueInv_condvar
<1>13. EntryInv' /\ MonitorExclusion' /\ GuestInv'
  BY <1>1, <1>3, <1>4, <1>9 DEF MonitorInv, EntryInv, MonitorExclusion, GuestInv
<1>14. NextCountInv'
  BY <1>1, <1>5, <1>7, <1>9 DEF NextCountInv
<1>15. NoNeighboursEating_condvar'
  BY <1>1 DEF MonitorInv, NoNeighboursEating_condvar
<1> QED BY <1>8, <1>10, <1>11, <1>12, <1>13, <1>14, <1>15 DEF MonitorInv

\* up(cv): the monitor passes from the signaller to the waiter.
LEMMA SignalUpStep == ASSUME MonitorInv, NEW i \in Phil, SignalUp(i) PROVE MonitorInv'
<1>0. PICK t \in Phil : t = Target(i)
  BY TargetType
<1>1. /\ mt_pc[i] = "up_cv" /\ cv_sem' = [cv_sem EXCEPT ![t] = Up(@)] /\ AfterUp_condvar(i, cv_sem[t], "down_next")
      /\ UNCHANGED <<state_condvar, mt_mutex, next, next_count, cv_count, mt_iter, site, mt_current>>
  BY <1>0 DEF SignalUp, At_condvar, AfterUp_condvar
<1>2. /\ mt_pc \in [Phil -> Labels_condvar] /\ LocalInv(i) /\ t \in Phil /\ LocalInv(t) /\ cv_sem \in [Phil -> SemType(Phil)]
      /\ (site[i] = "self" <=> t = i) /\ SignalInv(i) /\ mt_mutex \in SemType(Phil)
      /\ "down_next" \in Labels_condvar /\ "woken" \in Labels_condvar
  BY <1>0, TargetType DEF MonitorInv, MonitorTypeOK, Labels_condvar
<1>3. Inside(i) /\ Signaller(i) /\ \A j \in Phil : (Inside(j) => j = i) /\ (Signaller(j) => j = i)
  BY <1>1 DEF MonitorInv, MonitorExclusion, NextCountInv, Signaller, Inside
<1>4. next_count = 1 /\ next = sem_init(0)
  BY <1>1, <1>3 DEF MonitorInv, NextCountInv
<1>5. /\ t # i /\ state_condvar[t] = "EATING" /\ cv_count[t] = 1 /\ site[t] = "self"
      /\ \/ mt_pc[t] = "down_cv" /\ cv_sem[t] = sem_init(0)
         \/ mt_pc[t] = "cond_wait" /\ cv_sem[t] = Waiting(t)
  <2>1. t # i /\ state_condvar[t] = "EATING" /\ mt_pc[t] \in {"down_cv", "cond_wait"}
    BY <1>0, <1>1, <1>2 DEF LocalInv, SignalInv, Dines
  <2>2. cv_sem[t].value > 0 => mt_pc[t] # "down_cv"
    BY <1>2, <1>3, <2>1 DEF Inside
  <2> QED BY <1>2, <2>1, <2>2, SemStates DEF LocalInv, Dines
<1>6. /\ mt_pc'[i] = "down_next" /\ (\A j \in Phil \ {i, t} : mt_pc'[j] = mt_pc[j]) /\ mt_pc' \in [Phil -> Labels_condvar]
      /\ cv_sem' \in [Phil -> SemType(Phil)] /\ \A j \in Phil \ {t} : cv_sem'[j] = cv_sem[j]
      /\ \/ mt_pc'[t] = "down_cv" /\ cv_sem'[t] = sem_init(1)
         \/ mt_pc'[t] = "woken" /\ cv_sem'[t] = sem_init(0)
  <2>1. CASE mt_pc[t] = "down_cv" /\ cv_sem[t] = sem_init(0)
    <3>1. Up(cv_sem[t]) = sem_init(1) /\ Woken(cv_sem[t]) = {}
      BY <2>1, UpIdle
    <3>2. mt_pc' = [j \in Phil |-> IF j = i THEN "down_next" ELSE mt_pc[j]]
      BY <1>1, <3>1 DEF AfterUp_condvar
    <3> QED BY <1>1, <1>2, <1>5, <2>1, <3>1, <3>2, SemStates
  <2>2. CASE mt_pc[t] = "cond_wait" /\ cv_sem[t] = Waiting(t)
    <3>1. Up(cv_sem[t]) = sem_init(0) /\ Woken(cv_sem[t]) = {t}
      BY <2>2, UpWaiting
    <3>2. mt_pc' = [j \in Phil |-> IF j = i THEN "down_next" ELSE IF j = t THEN Resume_condvar[mt_pc[j]] ELSE mt_pc[j]]
      BY <1>1, <3>1 DEF AfterUp_condvar
    <3> QED BY <1>1, <1>2, <1>5, <2>2, <3>1, <3>2, SemStates, ResumeTable_condvar
  <2> QED BY <1>5, <2>1, <2>2
<1>7. \A j \in Phil : (Inside(j)' <=> j = t) /\ (Signaller(j)' <=> j = i)
  <2>1. Inside(t)' /\ ~Signaller(t)'
    BY <1>2, <1>6, SemStates DEF Inside, Signaller
  <2>2. ~Inside(i)' /\ Signaller(i)'
    BY <1>1, <1>4, <1>6, SemStates DEF Inside, Signaller
  <2>3. ASSUME NEW j \in Phil \ {i, t} PROVE ~Inside(j)' /\ ~Signaller(j)'
    <3>1. mt_pc'[j] = mt_pc[j] /\ cv_sem'[j] = cv_sem[j] /\ next' = next /\ ~Inside(j) /\ ~Signaller(j)
      BY <1>1, <1>3, <1>6, <2>3
    <3> QED BY <3>1 DEF Inside, Signaller
  <2> QED BY <1>2, <1>5, <2>1, <2>2, <2>3
<1>8. MonitorTypeOK'
  BY <1>1, <1>6 DEF MonitorInv, MonitorTypeOK
<1>9. \A j \in Phil : LocalInv(j)'
  <2>1. LocalInv(i)'
    BY <1>1, <1>2, <1>5, <1>6 DEF LocalInv, Dines
  <2>2. LocalInv(t)'
    BY <1>1, <1>2, <1>5, <1>6 DEF LocalInv, Dines
  <2>3. \A j \in Phil \ {i, t} : LocalInv(j)'
    BY <1>1, <1>6 DEF MonitorInv, LocalInv, Dines
  <2> QED BY <2>1, <2>2, <2>3
<1>10. \A j \in Phil : SignalInv(j)'
  <2> SUFFICES ASSUME NEW j \in Phil PROVE mt_pc'[j] \notin {"signal", "up_cv"}
    BY DEF SignalInv
  <2>1. CASE j \in {i, t}
    BY <1>6, <2>1
  <2>2. CASE j \notin {i, t}
    BY <1>3, <1>6, <2>2 DEF Inside
  <2> QED BY <2>1, <2>2
<1>11. QueueInv_condvar'
  <2>1. \A k \in 1..Len(mt_mutex.wait_queue) : mt_mutex.wait_queue[k] \in Phil \ {i, t}
    <3> SUFFICES ASSUME NEW k \in 1..Len(mt_mutex.wait_queue) PROVE mt_mutex.wait_queue[k] \in Phil \ {i, t}
      OBVIOUS
    <3>1. mt_mutex.wait_queue[k] \in Phil /\ mt_pc[mt_mutex.wait_queue[k]] \in {"take_wait", "put_wait"}
      BY <1>2 DEF MonitorInv, QueueInv_condvar, SemType
    <3>2. mt_pc[i] \notin {"take_wait", "put_wait"} /\ mt_pc[t] \notin {"take_wait", "put_wait"}
      BY <1>1, <1>5
    <3> QED BY <3>1, <3>2
  <2> QED BY <1>1, <1>6, <2>1 DEF MonitorInv, QueueInv_condvar
<1>12. EntryInv' /\ MonitorExclusion'
  BY <1>1, <1>3, <1>7 DEF MonitorInv, EntryInv, MonitorExclusion
<1>13. GuestInv'
  <2>1. mt_pc'[t] \in {"down_cv", "woken"} /\ site'[t] = "self" /\ state_condvar'[t] = "EATING"
    BY <1>1, <1>5, <1>6
  <2> QED BY <1>7, <2>1 DEF GuestInv
<1>14. NextCountInv'
  BY <1>1, <1>4, <1>6, <1>7 DEF NextCountInv
<1>15. NoNeighboursEating_condvar'
  BY <1>1 DEF MonitorInv, NoNeighboursEating_condvar
<1> QED BY <1>8, <1>9, <1>10, <1>11, <1>12, <1>13, <1>14, <1>15 DEF MonitorInv

\* down(next): the signaller goes on if the monitor is its own again, else it sleeps.
LEMMA SignalDownStep == ASSUME MonitorInv, NEW i \in Phil, SignalDown(i) PROVE MonitorInv'
<1>1. /\ mt_pc[i] = "down_next" /\ next' = Down(next, i) /\ AfterDown(i, next, "next_wait", "signalled")
      /\ UNCHANGED <<state_condvar, mt_mutex, next_count, cv_count, cv_sem, mt_iter, site>>
  BY DEF SignalDown, At_condvar
<1>2. /\ mt_pc \in [Phil -> Labels_condvar] /\ LocalInv(i) /\ mt_mutex \in SemType(Phil)
      /\ "next_wait" \in Labels_condvar /\ "signalled" \in Labels_condvar
  BY ResumeTable_condvar DEF MonitorInv, MonitorTypeOK, Labels_condvar
<1>3. Signaller(i) /\ next_count = 1 /\ (\A j \in Phil : Signaller(j) => j = i)
      /\ (next = sem_init(0) \/ next = sem_init(1))
  BY <1>1 DEF MonitorInv, NextCountInv, Signaller
<1>4. PICK to \in {"next_wait", "signalled"} :
        /\ mt_pc' = [mt_pc EXCEPT ![i] = to] /\ mt_current' \in Phil \cup {Idle}
        /\ \/ to = "next_wait" /\ next = sem_init(0) /\ next' = Waiting(i)
           \/ to = "signalled" /\ next = sem_init(1) /\ next' = sem_init(0)
  <2>1. CASE next = sem_init(0)
    BY <1>1, <2>1, DownWaits, ScheduleType_condvar DEF AfterDown, Goto_condvar
  <2>2. CASE next = sem_init(1)
    BY <1>1, <2>2, DownTakes DEF AfterDown, Goto_condvar, MonitorInv, MonitorTypeOK
  <2> QED BY <1>3, <2>1, <2>2
<1>5. mt_pc'[i] = to /\ \A j \in Phil \ {i} : mt_pc'[j] = mt_pc[j]
  BY <1>2, <1>4
<1>6. \A j \in Phil : (Inside(j)' <=> Inside(j)) /\ (Signaller(j)' <=> Signaller(j))
  <2>1. (Inside(i)' <=> Inside(i)) /\ Signaller(i)'
    BY <1>1, <1>4, <1>5, SemStates DEF Inside, Signaller
  <2>2. ASSUME NEW j \in Phil \ {i} PROVE (Inside(j)' <=> Inside(j)) /\ (Signaller(j)' <=> Signaller(j))
    <3>1. mt_pc[j] # "down_next" /\ mt_pc'[j] = mt_pc[j] /\ cv_sem'[j] = cv_sem[j]
      BY <1>1, <1>3, <1>5, <2>2 DEF Signaller
    <3> QED BY <3>1 DEF Inside, Signaller
  <2> QED BY <1>3, <2>1, <2>2
<1>7. MonitorTypeOK'
  BY <1>1, <1>2, <1>4, SemStates DEF MonitorInv, MonitorTypeOK
<1>8. \A j \in Phil : LocalInv(j)'
  <2>1. LocalInv(i)'
    BY <1>1, <1>2, <1>4, <1>5 DEF LocalInv, Dines
  <2>2. \A j \in Phil \ {i} : LocalInv(j)'
    BY <1>1, <1>5 DEF MonitorInv, LocalInv, Dines
  <2> QED BY <2>1, <2>2
<1>9. \A j \in Phil : SignalInv(j)'
  <2> SUFFICES ASSUME NEW j \in Phil, mt_pc'[j] \in {"signal", "up_cv"} PROVE SignalInv(j)'
    BY DEF SignalInv
  <2>1. j # i /\ mt_pc'[j] = mt_pc[j] /\ SignalInv(j) /\ Target(j)' = Target(j) /\ Target(j) \in Phil
    BY <1>1, <1>4, <1>5, TargetType DEF MonitorInv, Target
  <2> QED BY <1>1, <1>5, <2>1 DEF SignalInv
<1>10. QueueInv_condvar'
  <2>1. \A k \in 1..Len(mt_mutex.wait_queue) : mt_mutex.wait_queue[k] \in Phil /\ mt_mutex.wait_queue[k] # i
    BY <1>1, <1>2 DEF MonitorInv, QueueInv_condvar, SemType
  <2> QED BY <1>1, <1>5, <2>1 DEF MonitorInv, QueueInv_condvar
<1>11. EntryInv' /\ MonitorExclusion'
  BY <1>1, <1>6 DEF MonitorInv, EntryInv, MonitorExclusion
<1>12. NextCountInv'
  BY <1>1, <1>3, <1>4, <1>5, <1>6 DEF NextCountInv
<1>13. GuestInv'
  <2> SUFFICES ASSUME NEW k \in Phil, Inside(k), ~Inside(i)
               PROVE  mt_pc'[k] \in {"down_cv", "woken", "while", "leave"} /\ site'[k] = "self"
                      /\ state_condvar'[k] = "EATING"
    BY <1>3, <1>6 DEF GuestInv
  <2> QED BY <1>1, <1>3, <1>5 DEF MonitorInv, GuestInv
<1>14. NoNeighboursEating_condvar'
  BY <1>1 DEF MonitorInv, NoNeighboursEating_condvar
<1> QED BY <1>7, <1>8, <1>9, <1>10, <1>11, <1>12, <1>13, <1>14 DEF MonitorInv

\* The signaller is back inside and no longer counted.
LEMMA SignalReturnStep == ASSUME MonitorInv, NEW i \in Phil, SignalReturn(i) PROVE MonitorInv'
<1>1. /\ mt_pc[i] = "signalled" /\ next_count' = next_count - 1 /\ AfterTest(i)
      /\ UNCHANGED <<state_condvar, mt_mutex, next, cv_count, cv_sem, mt_iter, mt_current>>
  BY DEF SignalReturn, At_condvar
<1>2. /\ mt_pc \in [Phil -> Labels_condvar] /\ LocalInv(i) /\ mt_mutex \in SemType(Phil) /\ site \in [Phil -> Sites]
  BY DEF MonitorInv, MonitorTypeOK
<1>3. /\ Signaller(i) /\ next_count = 1 /\ next = sem_init(0) /\ Inside(i)
      /\ \A j \in Phil : (Signaller(j) => j = i) /\ (Inside(j) => j = i)
  BY <1>1 DEF MonitorInv, NextCountInv, Signaller, MonitorExclusion, Inside
<1>4. PICK to \in {"test", "leave"} :
        /\ mt_pc' = [mt_pc EXCEPT ![i] = to] /\ site'[i] = "right" /\ site' \in [Phil -> Sites]
        /\ \A j \in Phil \ {i} : site'[j] = site[j]
  <2>1. site[i] \in {"left", "right"}
    BY <1>1, <1>2 DEF LocalInv, Dines, Sites
  <2> QED BY <1>1, <1>2, <2>1 DEF AfterTest, Goto_condvar, Sites
<1>5. mt_pc'[i] = to /\ to \in Labels_condvar /\ \A j \in Phil \ {i} : mt_pc'[j] = mt_pc[j]
  BY <1>2, <1>4 DEF Labels_condvar
<1>6. \A j \in Phil : (Inside(j)' <=> j = i) /\ ~Signaller(j)'
  <2>1. Inside(i)' /\ ~Signaller(i)'
    BY <1>4, <1>5 DEF Inside, Signaller
  <2>2. \A j \in Phil \ {i} : ~Inside(j)' /\ ~Signaller(j)'
    BY <1>1, <1>3, <1>5 DEF Inside, Signaller
  <2> QED BY <2>1, <2>2
<1>7. MonitorTypeOK'
  BY <1>1, <1>2, <1>3, <1>4, <1>5 DEF MonitorInv, MonitorTypeOK
<1>8. \A j \in Phil : LocalInv(j)'
  <2>1. LocalInv(i)'
    BY <1>1, <1>2, <1>4, <1>5 DEF LocalInv, Dines
  <2>2. \A j \in Phil \ {i} : LocalInv(j)'
    BY <1>1, <1>4, <1>5 DEF MonitorInv, LocalInv, Dines
  <2> QED BY <2>1, <2>2
<1>9. \A j \in Phil : SignalInv(j)'
  <2>1. \A j \in Phil : mt_pc'[j] \notin {"signal", "up_cv"}
    BY <1>3, <1>4, <1>5 DEF Inside
  <2> QED BY <2>1 DEF SignalInv
<1>10. QueueInv_condvar'
  <2>1. \A k \in 1..Len(mt_mutex.wait_queue) : mt_mutex.wait_queue[k] \in Phil /\ mt_mutex.wait_queue[k] # i
    BY <1>1, <1>2 DEF MonitorInv, QueueInv_condvar, SemType
  <2> QED BY <1>1, <1>5, <2>1 DEF MonitorInv, QueueInv_condvar
<1>11. EntryInv' /\ MonitorExclusion' /\ GuestInv'
  BY <1>1, <1>3, <1>6 DEF MonitorInv, EntryInv, MonitorExclusion, GuestInv
<1>12. NextCountInv'
  BY <1>1, <1>3, <1>6 DEF NextCountInv
<1>13. NoNeighboursEating_condvar'
  BY <1>1 DEF MonitorInv, NoNeighboursEating_condvar
<1> QED BY <1>7, <1>8, <1>9, <1>10, <1>11, <1>12, <1>13 DEF MonitorInv

\* down(cv): the waiter sleeps, unless its signal is there and the monitor its own.
LEMMA WaitDownStep == ASSUME MonitorInv, NEW i \in Phil, WaitDown(i) PROVE MonitorInv'
<1>1. /\ mt_pc[i] = "down_cv" /\ cv_sem' = [cv_sem EXCEPT ![i] = Down(@, i)]
      /\ AfterDown(i, cv_sem[i], "cond_wait", "woken")
      /\ UNCHANGED <<state_condvar, mt_mutex, next, next_count, cv_count, mt_iter, site>>
  BY DEF WaitDown, At_condvar
<1>2. /\ mt_pc \in [Phil -> Labels_condvar] /\ LocalInv(i) /\ mt_mutex \in SemType(Phil) /\ cv_sem \in [Phil -> SemType(Phil)]
      /\ "cond_wait" \in Labels_condvar /\ "woken" \in Labels_condvar
  BY ResumeTable_condvar DEF MonitorInv, MonitorTypeOK, Labels_condvar
<1>3. /\ site[i] = "self" /\ state_condvar[i] # "THINKING" /\ cv_count[i] = 1
      /\ \/ cv_sem[i] = sem_init(0)
         \/ cv_sem[i] = sem_init(1) /\ state_condvar[i] = "EATING"
  BY <1>1, <1>2 DEF LocalInv, Dines
<1>4. PICK to \in {"cond_wait", "woken"} :
        /\ mt_pc' = [mt_pc EXCEPT ![i] = to] /\ mt_current' \in Phil \cup {Idle}
        /\ \/ to = "cond_wait" /\ cv_sem[i] = sem_init(0) /\ cv_sem'[i] = Waiting(i)
           \/ to = "woken" /\ cv_sem[i] = sem_init(1) /\ cv_sem'[i] = sem_init(0)
  <2>1. CASE cv_sem[i] = sem_init(0)
    <3>1. Down(cv_sem[i], i) = Waiting(i) /\ Blocks(cv_sem[i])
      BY <2>1, DownWaits
    <3> QED BY <1>1, <1>2, <2>1, <3>1, ScheduleType_condvar DEF AfterDown, Goto_condvar
  <2>2. CASE cv_sem[i] = sem_init(1)
    <3>1. Down(cv_sem[i], i) = sem_init(0) /\ ~Blocks(cv_sem[i])
      BY <2>2, DownTakes
    <3> QED BY <1>1, <1>2, <2>2, <3>1 DEF AfterDown, Goto_condvar, MonitorInv, MonitorTypeOK
  <2> QED BY <1>3, <2>1, <2>2
<1>5. /\ mt_pc'[i] = to /\ \A j \in Phil \ {i} : mt_pc'[j] = mt_pc[j] /\ cv_sem'[j] = cv_sem[j]
      /\ cv_sem' \in [Phil -> SemType(Phil)]
  BY <1>1, <1>2, <1>4, SemStates
<1>6. \A j \in Phil : (Inside(j)' <=> Inside(j)) /\ (Signaller(j)' <=> Signaller(j))
  <2>1. (Inside(i)' <=> Inside(i)) /\ ~Signaller(i)' /\ ~Signaller(i)
    BY <1>1, <1>4, <1>5, SemStates DEF Inside, Signaller
  <2>2. ASSUME NEW j \in Phil \ {i} PROVE (Inside(j)' <=> Inside(j)) /\ (Signaller(j)' <=> Signaller(j))
    <3>1. mt_pc'[j] = mt_pc[j] /\ cv_sem'[j] = cv_sem[j]
      BY <1>5, <2>2
    <3> QED BY <1>1, <3>1 DEF Inside, Signaller
  <2> QED BY <2>1, <2>2
<1>7. MonitorTypeOK'
  BY <1>1, <1>2, <1>4, <1>5 DEF MonitorInv, MonitorTypeOK
<1>8. \A j \in Phil : LocalInv(j)'
  <2>1. LocalInv(i)'
    BY <1>1, <1>3, <1>4, <1>5, SemStates DEF LocalInv, Dines
  <2>2. \A j \in Phil \ {i} : LocalInv(j)'
    BY <1>1, <1>5 DEF MonitorInv, LocalInv, Dines
  <2> QED BY <2>1, <2>2
<1>9. \A j \in Phil : SignalInv(j)'
  <2> SUFFICES ASSUME NEW j \in Phil, mt_pc'[j] \in {"signal", "up_cv"} PROVE SignalInv(j)'
    BY DEF SignalInv
  <2>1. j # i /\ mt_pc'[j] = mt_pc[j] /\ SignalInv(j) /\ Target(j)' = Target(j) /\ Target(j) \in Phil
    BY <1>1, <1>4, <1>5, TargetType DEF MonitorInv, Target
  <2>2. Inside(j)
    BY <2>1 DEF Inside
  <2>3. to = "cond_wait"
    BY <1>1, <1>4, <2>1, <2>2, SemStates DEF MonitorInv, MonitorExclusion, Inside
  <2> QED BY <1>1, <1>5, <2>1, <2>3 DEF SignalInv
<1>10. QueueInv_condvar'
  <2>1. \A k \in 1..Len(mt_mutex.wait_queue) : mt_mutex.wait_queue[k] \in Phil /\ mt_mutex.wait_queue[k] # i
    <3> SUFFICES ASSUME NEW k \in 1..Len(mt_mutex.wait_queue)
                 PROVE  mt_mutex.wait_queue[k] \in Phil /\ mt_mutex.wait_queue[k] # i
      OBVIOUS
    <3>1. mt_mutex.wait_queue[k] \in Phil
      BY <1>2 DEF SemType
    <3>2. mt_pc[mt_mutex.wait_queue[k]] \in {"take_wait", "put_wait"}
      BY DEF MonitorInv, QueueInv_condvar
    <3> QED BY <1>1, <3>1, <3>2
  <2> QED BY <1>1, <1>5, <2>1 DEF MonitorInv, QueueInv_condvar
<1>11. EntryInv' /\ MonitorExclusion'
  BY <1>1, <1>6 DEF MonitorInv, EntryInv, MonitorExclusion
<1>12. NextCountInv'
  <2>1. \A j \in Phil : Signaller(j) => mt_pc'[j] = mt_pc[j]
    BY <1>1, <1>5 DEF Signaller
  <2> QED BY <1>1, <1>6, <2>1 DEF MonitorInv, NextCountInv
<1>13. GuestInv'
  <2> SUFFICES ASSUME NEW k \in Phil, NEW j \in Phil, Signaller(j), ~Inside(j), Inside(k)
               PROVE  mt_pc'[k] \in {"down_cv", "woken", "while", "leave"} /\ site'[k] = "self"
                      /\ state_condvar'[k] = "EATING"
    BY <1>6 DEF GuestInv
  <2>1. mt_pc[k] \in {"down_cv", "woken", "while", "leave"} /\ site[k] = "self" /\ state_condvar[k] = "EATING"
    BY DEF MonitorInv, GuestInv
  <2>2. k = i => to = "woken"
    BY <1>1, <1>4, SemStates DEF Inside
  <2> QED BY <1>1, <1>5, <2>1, <2>2
<1>14. NoNeighboursEating_condvar'
  BY <1>1 DEF MonitorInv, NoNeighboursEating_condvar
<1> QED BY <1>7, <1>8, <1>9, <1>10, <1>11, <1>12, <1>13, <1>14 DEF MonitorInv

\* Thread i gives the monitor up and goes outside; x is the thread that gets it, if any,
\* taken back from "next" or from the entry.
LEMMA HandOver ==
  ASSUME MonitorInv, NEW i \in Phil, Inside(i), mt_pc[i] \in {"leave", "wait"}, MonitorTypeOK', QueueInv_condvar',
         UNCHANGED <<state_condvar, next_count, cv_sem, site>>,
         \A j \in Phil \ {i} : cv_count'[j] = cv_count[j],
         LocalInv(i)', mt_pc'[i] \in {"eat", "think", "down_cv"}, cv_sem[i] = sem_init(0),
         NEW X, X \subseteq Phil \ {i}, \A j \in Phil \ ({i} \cup X) : mt_pc'[j] = mt_pc[j],
         \A x \in X : LocalInv(x)' /\ mt_pc'[x] \notin {"signal", "up_cv"},
         \A x, y \in X : x = y,
         \A j \in Phil \ ({i} \cup X) : Inside(j)' => Inside(j),
         NextCountInv', \A j \in Phil : Signaller(j)' => Inside(j)',
         mt_mutex'.value \in {0, 1}, mt_mutex'.value = 1 => X = {} /\ next_count = 0
  PROVE  MonitorInv'
<1>1. \A j \in Phil \ {i} : ~Inside(j)
  BY DEF MonitorInv, MonitorExclusion
<1>2. ~Inside(i)'
  BY SemStates DEF Inside
<1>3. \A j \in Phil : Inside(j)' => j \in X
  BY <1>1, <1>2
<1>4. \A j \in Phil : LocalInv(j)'
  <2> SUFFICES ASSUME NEW j \in Phil \ ({i} \cup X) PROVE LocalInv(j)'
    OBVIOUS
  <2>1. LocalInv(j) /\ mt_pc'[j] = mt_pc[j] /\ cv_count'[j] = cv_count[j]
    BY DEF MonitorInv
  <2> QED BY <2>1 DEF LocalInv, Dines
<1>5. \A j \in Phil : SignalInv(j)'
  <2> SUFFICES ASSUME NEW j \in Phil PROVE mt_pc'[j] \notin {"signal", "up_cv"}
    BY DEF SignalInv
  <2>1. CASE j \in X \cup {i}
    BY <2>1
  <2>2. CASE j \notin X \cup {i}
    BY <1>1, <2>2 DEF Inside
  <2> QED BY <2>1, <2>2
<1>6. EntryInv' /\ MonitorExclusion' /\ GuestInv'
  BY <1>3 DEF EntryInv, MonitorExclusion, GuestInv
<1>7. NoNeighboursEating_condvar'
  BY DEF MonitorInv, NoNeighboursEating_condvar
<1> QED BY <1>4, <1>5, <1>6, <1>7 DEF MonitorInv

LEMMA ReleaseStep ==
  ASSUME MonitorInv, NEW i \in Phil, mt_pc[i] \in {"leave", "wait"}, NEW to \in {"eat", "think", "down_cv"},
         Release(i, to), UNCHANGED <<state_condvar, next_count, cv_sem, mt_iter, site>>,
         cv_count' \in [Phil -> Nat], \A j \in Phil \ {i} : cv_count'[j] = cv_count[j],
         mt_pc'[i] = to => LocalInv(i)'
  PROVE  MonitorInv'
<1>1. /\ mt_pc \in [Phil -> Labels_condvar] /\ LocalInv(i) /\ to \in Labels_condvar
      /\ mt_mutex \in SemType(Phil) /\ mt_mutex.value \in {0, 1} /\ mt_mutex.wait_queue \in Seq(Phil)
  BY DEF MonitorInv, MonitorTypeOK, SemType, EntryInv, Labels_condvar
<1>2. Inside(i) /\ ~Signaller(i) /\ (\A j \in Phil : Inside(j) => j = i) /\ mt_mutex.value = 0
  BY <1>1 DEF Inside, Signaller, MonitorInv, MonitorExclusion, EntryInv
<1>3. cv_sem[i] = sem_init(0)
  BY <1>1 DEF LocalInv, Dines
<1>4. CASE next_count > 0
  <2>1. next' = Up(next) /\ AfterUp_condvar(i, next, to) /\ UNCHANGED <<mt_mutex, mt_current>>
    BY <1>4 DEF Release, AfterUp_condvar
  <2>2. PICK j \in Phil : /\ Signaller(j) /\ \A k \in Phil : Signaller(k) => k = j
                          /\ \/ mt_pc[j] # "next_wait" /\ next = sem_init(0)
                             \/ mt_pc[j] = "down_next" /\ next = sem_init(1)
                             \/ mt_pc[j] = "next_wait" /\ next = Waiting(j)
    BY <1>4 DEF MonitorInv, NextCountInv
  <2>3. next_count = 1 /\ j # i /\ ~Inside(j)
    BY <1>2, <1>4, <2>2 DEF MonitorInv, NextCountInv
  <2>4. \/ mt_pc[j] = "down_next" /\ next = sem_init(0)
        \/ mt_pc[j] = "next_wait" /\ next = Waiting(j)
    BY <2>2, <2>3, SemStates DEF Inside, Signaller
  <2>5. /\ mt_pc'[i] = to /\ (\A k \in Phil \ {i, j} : mt_pc'[k] = mt_pc[k]) /\ mt_pc' \in [Phil -> Labels_condvar]
        /\ next' \in SemType(Phil)
        /\ \/ mt_pc'[j] = "down_next" /\ next' = sem_init(1)
           \/ mt_pc'[j] = "signalled" /\ next' = sem_init(0)
    <3>0. "signalled" \in Labels_condvar
      BY DEF Labels_condvar
    <3>1. CASE mt_pc[j] = "down_next" /\ next = sem_init(0)
      <4>1. next' = sem_init(1) /\ Woken(next) = {}
        BY <2>1, <3>1, UpIdle
      <4>2. mt_pc' = [k \in Phil |-> IF k = i THEN to ELSE mt_pc[k]]
        BY <2>1, <4>1 DEF AfterUp_condvar
      <4> QED BY <1>1, <2>3, <3>1, <4>1, <4>2, SemStates
    <3>2. CASE mt_pc[j] = "next_wait" /\ next = Waiting(j)
      <4>1. next' = sem_init(0) /\ Woken(next) = {j}
        BY <2>1, <3>2, UpWaiting
      <4>2. mt_pc' = [k \in Phil |-> IF k = i THEN to ELSE IF k = j THEN Resume_condvar[mt_pc[k]] ELSE mt_pc[k]]
        BY <2>1, <4>1 DEF AfterUp_condvar
      <4> QED BY <1>1, <2>3, <3>0, <3>2, <4>1, <4>2, SemStates, ResumeTable_condvar
    <3> QED BY <2>4, <3>1, <3>2
  <2>6. MonitorTypeOK'
    BY <2>1, <2>5 DEF MonitorInv, MonitorTypeOK
  <2>7. QueueInv_condvar'
    <3>1. \A k \in 1..Len(mt_mutex.wait_queue) : mt_mutex.wait_queue[k] \in Phil \ {i, j}
      <4> SUFFICES ASSUME NEW k \in 1..Len(mt_mutex.wait_queue) PROVE mt_mutex.wait_queue[k] \in Phil \ {i, j}
        OBVIOUS
      <4>1. mt_mutex.wait_queue[k] \in Phil /\ mt_pc[mt_mutex.wait_queue[k]] \in {"take_wait", "put_wait"}
        BY <1>1 DEF MonitorInv, QueueInv_condvar
      <4> QED BY <2>4, <4>1
    <3> QED BY <2>1, <2>5, <3>1 DEF MonitorInv, QueueInv_condvar
  <2>8. LocalInv(j)' /\ mt_pc'[j] \notin {"signal", "up_cv"}
    <3>1. LocalInv(j) /\ cv_count'[j] = cv_count[j]
      BY <2>3 DEF MonitorInv
    <3> QED BY <2>4, <2>5, <3>1 DEF LocalInv, Dines
  <2>9. \A k \in Phil : Signaller(k)' <=> k = j
    <3>1. ~Signaller(i)' /\ Signaller(j)'
      BY <2>5 DEF Signaller
    <3>2. \A k \in Phil \ {i, j} : ~Signaller(k)'
      BY <2>2, <2>5 DEF Signaller
    <3> QED BY <2>3, <3>1, <3>2
  <2>10. Inside(j)'
    BY <2>5, SemStates DEF Inside
  <2>11. \A k \in Phil \ {i, j} : Inside(k)' => Inside(k)
    <3> SUFFICES ASSUME NEW k \in Phil \ {i, j}, Inside(k)' PROVE Inside(k)
      OBVIOUS
    <3>1. mt_pc'[k] = mt_pc[k] /\ mt_pc[k] # "down_next"
      BY <2>2, <2>5 DEF Signaller
    <3> QED BY <3>1 DEF Inside
  <2>12. NextCountInv'
    BY <2>3, <2>5, <2>9 DEF NextCountInv
  <2> QED
    <3> DEFINE X == {j}
    <3>1. X \subseteq Phil \ {i} /\ (\A x, y \in X : x = y) /\ (\A x \in X : x = j) /\ \A k \in Phil \ ({i} \cup X) : k \in Phil \ {i, j}
      BY <2>3
    <3> HIDE DEF X
    <3>2. \A x \in X : LocalInv(x)' /\ mt_pc'[x] \notin {"signal", "up_cv"}
      BY <2>8, <3>1
    <3>3. LocalInv(i)' /\ mt_mutex'.value = 0
      BY <1>2, <2>1, <2>5
    <3> QED BY <1>2, <1>3, <2>5, <2>6, <2>7, <2>9, <2>10, <2>11, <2>12, <3>1, <3>2, <3>3, HandOver
<1>5. CASE next_count = 0
  <2>1. mt_mutex' = Up(mt_mutex) /\ AfterUp_condvar(i, mt_mutex, to) /\ UNCHANGED <<next, mt_current>>
    BY <1>5 DEF Release, AfterUp_condvar
  <2>2. next = sem_init(0) /\ \A j \in Phil : ~Signaller(j)
    BY <1>5 DEF MonitorInv, NextCountInv
  <2>3. CASE mt_mutex.wait_queue = <<>>
    <3>1. mt_mutex' = [value |-> 1, wait_queue |-> <<>>] /\ Woken(mt_mutex) = {}
      BY <1>2, <2>1, <2>3 DEF Up, Woken
    <3>2. mt_pc' = [k \in Phil |-> IF k = i THEN to ELSE mt_pc[k]]
      BY <2>1, <3>1 DEF AfterUp_condvar
    <3>3. mt_pc'[i] = to /\ (\A k \in Phil \ {i} : mt_pc'[k] = mt_pc[k]) /\ mt_pc' \in [Phil -> Labels_condvar]
      BY <1>1, <3>2
    <3>4. MonitorTypeOK'
      <4>1. mt_mutex' \in SemType(Phil)
        BY <3>1 DEF SemType
      <4> QED BY <2>1, <3>3, <4>1 DEF MonitorInv, MonitorTypeOK
    <3>5. QueueInv_condvar' /\ mt_mutex'.value = 1
      <4>1. Len(mt_mutex'.wait_queue) = 0 /\ mt_mutex'.value = 1
        BY <3>1
      <4> QED BY <4>1 DEF QueueInv_condvar
    <3>6. \A k \in Phil : ~Signaller(k)'
      BY <2>2, <3>3 DEF Signaller
    <3>7. \A k \in Phil \ {i} : Inside(k)' => Inside(k)
      BY <2>1, <3>3 DEF Inside
    <3>8. NextCountInv'
      BY <1>5, <2>1, <2>2, <3>6 DEF NextCountInv
    <3> QED
      <4> DEFINE X == {}
      <4>1. X \subseteq Phil \ {i} /\ X = {} /\ \A k \in Phil \ ({i} \cup X) : k \in Phil \ {i}
        OBVIOUS
      <4> HIDE DEF X
      <4> QED BY <1>2, <1>3, <1>5, <3>3, <3>4, <3>5, <3>6, <3>7, <3>8, <4>1, HandOver
  <2>4. CASE mt_mutex.wait_queue # <<>>
    <3> DEFINE q == mt_mutex.wait_queue
    <3>1. PICK h \in Phil : h = Head(q) /\ h = q[1] /\ 1 \in 1..Len(q) /\ Len(q) \in Nat
                            /\ mt_pc[h] \in {"take_wait", "put_wait"}
      BY <1>1, <2>4, PopQueue DEF MonitorInv, QueueInv_condvar
    <3>2. h # i /\ mt_mutex' = [value |-> 0, wait_queue |-> Tail(q)] /\ Woken(mt_mutex) = {h}
      BY <1>2, <2>1, <2>4, <3>1 DEF Up, Woken
    <3>3. mt_pc' = [k \in Phil |-> IF k = i THEN to ELSE IF k = h THEN Resume_condvar[mt_pc[k]] ELSE mt_pc[k]]
      BY <2>1, <3>2 DEF AfterUp_condvar
    <3>4. /\ mt_pc'[i] = to /\ (\A k \in Phil \ {i, h} : mt_pc'[k] = mt_pc[k])
          /\ mt_pc'[h] = IF mt_pc[h] = "take_wait" THEN "hungry" ELSE "sated"
      BY <3>1, <3>2, <3>3, ResumeTable_condvar
    <3>5. mt_pc' \in [Phil -> Labels_condvar]
      <4>1. "hungry" \in Labels_condvar /\ "sated" \in Labels_condvar
        BY DEF Labels_condvar
      <4> QED BY <1>1, <3>1, <3>3, <4>1, ResumeTable_condvar
    <3>6. MonitorTypeOK'
      <4>1. mt_mutex' \in SemType(Phil)
        BY <1>1, <2>4, <3>2, PopQueue DEF SemType
      <4> QED BY <2>1, <3>5, <4>1 DEF MonitorInv, MonitorTypeOK
    <3>7. QueueInv_condvar'
      <4> DEFINE r == Tail(q)
      <4>1. /\ Len(r) = Len(q) - 1
            /\ \A k \in 1..Len(r) : r[k] = q[k+1] /\ k + 1 \in 1..Len(q) /\ q[k+1] \in Phil
        BY <1>1, <2>4, PopQueue
      <4>2. \A k, l \in 1..Len(q) : q[k] = q[l] => k = l
        BY DEF MonitorInv, QueueInv_condvar
      <4>3. \A k \in 1..Len(r) : r[k] \in Phil /\ mt_pc[r[k]] \in {"take_wait", "put_wait"}
        BY <4>1 DEF MonitorInv, QueueInv_condvar
      <4> HIDE DEF q, r
      <4>4. \A k \in 1..Len(r) : r[k] # h
        BY <3>1, <4>1, <4>2
      <4>5. \A k \in 1..Len(r) : mt_pc'[r[k]] \in {"take_wait", "put_wait"}
        BY <3>4, <4>3, <4>4
      <4>6. \A k, l \in 1..Len(r) : r[k] = r[l] => k = l
        BY <3>1, <4>1, <4>2
      <4>7. mt_mutex'.wait_queue = r
        BY <3>2 DEF r, q
      <4> QED BY <4>5, <4>6, <4>7 DEF QueueInv_condvar
    <3>8. LocalInv(h)' /\ mt_pc'[h] \notin {"signal", "up_cv"}
      <4>1. LocalInv(h) /\ cv_count'[h] = cv_count[h]
        BY <3>2 DEF MonitorInv
      <4> QED BY <3>1, <3>4, <4>1 DEF LocalInv, Dines
    <3>9. \A k \in Phil : ~Signaller(k)'
      BY <2>2, <3>4 DEF Signaller
    <3>10. \A k \in Phil \ {i, h} : Inside(k)' => Inside(k)
      BY <2>1, <3>4 DEF Inside
    <3>11. NextCountInv'
      BY <1>5, <2>1, <2>2, <3>9 DEF NextCountInv
    <3> QED
      <4> DEFINE X == {h}
      <4>1. X \subseteq Phil \ {i} /\ (\A x, y \in X : x = y) /\ (\A x \in X : x = h)
            /\ \A k \in Phil \ ({i} \cup X) : k \in Phil \ {i, h}
        BY <3>2
      <4> HIDE DEF X
      <4>2. \A x \in X : LocalInv(x)' /\ mt_pc'[x] \notin {"signal", "up_cv"}
        BY <3>8, <4>1
      <4>3. mt_mutex'.value = 0
        BY <3>2
      <4> QED BY <1>2, <1>3, <3>4, <3>6, <3>7, <3>9, <3>10, <3>11, <4>1, <4>2, <4>3, HandOver
  <2> QED BY <2>3, <2>4
<1>6. next_count \in Nat
  BY DEF MonitorInv, MonitorTypeOK
<1> QED BY <1>4, <1>5, <1>6

LEMMA LeaveStep == ASSUME MonitorInv, NEW i \in Phil, Leave(i) PROVE MonitorInv'
<1>1. /\ mt_pc[i] = "leave" /\ LocalInv(i) /\ cv_count \in [Phil -> Nat]
      /\ UNCHANGED <<state_condvar, next_count, cv_count, cv_sem, mt_iter, site>>
  BY DEF Leave, At_condvar, MonitorInv, MonitorTypeOK
<1>2. CASE site[i] = "self"
  <2>1. Release(i, "eat")
    BY <1>2 DEF Leave
  <2>2. mt_pc'[i] = "eat" => LocalInv(i)'
    BY <1>1, <1>2 DEF LocalInv, Dines
  <2> QED BY <1>1, <2>1, <2>2, ReleaseStep
<1>3. CASE site[i] # "self"
  <2>1. Release(i, "think")
    BY <1>3 DEF Leave
  <2>2. mt_pc'[i] = "think" => LocalInv(i)'
    BY <1>1, <1>3 DEF LocalInv, Dines
  <2> QED BY <1>1, <2>1, <2>2, ReleaseStep
<1> QED BY <1>2, <1>3

LEMMA WaitReleaseStep == ASSUME MonitorInv, NEW i \in Phil, WaitRelease(i) PROVE MonitorInv'
<1>1. /\ mt_pc[i] = "wait" /\ LocalInv(i) /\ cv_count \in [Phil -> Nat] /\ Release(i, "down_cv")
      /\ cv_count' = [cv_count EXCEPT ![i] = @ + 1]
      /\ UNCHANGED <<state_condvar, next_count, cv_sem, mt_iter, site>>
  BY DEF WaitRelease, At_condvar, MonitorInv, MonitorTypeOK
<1>2. cv_count' \in [Phil -> Nat] /\ cv_count'[i] = cv_count[i] + 1 /\ \A j \in Phil \ {i} : cv_count'[j] = cv_count[j]
  BY <1>1
<1>3. mt_pc'[i] = "down_cv" => LocalInv(i)'
  BY <1>1, <1>2 DEF LocalInv, Dines
<1> QED BY <1>1, <1>2, <1>3, ReleaseStep

\* Handing the CPU over changes nothing else.
LEMMA CpuStep_condvar ==
  ASSUME MonitorInv, UNCHANGED <<state_condvar, monitor, mt_pc, mt_iter, site>>, mt_current' \in Phil \cup {Idle}
  PROVE  MonitorInv'
<1>1. UNCHANGED <<state_condvar, mt_mutex, next, next_count, cv_count, cv_sem, mt_pc, mt_iter, site>>
  BY DEF monitor
<1>2. \A j \in Phil : (Inside(j)' <=> Inside(j)) /\ (Signaller(j)' <=> Signaller(j))
  BY <1>1 DEF Inside, Signaller
<1>3. MonitorTypeOK' /\ QueueInv_condvar' /\ NoNeighboursEating_condvar'
  BY <1>1 DEF MonitorInv, MonitorTypeOK, QueueInv_condvar, NoNeighboursEating_condvar
<1>4. \A j \in Phil : LocalInv(j)' /\ SignalInv(j)'
  BY <1>1 DEF MonitorInv, LocalInv, SignalInv, Target, Dines
<1>5. EntryInv' /\ MonitorExclusion' /\ NextCountInv' /\ GuestInv'
  BY <1>1, <1>2 DEF MonitorInv, EntryInv, MonitorExclusion, NextCountInv, GuestInv
<1> QED BY <1>3, <1>4, <1>5 DEF MonitorInv

LEMMA MonitorNextInv == MonitorInv /\ [MonitorNext]_monitorvars => MonitorInv'
<1> SUFFICES ASSUME MonitorInv, [MonitorNext]_monitorvars PROVE MonitorInv'
  OBVIOUS
<1>1. CASE UNCHANGED monitorvars
  BY <1>1, CpuStep_condvar DEF monitorvars, MonitorInv, MonitorTypeOK
<1>2. CASE cpu_idle_condvar \/ Preempt_condvar
  BY <1>2, CpuStep_condvar, ScheduleType_condvar DEF cpu_idle_condvar, Preempt_condvar
<1>3. ASSUME NEW i \in Phil, philosopher_using_condvar(i) \/ TimerWakes_condvar(i)
      PROVE  MonitorInv'
  <2>1. CASE Think_condvar(i) \/ Eat_condvar(i) \/ TimerWakes_condvar(i)
    BY <2>1, OutsideStep
  <2>2. CASE cond_signal(i)
    <3>1. CASE SignalNobody(i)
      BY <3>1, AfterTestStep DEF SignalNobody, At_condvar
    <3> QED BY <2>2, <3>1, AnnounceStep, SignalUpStep, SignalDownStep, SignalReturnStep DEF cond_signal
  <2>3. CASE cond_wait(i)
    BY <2>3, WaitReleaseStep, WaitDownStep, WhileStep DEF cond_wait
  <2>4. CASE Enter(i) \/ SetHungry(i) \/ SetThinking(i) \/ phi_test_condvar(i) \/ While(i) \/ Leave(i)
    BY <2>4, EnterStep, SetStateStep_condvar, TestStep_condvar, WhileStep, LeaveStep
  <2> QED BY <1>3, <2>1, <2>2, <2>3, <2>4 DEF philosopher_using_condvar
<1> QED BY <1>1, <1>2, <1>3 DEF MonitorNext

-----------------------------------------------------------------------------
\* The monitor's counters and semaphores keep their types.
THEOREM MonitorTypeCorrect == MonitorSpec => []MonitorTypeOK
<1>1. MonitorInv => MonitorTypeOK
  BY DEF MonitorInv
<1> QED BY <1>1, MonitorInitInv, MonitorNextInv, PTL DEF MonitorSpec

\* Hoare's monitor as monitor.c builds it out of semaphores: at most one thread is inside,
\* a waiter returns from cond_wait with its condition true, and neighbours never eat
\* together, for every number of philosophers and every interleaving.
THEOREM MonitorKeepsItsPromises == MonitorSpec => []MonitorIsSound
<1>1. MonitorInv => MonitorIsSound
  <2> SUFFICES ASSUME MonitorInv PROVE MonitorIsSound
    OBVIOUS
  <2>1. SignalledMeansEating
    BY DEF MonitorInv, LocalInv, SignalledMeansEating, Dines
  <2>2. \A i \in Phil : Dining_condvar(i) => state_condvar[i] = "EATING"
    BY DEF MonitorInv, LocalInv, Dining_condvar, Dines
  <2>3. NeighboursNeverDineTogether_condvar
    BY <2>2, Neighbours DEF MonitorInv, NoNeighboursEating_condvar, NeighboursNeverDineTogether_condvar
  <2> QED BY <2>1, <2>3 DEF MonitorInv, MonitorIsSound
<1> QED BY <1>1, MonitorInitInv, MonitorNextInv, PTL DEF MonitorSpec

\* cond_signal does not nest: at most one signaller waits in "next" to get the monitor
\* back, so that a semaphore is enough for it.
THEOREM SignallersDoNotNest == MonitorSpec => [](next_count \in {0, 1} /\ Len(next.wait_queue) <= 1)
<1>1. MonitorInv => next_count \in {0, 1} /\ Len(next.wait_queue) <= 1
  <2> SUFFICES ASSUME MonitorInv PROVE next_count \in {0, 1} /\ Len(next.wait_queue) <= 1
    OBVIOUS
  <2>1. next_count \in {0, 1} /\ (next = sem_init(0) \/ next = sem_init(1) \/ \E j \in Phil : next = Waiting(j))
    BY DEF MonitorInv, NextCountInv
  <2>2. CASE next = sem_init(0) \/ next = sem_init(1)
    <3>1. next.wait_queue = <<>>
      BY <2>2 DEF sem_init
    <3> QED BY <2>1, <3>1
  <2>3. ASSUME NEW j \in Phil, next = Waiting(j) PROVE Len(next.wait_queue) <= 1
    <3>1. next.wait_queue = <<j>>
      BY <2>3 DEF Waiting
    <3> QED BY <3>1
  <2> QED BY <2>1, <2>2, <2>3
<1> QED BY <1>1, MonitorInitInv, MonitorNextInv, PTL DEF MonitorSpec
=============================================================================
