--------------------------------- MODULE Sem ---------------------------------
(* Kernel semaphores (kern/sync/sem.c) over wait queues (kern/sync/wait.c), as *)
(* operators on a record [value, wait_queue].  Each operator is the section    *)
(* that the code runs with interrupts disabled; the module that uses it says   *)
(* what the calling process does next.                                         *)
EXTENDS Integers, Sequences

SemType(P) == [value : Nat, wait_queue : Seq(P)]

sem_init(v) == [value |-> v, wait_queue |-> <<>>]

\* __down goes to sleep instead of taking the semaphore.
Blocks(sem) == sem.value = 0

\* __down by process p: take the semaphore, or join the tail of its queue.
Down(sem, p) ==
  IF Blocks(sem)
  THEN [value |-> sem.value,     wait_queue |-> Append(sem.wait_queue, p)]
  ELSE [value |-> sem.value - 1, wait_queue |-> sem.wait_queue]

\* Faulty __up: raises the value even when it hands the semaphore over.
Up_AlsoIncrements(sem) ==
  [value      |-> sem.value + 1,
   wait_queue |-> IF sem.wait_queue = <<>> THEN <<>> ELSE Tail(sem.wait_queue)]

\* __up: with a waiter the semaphore goes straight to it (wakeup_wait, del = 1)
\* and the value stays 0, so a later arrival cannot take it first.
Up(sem) ==
  IF sem.wait_queue = <<>>
  THEN [value |-> sem.value + 1, wait_queue |-> <<>>]
  ELSE [value |-> sem.value,     wait_queue |-> Tail(sem.wait_queue)]

\* The process __up wakes, if any.
Woken(sem) == IF sem.wait_queue = <<>> THEN {} ELSE {Head(sem.wait_queue)}

=============================================================================
