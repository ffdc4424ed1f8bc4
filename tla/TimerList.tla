------------------------------ MODULE TimerList ------------------------------
(* The kernel's timer list (kern/schedule/sched.c).  timer_list is a delta     *)
(* list: a node's "expires" counts from the moment the node before it fires,   *)
(* so that a clock tick touches only the head.  Each process owns at most one  *)
(* timer, the one on its kernel stack in do_sleep, so a node is named by its   *)
(* process.  ImplementsDeadlines says the list computes Deadlines.              *)
EXTENDS Integers, Sequences, SequencesExt, FiniteSetsExt

CONSTANTS Sleeping,  \* processes that call do_sleep
          MAX_TIME   \* bound on the time of do_sleep, in ticks

ASSUME TimerListAssumption == MAX_TIME \in Nat \ {0}

VARIABLES timer_list,  \* sequence of [proc, expires], head first
          fired        \* processes handed to wakeup_proc by the latest tick

timervars == <<timer_list, fired>>

Timer == [proc : Sleeping, expires : 0..MAX_TIME]

Linked == {timer_list[i].proc : i \in DOMAIN timer_list}

IndexOf(p) == CHOOSE i \in DOMAIN timer_list : timer_list[i].proc = p

\* Ticks until the n-th node of list q fires: the sum of the deltas up to it.
Elapsed(q, n) ==
  LET sum[k \in 0..Len(q)] == IF k = 0 THEN 0 ELSE sum[k - 1] + q[k].expires
  IN  sum[n]

-----------------------------------------------------------------------------
TimerInit ==
  /\ timer_list = <<>>
  /\ fired = {}

\* Where the loop of add_timer stops for a timer of t ticks: before the first
\* node that fires strictly later, else at the end of the list.
Position(q, t) == Min({i \in DOMAIN q : t < Elapsed(q, i)} \cup {Len(q) + 1})

\* Faulty add_timer: leaves the node after the new one counting as before.
add_timer_KeepsNext(p, t) ==
  /\ p \notin Linked
  /\ LET at    == Position(timer_list, t)
         delta == t - Elapsed(timer_list, at - 1)
     IN  timer_list' = InsertAt(timer_list, at, [proc |-> p, expires |-> delta])
  /\ fired' = {}

\* add_timer: the new node keeps what is left of t after the nodes before it,
\* and the node after it counts from the new one.
add_timer(p, t) ==
  /\ p \notin Linked
  /\ LET at    == Position(timer_list, t)
         delta == t - Elapsed(timer_list, at - 1)
         later == IF at \in DOMAIN timer_list
                  THEN [timer_list EXCEPT ![at].expires = @ - delta]
                  ELSE timer_list
     IN  timer_list' = InsertAt(later, at, [proc |-> p, expires |-> delta])
  /\ fired' = {}

\* del_timer: the node after the deleted one inherits its delta.  A timer that
\* already fired is no longer linked, and deleting it does nothing.
del_timer(p) ==
  /\ timer_list' =
       IF p \notin Linked THEN timer_list
       ELSE LET i == IndexOf(p) IN
            RemoveAt(IF i < Len(timer_list)
                     THEN [timer_list EXCEPT ![i+1].expires = @ + timer_list[i].expires]
                     ELSE timer_list, i)
  /\ fired' = {}

\* run_timer_list, called by the clock interrupt: count the head down, then
\* wake and unlink nodes from the head for as long as they have expired.
run_timer_list ==
  IF timer_list = <<>>
  THEN /\ fired' = {}
       /\ UNCHANGED timer_list
  ELSE LET ticked  == [timer_list EXCEPT ![1].expires = @ - 1]
           expired == Max({n \in 0..Len(ticked) :
                             \A i \in 1..n : ticked[i].expires = 0})
       IN  /\ fired' = {ticked[i].proc : i \in 1..expired}
           /\ timer_list' = SubSeq(ticked, expired + 1, Len(ticked))

TimerNext ==
  \/ \E p \in Sleeping, t \in 1..MAX_TIME : add_timer(p, t)
  \/ \E p \in Sleeping : del_timer(p)
  \/ run_timer_list

TimerSpec == TimerInit /\ [][TimerNext]_timervars

-----------------------------------------------------------------------------
TimerTypeOK ==
  /\ timer_list \in Seq(Timer)
  /\ fired \subseteq Sleeping

\* Ticks that are left to the sleepers.
Remaining == [p \in Sleeping |->
                IF p \in Linked THEN Elapsed(timer_list, IndexOf(p)) ELSE 0]

Due == INSTANCE Deadlines WITH Procs <- Sleeping, remaining <- Remaining

\* Every sleeper is woken by exactly the tick that it asked for, whatever timers are
\* added, deleted or fire in between: the delta list of add_timer, del_timer and
\* run_timer_list (sched.c) implements Deadlines.
ImplementsDeadlines == Due!Spec
=============================================================================
