------------------------------- MODULE Stride -------------------------------
(* The stride scheduler (kern/schedule/default_sched.c).  A process advances   *)
(* its stride by BIG_STRIDE / priority each time it is picked, and the process *)
(* with the least stride is picked.  Strides are unsigned machine words that   *)
(* wrap around; they are compared through the sign of their difference.        *)
(*                                                                             *)
(* Two variables are not in the code, they are here to say what it is meant to *)
(* do: "pass" is the stride as it would be without wrapping, and "late" says   *)
(* whether a process has ever entered the run queue, after a sleep or as a new *)
(* process, more than BIG_STRIDE away from one that was runnable then.         *)
EXTENDS Integers

CONSTANTS Procs,
          MOD,             \* number of values of a stride, 2^32 in the code
          BIG_STRIDE,      \* MOD/2 - 1, 0x7FFFFFFF in the code
          Priorities,      \* arguments of lab6_set_priority
          MAX_TIME_SLICE,  \* rq->max_time_slice
          MAX_PASS,        \* bound on pass in the model
          NULL

ASSUME StrideAssumption ==
  /\ MOD \in Nat /\ BIG_STRIDE \in Nat /\ BIG_STRIDE > 0
  /\ MOD = 2 * BIG_STRIDE + 2
  /\ Priorities \subseteq Nat
  /\ MAX_TIME_SLICE \in Nat \ {0}
  /\ MAX_PASS \in Nat
  /\ NULL \notin Procs

VARIABLES rq,            \* processes in the run queue
          current,       \* the running process; NULL while idleproc runs
          lab6_stride, lab6_priority, time_slice,
          need_resched,  \* the flag of the running process
          pass, late

vars == <<rq, current, lab6_stride, lab6_priority, time_slice, need_resched, pass, late>>

Runnable == rq \cup (IF current = NULL THEN {} ELSE {current})

\* Faulty conversion: the difference is taken as unsigned.
Signed_Unsigned(x) == x

\* A machine word read as a signed number.
Signed(x) == IF x <= BIG_STRIDE THEN x ELSE x - MOD

\* proc_stride_comp_f: negative if p comes first.
proc_stride_comp_f(p, q) == Signed((lab6_stride[p] - lab6_stride[q]) % MOD)

\* Faulty step: priorities scale the step up instead of down.
Step_Multiplies(p) == IF lab6_priority[p] = 0 THEN BIG_STRIDE ELSE BIG_STRIDE * lab6_priority[p]

\* How far a process advances when picked.
Step(p) == IF lab6_priority[p] = 0 THEN BIG_STRIDE ELSE BIG_STRIDE \div lab6_priority[p]

\* The processes that can be at the root of the heap over Q.  If the order has
\* a cycle, no process comes before all others and any may be at the root.
Roots(Q) ==
  LET first == {p \in Q : \A q \in Q : proc_stride_comp_f(p, q) <= 0}
  IN  IF first = {} THEN Q ELSE first

-----------------------------------------------------------------------------
\* Some processes are in the run queue, the others are asleep or not yet created.
Init ==
  /\ rq \in SUBSET Procs
  /\ current = NULL
  /\ lab6_stride = [p \in Procs |-> 0]
  /\ lab6_priority = [p \in Procs |-> 0]
  /\ time_slice = [p \in Procs |-> IF p \in rq THEN MAX_TIME_SLICE ELSE 0]
  /\ need_resched = TRUE
  /\ pass = [p \in Procs |-> 0]
  /\ late = FALSE

\* stride_enqueue: a process that has used up its time slice gets a new one.
Refilled(p) ==
  IF time_slice[p] = 0 \/ time_slice[p] > MAX_TIME_SLICE THEN MAX_TIME_SLICE ELSE time_slice[p]

\* stride_pick_next and stride_dequeue on queue Q.
PickFrom(Q) ==
  IF Q = {}
  THEN current' = NULL /\ rq' = {} /\ UNCHANGED <<lab6_stride, pass>>
  ELSE \E p \in Roots(Q) :
         /\ current' = p
         /\ rq' = Q \ {p}
         /\ lab6_stride' = [lab6_stride EXCEPT ![p] = (@ + Step(p)) % MOD]
         /\ pass' = [pass EXCEPT ![p] = @ + Step(p)]
         /\ pass[p] + Step(p) <= MAX_PASS

\* schedule() by a process that stays RUNNABLE, or by idleproc in cpu_idle.
schedule ==
  /\ need_resched
  /\ need_resched' = FALSE
  /\ IF current = NULL
     THEN PickFrom(rq) /\ UNCHANGED time_slice
     ELSE /\ time_slice' = [time_slice EXCEPT ![current] = Refilled(current)]
          /\ PickFrom(rq \cup {current})
  /\ UNCHANGED <<lab6_priority, late>>

\* schedule() by a process that has gone to sleep or is a zombie.
Block ==
  /\ current # NULL
  /\ need_resched' = FALSE
  /\ PickFrom(rq)
  /\ UNCHANGED <<lab6_priority, time_slice, late>>

\* Not more than BIG_STRIDE apart.
Close(p, q) == pass[p] - pass[q] <= BIG_STRIDE /\ pass[q] - pass[p] <= BIG_STRIDE

\* wakeup_proc on a process that slept, with the stride it had, or that was just
\* created, with stride 0.
Wake(p) ==
  /\ p \notin Runnable
  /\ rq' = rq \cup {p}
  /\ time_slice' = [time_slice EXCEPT ![p] = Refilled(p)]
  /\ late' = (late \/ \E q \in Runnable : ~Close(p, q))
  /\ UNCHANGED <<current, lab6_stride, lab6_priority, need_resched, pass>>

do_yield ==
  /\ current # NULL
  /\ need_resched' = TRUE
  /\ UNCHANGED <<rq, current, lab6_stride, lab6_priority, time_slice, pass, late>>

\* stride_proc_tick.
proc_tick ==
  /\ current # NULL
  /\ LET left == IF time_slice[current] > 0 THEN time_slice[current] - 1 ELSE 0
     IN  /\ time_slice' = [time_slice EXCEPT ![current] = left]
         /\ need_resched' = (need_resched \/ left = 0)
  /\ UNCHANGED <<rq, current, lab6_stride, lab6_priority, pass, late>>

\* sched_class_proc_tick while idleproc runs.
idle_tick ==
  /\ current = NULL
  /\ need_resched' = TRUE
  /\ UNCHANGED <<rq, current, lab6_stride, lab6_priority, time_slice, pass, late>>

lab6_set_priority(priority) ==
  /\ current # NULL
  /\ lab6_priority' = [lab6_priority EXCEPT ![current] = IF priority = 0 THEN 1 ELSE priority]
  /\ UNCHANGED <<rq, current, lab6_stride, time_slice, need_resched, pass, late>>

Next ==
  \/ schedule \/ Block \/ do_yield \/ proc_tick \/ idle_tick
  \/ \E p \in Procs : Wake(p)
  \/ \E priority \in Priorities : lab6_set_priority(priority)

Spec == Init /\ [][Next]_vars

-----------------------------------------------------------------------------
TypeOK ==
  /\ rq \subseteq Procs
  /\ current \in Procs \cup {NULL}
  /\ lab6_stride \in [Procs -> 0..MOD-1]
  /\ lab6_priority \in [Procs -> Nat]
  /\ time_slice \in [Procs -> 0..MAX_TIME_SLICE]
  /\ need_resched \in BOOLEAN
  /\ pass \in [Procs -> Nat]
  /\ late \in BOOLEAN

\* Unless a process has come late, no runnable process gets further ahead of
\* another than BIG_STRIDE: the CPU is shared in proportion to the priorities, up
\* to one turn.
SpreadBounded ==
  ~late => \A p, q \in Runnable : pass[p] - pass[q] <= BIG_STRIDE

\* Unless a process has come late, the sign of the wrapped difference orders any
\* two runnable processes as their unwrapped strides do, also when one stride has
\* wrapped around and the other has not.
ComparisonIsRight ==
  ~late => \A p, q \in Runnable : proc_stride_comp_f(p, q) = pass[p] - pass[q]

\* The process given the CPU had the least unwrapped stride of the run queue.
PickIsLeast ==
  current' # current /\ current' # NULL => \A q \in rq : pass[current'] <= pass[q]

\* Unless a process has come late, every step of the scheduler that hands over the
\* CPU gives it to the process with the least unwrapped stride of all candidates.
PicksMinimum == [][~late => PickIsLeast]_vars
=============================================================================
