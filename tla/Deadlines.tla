------------------------------ MODULE Deadlines ------------------------------
(* What the kernel timer promises a sleeper (kern/schedule/sched.h, timer_t):  *)
(* a timer armed for t ticks wakes its process at exactly the t-th clock tick  *)
(* from then on, unless it is deleted first.  There is no list here, only the  *)
(* number of ticks each armed timer still has to wait.                         *)
EXTENDS Naturals

CONSTANTS Procs,      \* processes that may arm a timer (at most one each)
          MAX_TIME    \* bound on the argument of do_sleep

VARIABLES remaining,  \* remaining[p]: ticks until p's timer fires, 0 if unarmed
          fired       \* processes woken by the latest tick

vars == <<remaining, fired>>

Armed == {p \in Procs : remaining[p] > 0}

Init ==
  /\ remaining = [p \in Procs |-> 0]
  /\ fired = {}

Add(p, t) ==
  /\ p \notin Armed
  /\ remaining' = [remaining EXCEPT ![p] = t]
  /\ fired' = {}

Del(p) ==
  /\ remaining' = [remaining EXCEPT ![p] = 0]
  /\ fired' = {}

Tick ==
  /\ remaining' = [p \in Procs |-> IF p \in Armed THEN remaining[p] - 1 ELSE 0]
  /\ fired' = {p \in Procs : remaining[p] = 1}

Next ==
  \/ \E p \in Procs, t \in 1..MAX_TIME : Add(p, t)
  \/ \E p \in Procs : Del(p)
  \/ Tick

Spec == Init /\ [][Next]_vars
=============================================================================
