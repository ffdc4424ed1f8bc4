---------------------------- MODULE Philosophers ----------------------------
(* Both versions of check_sync.c in one run: the philosophers with semaphores  *)
(* (PhiloSema) and those with a monitor (PhiloMonitor).  init_main starts them *)
(* together, but they share no variable of check_sync.c.  In a behaviour one   *)
(* version takes steps, the other stays in its initial state.                  *)
EXTENDS PhiloMonitor

VARIABLE part          \* the version that takes steps

allvars == <<vars, monitorvars, part>>

BothInit == part \in {"sema", "monitor"} /\ Init /\ MonitorInit

Sema    == part = "sema" /\ UNCHANGED <<monitorvars, part>>
Monitor == part = "monitor" /\ UNCHANGED <<vars, part>>

BothNext == (Sema /\ Next) \/ (Monitor /\ MonitorNext)

Thread(i) == (Sema /\ philosopher_using_semaphore(i)) \/ (Monitor /\ philosopher_using_condvar(i))
Given(i)  == (Sema /\ Dispatch(i)) \/ (Monitor /\ Dispatch_condvar(i))
Wakes(i)  == (Sema /\ TimerWakes(i)) \/ (Monitor /\ TimerWakes_condvar(i))
Idles     == (Sema /\ cpu_idle) \/ (Monitor /\ cpu_idle_condvar)

\* Timers expire, and the CPU is shared: a runnable thread is dispatched again and
\* again and makes progress.  Preemption itself is never forced, so behaviours in
\* which threads only give way in schedule() are included.
Fairness ==
  /\ \A i \in Phil : SF_allvars(Thread(i)) /\ WF_allvars(Wakes(i)) /\ SF_allvars(Given(i))
  /\ WF_allvars(Idles)

BothSpec == BothInit /\ [][BothNext]_allvars /\ Fairness

-----------------------------------------------------------------------------
\* Every philosopher eats TIMES times and quits, in both versions, so that the do_wait
\* loop of init_main can end.
EveryoneFinishes == <>(IF part = "sema" THEN Finished ELSE Finished_condvar)
=============================================================================
