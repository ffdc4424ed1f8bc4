----------------------------- MODULE Processes ------------------------------
(* What the kernel keeps about processes, checked in one run: the process     *)
(* table (ProcTable), the readers that wait for the keyboard (Stdin), the      *)
(* timers of processes in do_sleep, and the thread list of the earlier kernel. *)
(* They share no state.  In a behaviour one of them takes steps, the others    *)
(* stay in their initial states.                                               *)
EXTENDS ProcTable, Stdin, TimerList, Threads

VARIABLE part          \* the component that takes steps

partvars == <<allVars, timervars, stdinvars, tvars, part>>

PartsInit ==
  /\ part \in {"table", "timers", "stdin", "threads"}
  /\ ProcInit /\ TimerInit /\ StdinInit /\ ThreadInit

Table    == part = "table" /\ UNCHANGED <<timervars, stdinvars, tvars, part>>
Timers   == part = "timers" /\ UNCHANGED <<allVars, stdinvars, tvars, part>>
Keyboard == part = "stdin" /\ UNCHANGED <<allVars, timervars, tvars, part>>
Earlier  == part = "threads" /\ UNCHANGED <<allVars, timervars, stdinvars, part>>

PartsNext ==
  \/ Table /\ TableNext
  \/ Timers /\ TimerNext
  \/ Keyboard /\ StdinNext
  \/ Earlier /\ ThreadNext

\* get_pid runs to its end with interrupts disabled; the earlier kernel does not stop; a
\* runnable reader gets the CPU.  Nobody has to type.
PartsFairness ==
  /\ WF_partvars((Table /\ (fork_loop \/ fork_done)) \/ (Earlier /\ ThreadNext))
  /\ \A r \in Readers : WF_partvars(Keyboard /\ (ReadWakes(r) \/ TrapExit(r)))

PartsSpec == PartsInit /\ [][PartsNext]_partvars /\ PartsFairness
=============================================================================
