----------------------------- MODULE Isolation ------------------------------
(* What address spaces promise to user programs (kern/mm/vmm.c and the parts   *)
(* of kern/process/proc.c that handle mm_struct): every space is memory of its *)
(* own.  A step changes one space, and a forked space is a copy.               *)
CONSTANTS Spaces, Addrs, Values,
          NONE      \* the contents of an address without memory

VARIABLES view,     \* view[s][a], all NONE in a space that is not in use
          active    \* the space of the running process, NONE for a kernel thread

vars == <<view, active>>

Empty == [a \in Addrs |-> NONE]

Init ==
  /\ view = [s \in Spaces |-> Empty]
  /\ active = NONE

Store(a, v) ==
  /\ active # NONE
  /\ view' = [view EXCEPT ![active][a] = v]
  /\ UNCHANGED active

\* A page that is touched for the first time has any contents.
Touch(a) ==
  /\ active # NONE /\ view[active][a] = NONE
  /\ \E v \in Values : view' = [view EXCEPT ![active][a] = v]
  /\ UNCHANGED active

\* The kernel stores several values for the running process.
Copy ==
  /\ active # NONE
  /\ \A s \in Spaces \ {active} : view'[s] = view[s]
  /\ UNCHANGED active

Fork(s) ==
  /\ active # NONE /\ view[s] = Empty
  /\ view' = [view EXCEPT ![s] = view[active]]
  /\ UNCHANGED active

\* The running process gets a new space; its old one goes, or stays with others.
Exec(s) ==
  /\ \A x \in Spaces \ {s} :
       view'[x] = view[x] \/ (x = active /\ view'[x] = Empty)
  /\ view[s] = Empty \/ s = active
  /\ active' = s

Exit ==
  /\ \/ UNCHANGED view
     \/ active # NONE /\ view' = [view EXCEPT ![active] = Empty]
  /\ active' \in Spaces \cup {NONE}

Next ==
  \/ \E a \in Addrs : Touch(a) \/ \E v \in Values : Store(a, v)
  \/ Copy \/ Exit
  \/ \E s \in Spaces : Fork(s) \/ Exec(s)

Spec == Init /\ [][Next]_vars
=============================================================================
