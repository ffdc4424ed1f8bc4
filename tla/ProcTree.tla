------------------------------ MODULE ProcTree ------------------------------
(* What the family links of processes (kern/process/proc.c) stand for: every   *)
(* process has a list of its children, youngest first.                         *)
EXTENDS Sequences, SequencesExt

CONSTANTS Procs, idleproc, initproc

VARIABLE children  \* children[p]: the children of p, youngest first

Linked == UNION {ToSet(children[p]) : p \in Procs}

Init == children = [p \in Procs |-> IF p = idleproc THEN <<initproc>> ELSE <<>>]

\* p gets a new child.
Fork(p, c) ==
  /\ c \notin Linked \cup {idleproc}
  /\ children' = [children EXCEPT ![p] = <<c>> \o @, ![c] = <<>>]

\* The youngest child of p becomes the youngest child of initproc.
Adopt(p) ==
  /\ p # initproc /\ children[p] # <<>>
  /\ children' = [children EXCEPT ![p] = Tail(@),
                                  ![initproc] = <<Head(children[p])>> \o @]

\* A child of p without children of its own goes away.
Reap(p, c) ==
  /\ children[c] = <<>>
  /\ \E k \in DOMAIN children[p] :
       children[p][k] = c /\ children' = [children EXCEPT ![p] = RemoveAt(@, k)]

Next ==
  \E p \in Procs : Adopt(p) \/ \E c \in Procs : Fork(p, c) \/ Reap(p, c)

Spec == Init /\ [][Next]_children
=============================================================================
