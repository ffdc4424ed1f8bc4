--------------------------- MODULE ProcTable_proof ---------------------------
(* Process ids are unique for every MAX_PROCESS and MAX_PID, and the process   *)
(* table is consistent, for every set of processes, and implements the lists   *)
(* of children of ProcTree.                                                    *)
EXTENDS ProcTable, SequenceTheorems, FiniteSetTheorems, WellFoundedInduction, TLAPS

-----------------------------------------------------------------------------
(* Pid allocation (module GetPid). *)

\* What the scan knows about the entries it has passed: the candidate is not
\* among them, and those above it bound the safe interval.
ScanSound ==
  IF scanning
  THEN /\ last_pid < next_safe /\ last_pid < MAX_PID
       /\ \A k \in 1..le : /\ proc_list[k] # last_pid
                           /\ proc_list[k] > last_pid => next_safe <= proc_list[k]
  ELSE le = 0

Inv == TypeOK /\ PidsAreUnique /\ IntervalIsFree /\ ScanSound

-----------------------------------------------------------------------------
\* The entries of the list are pids.
LEMMA Entries ==
  ASSUME TypeOK, NEW k \in 1..Len(proc_list)
  PROVE  proc_list[k] \in 1..MAX_PID-1
BY ElementOfSeq DEF TypeOK

\* What it is to put an id in front of the list.
LEMMA LinkFacts ==
  ASSUME NEW id \in 1..MAX_PID-1, proc_list \in Seq(1..MAX_PID-1), Link(id)
  PROVE  /\ proc_list' \in Seq(1..MAX_PID-1)
         /\ Len(proc_list') = Len(proc_list) + 1
         /\ proc_list'[1] = id
         /\ \A k \in 2..Len(proc_list') : k - 1 \in 1..Len(proc_list) /\ proc_list'[k] = proc_list[k-1]
BY DEF Link

\* Linking an id that no process has keeps the ids unique.
LEMMA LinkKeepsUnique ==
  ASSUME NEW id \in 1..MAX_PID-1, proc_list \in Seq(1..MAX_PID-1), Link(id),
         PidsAreUnique, \A k \in 1..Len(proc_list) : proc_list[k] # id
  PROVE  PidsAreUnique'
<1> SUFFICES ASSUME NEW j \in 1..Len(proc_list'), NEW k \in 1..Len(proc_list'),
                    proc_list'[j] = proc_list'[k]
             PROVE  j = k
  BY DEF PidsAreUnique
<1>1. Len(proc_list) \in Nat /\ Len(proc_list') = Len(proc_list) + 1
  BY LinkFacts
<1>2. CASE j = 1 /\ k = 1
  BY <1>2
<1>3. CASE j = 1 /\ k # 1
  BY <1>1, <1>3, LinkFacts
<1>4. CASE j # 1 /\ k = 1
  BY <1>1, <1>4, LinkFacts
<1>5. CASE j # 1 /\ k # 1
  BY <1>1, <1>5, LinkFacts DEF PidsAreUnique
<1> QED BY <1>2, <1>3, <1>4, <1>5

LEMMA InitInv == Init => Inv
<1> SUFFICES ASSUME Init PROVE Inv
  OBVIOUS
<1>1. proc_list \in Seq(1..MAX_PID-1) /\ Len(proc_list) = 0
  BY EmptySeq DEF Init
<1>2. TypeOK
  <2>1. MAX_PID \in 1..MAX_PID /\ 0 \in 0..Len(proc_list)
    BY <1>1, PidAssumption
  <2> QED BY <1>1, <2>1 DEF Init, TypeOK
<1>3. PidsAreUnique /\ IntervalIsFree /\ ScanSound
  BY <1>1 DEF Init, PidsAreUnique, IntervalIsFree, InUse, ScanSound
<1> QED BY <1>2, <1>3 DEF Inv

LEMMA FastInv == Inv /\ get_pid_fast => Inv'
<1> SUFFICES ASSUME Inv, get_pid_fast PROVE Inv'
  OBVIOUS
<1>1. last_pid + 1 \in 1..MAX_PID-1 /\ last_pid + 1 < next_safe
  BY PidAssumption DEF get_pid_fast, Inv, TypeOK
<1>2. Link(last_pid + 1) /\ last_pid' = last_pid + 1 /\ UNCHANGED <<next_safe, scanning, le>> /\ ~scanning
  BY DEF get_pid_fast
<1>3. \A k \in 1..Len(proc_list) : proc_list[k] # last_pid + 1
  <2> SUFFICES ASSUME NEW k \in 1..Len(proc_list), proc_list[k] = last_pid + 1 PROVE FALSE
    OBVIOUS
  <2>1. ~(last_pid < proc_list[k] /\ proc_list[k] < next_safe)
    BY <1>2 DEF Inv, IntervalIsFree, InUse
  <2> QED BY <1>1, <2>1 DEF Inv, TypeOK
<1>4. PidsAreUnique'
  BY <1>1, <1>2, <1>3, LinkKeepsUnique DEF Inv, TypeOK
<1>5. TypeOK'
  BY <1>1, <1>2, LinkFacts, PidAssumption DEF Inv, TypeOK
<1>6. IntervalIsFree'
  <2> SUFFICES ASSUME NEW k \in 1..Len(proc_list')
               PROVE  ~(last_pid' < proc_list'[k] /\ proc_list'[k] < next_safe')
    BY DEF IntervalIsFree, InUse
  <2>1. CASE k = 1
    BY <1>1, <1>2, <2>1, LinkFacts DEF Inv, TypeOK
  <2>2. CASE k # 1
    <3>1. k - 1 \in 1..Len(proc_list) /\ proc_list'[k] = proc_list[k-1]
      BY <1>1, <1>2, <2>2, LinkFacts DEF Inv, TypeOK
    <3>2. proc_list[k-1] \in 1..MAX_PID-1
      BY <3>1, Entries DEF Inv
    <3>3. ~(last_pid < proc_list[k-1] /\ proc_list[k-1] < next_safe)
      BY <1>2, <3>1 DEF Inv, IntervalIsFree, InUse
    <3> QED BY <1>2, <3>1, <3>2, <3>3 DEF Inv, TypeOK
  <2> QED BY <2>1, <2>2
<1>7. ScanSound'
  BY <1>2 DEF Inv, ScanSound
<1> QED BY <1>4, <1>5, <1>6, <1>7 DEF Inv

LEMMA ScanInv == Inv /\ get_pid_scan => Inv'
<1> SUFFICES ASSUME Inv, get_pid_scan PROVE Inv'
  OBVIOUS
<1>1. TypeOK'
  BY PidAssumption DEF get_pid_scan, Inv, TypeOK
<1>2. PidsAreUnique' /\ IntervalIsFree'
  BY DEF get_pid_scan, Inv, PidsAreUnique, IntervalIsFree
<1>3. ScanSound'
  BY PidAssumption DEF get_pid_scan, Inv, TypeOK, ScanSound
<1> QED BY <1>1, <1>2, <1>3 DEF Inv

LEMMA LoopInv == Inv /\ get_pid_loop => Inv'
<1> SUFFICES ASSUME Inv, get_pid_loop PROVE Inv'
  OBVIOUS
<1> DEFINE id == proc_list[le + 1]
<1>1. scanning /\ scanning' /\ UNCHANGED proc_list /\ le < Len(proc_list)
  BY DEF get_pid_loop, Inv, TypeOK
<1>2. le + 1 \in 1..Len(proc_list) /\ id \in 1..MAX_PID-1
  <2>1. le \in Nat /\ Len(proc_list) \in Nat
    BY LenProperties DEF Inv, TypeOK
  <2>2. le + 1 \in 1..Len(proc_list)
    BY <1>1, <2>1
  <2> QED BY <2>2, Entries DEF Inv
<1>3. /\ last_pid < next_safe /\ last_pid < MAX_PID
      /\ \A k \in 1..le : /\ proc_list[k] # last_pid
                          /\ proc_list[k] > last_pid => next_safe <= proc_list[k]
  BY <1>1 DEF Inv, ScanSound
<1>4. PidsAreUnique' /\ IntervalIsFree'
  BY <1>1 DEF Inv, PidsAreUnique, IntervalIsFree
<1>5. \A k \in 1..Len(proc_list) : proc_list[k] \in 1..MAX_PID-1
  BY Entries DEF Inv
<1>6. CASE Collision(id)
  <2>1. TypeOK'
    BY <1>1, <1>2, <1>6, PidAssumption DEF Inv, TypeOK, Collision
  <2>2. ScanSound'
    <3>1. CASE last_pid + 1 >= next_safe
      <4>1. le' = 0 /\ next_safe' = MAX_PID /\ last_pid' = IF last_pid + 1 >= MAX_PID THEN 1 ELSE last_pid + 1
        BY <1>6, <3>1 DEF Collision
      <4>2. last_pid' < next_safe' /\ last_pid' < MAX_PID
        BY <4>1, PidAssumption DEF Inv, TypeOK
      <4> QED BY <1>1, <4>1, <4>2 DEF ScanSound
    <3>2. CASE ~(last_pid + 1 >= next_safe)
      <4>1. last_pid' = last_pid + 1 /\ le' = le + 1 /\ next_safe' = next_safe /\ id = last_pid
        BY <1>6, <3>2 DEF Collision
      <4>2. ASSUME NEW k \in 1..le'
            PROVE  proc_list[k] # last_pid' /\ (proc_list[k] > last_pid' => next_safe <= proc_list[k])
        <5>1. CASE k \in 1..le
          BY <1>1, <1>3, <1>5, <3>2, <4>1, <5>1 DEF Inv, TypeOK
        <5>2. CASE k = le + 1
          BY <1>2, <4>1, <5>2 DEF Inv, TypeOK
        <5> QED BY <4>1, <5>1, <5>2 DEF Inv, TypeOK
      <4>3. last_pid' < next_safe' /\ last_pid' < MAX_PID
        BY <3>2, <4>1, PidAssumption DEF Inv, TypeOK
      <4> QED BY <1>1, <4>1, <4>2, <4>3 DEF ScanSound
    <3> QED BY <3>1, <3>2
  <2> QED BY <1>4, <2>1, <2>2 DEF Inv
<1>7. CASE Passed(id)
  <2>1. TypeOK'
    BY <1>1, <1>2, <1>7, PidAssumption DEF Inv, TypeOK, Passed
  <2>2. ASSUME NEW k \in 1..le'
        PROVE  proc_list[k] # last_pid /\ (proc_list[k] > last_pid => next_safe' <= proc_list[k])
    <3>1. CASE k \in 1..le
      BY <1>1, <1>2, <1>3, <1>5, <1>7, <3>1 DEF Inv, TypeOK, Passed
    <3>2. CASE k = le + 1
      BY <1>2, <1>7, <3>2 DEF Inv, TypeOK, Passed
    <3> QED BY <1>7, <3>1, <3>2 DEF Inv, TypeOK, Passed
  <2>3. last_pid' = last_pid /\ last_pid < next_safe' /\ last_pid < MAX_PID
    BY <1>2, <1>3, <1>7 DEF Passed, Inv, TypeOK
  <2>4. ScanSound'
    BY <1>1, <2>2, <2>3 DEF ScanSound
  <2> QED BY <1>4, <2>1, <2>4 DEF Inv
<1> QED BY <1>6, <1>7 DEF get_pid_loop

LEMMA DoneInv == Inv /\ get_pid_done => Inv'
<1> SUFFICES ASSUME Inv, get_pid_done PROVE Inv'
  OBVIOUS
<1>1. last_pid \in 1..MAX_PID-1 /\ last_pid < next_safe
  BY PidAssumption DEF get_pid_done, Inv, TypeOK, ScanSound
<1>2. Link(last_pid) /\ UNCHANGED <<last_pid, next_safe>> /\ ~scanning' /\ scanning' \in BOOLEAN /\ le' = 0
  BY DEF get_pid_done
<1>3. \A k \in 1..Len(proc_list) : /\ proc_list[k] # last_pid
                                   /\ proc_list[k] > last_pid => next_safe <= proc_list[k]
  BY DEF get_pid_done, Inv, TypeOK, ScanSound
<1>4. PidsAreUnique'
  BY <1>1, <1>2, <1>3, LinkKeepsUnique DEF Inv, TypeOK
<1>5. TypeOK'
  BY <1>1, <1>2, LinkFacts, PidAssumption DEF Inv, TypeOK
<1>6. IntervalIsFree'
  <2> SUFFICES ASSUME NEW k \in 1..Len(proc_list')
               PROVE  ~(last_pid' < proc_list'[k] /\ proc_list'[k] < next_safe')
    BY DEF IntervalIsFree, InUse
  <2>1. CASE k = 1
    BY <1>1, <1>2, <2>1, LinkFacts DEF Inv, TypeOK
  <2>2. CASE k # 1
    <3>1. k - 1 \in 1..Len(proc_list) /\ proc_list'[k] = proc_list[k-1]
      BY <1>1, <1>2, <2>2, LinkFacts DEF Inv, TypeOK
    <3>2. proc_list[k-1] \in 1..MAX_PID-1
      BY <3>1, Entries DEF Inv
    <3> QED BY <1>1, <1>2, <1>3, <3>1, <3>2 DEF Inv, TypeOK
  <2> QED BY <2>1, <2>2
<1>7. ScanSound'
  BY <1>2 DEF ScanSound
<1> QED BY <1>4, <1>5, <1>6, <1>7 DEF Inv

LEMMA Difference ==
  ASSUME NEW n \in Int, NEW len \in Nat PROVE (n - 1) + (len - n) = len - 1
OBVIOUS

LEMMA Shift ==
  ASSUME NEW n \in Int, NEW len \in Nat, NEW k \in 1..len-1, ~(k < n)
  PROVE  k - (n - 1) \in 1..len-n /\ n + (k - (n - 1)) = k + 1
OBVIOUS

\* s without its n-th entry.
Cut(s, n) == SubSeq(s, 1, n - 1) \o SubSeq(s, n + 1, Len(s))

\* What it is to take the n-th entry out of a list.
LEMMA CutFacts ==
  ASSUME NEW S, NEW s \in Seq(S), NEW n \in 1..Len(s)
  PROVE  /\ Cut(s, n) \in Seq(S)
         /\ Len(Cut(s, n)) = Len(s) - 1
         /\ \A k \in 1..Len(Cut(s, n)) : Cut(s, n)[k] = IF k < n THEN s[k] ELSE s[k+1]
<1> DEFINE t == Cut(s, n)
           before == SubSeq(s, 1, n - 1)
           after  == SubSeq(s, n + 1, Len(s))
<1>1. Len(s) \in Nat /\ n \in Int /\ n >= 1 /\ n <= Len(s)
  BY LenProperties
<1>2. \A k \in 1..Len(s) : s[k] \in S
  BY ElementOfSeq
<1>3. /\ before \in Seq(S) /\ Len(before) = n - 1
      /\ \A k \in 1..n-1 : before[k] = s[k]
  <2>1. /\ before \in Seq(S)
        /\ Len(before) = IF 1 <= n - 1 THEN n - 1 - 1 + 1 ELSE 0
        /\ \A k \in 1..n-1-1+1 : before[k] = s[1 + k - 1]
    BY <1>1, <1>2, SubSeqProperties
  <2> QED BY <1>1, <2>1
<1>4. /\ after \in Seq(S) /\ Len(after) = Len(s) - n
      /\ \A k \in 1..Len(s)-n : after[k] = s[n + k]
  <2>1. /\ after \in Seq(S)
        /\ Len(after) = IF n + 1 <= Len(s) THEN Len(s) - (n + 1) + 1 ELSE 0
        /\ \A k \in 1..Len(s)-(n+1)+1 : after[k] = s[n + 1 + k - 1]
    BY <1>1, <1>2, SubSeqProperties
  <2> QED BY <1>1, <2>1
<1>5. /\ before \o after \in Seq(S)
      /\ Len(before \o after) = Len(before) + Len(after)
      /\ \A k \in 1..Len(before) + Len(after) :
           (before \o after)[k] = IF k <= Len(before) THEN before[k] ELSE after[k - Len(before)]
  BY <1>3, <1>4, ConcatProperties
<1>6. t = before \o after
  BY DEF Cut
<1> HIDE DEF before, after, t
<1>7. Len(t) = Len(s) - 1
  <2>1. Len(t) = Len(before) + Len(after)
    BY <1>5, <1>6, Zenon
  <2>2. Len(t) = (n - 1) + (Len(s) - n)
    BY <1>3, <1>4, <2>1, Zenon
  <2> QED BY <1>1, <2>2, Difference
<1>8. ASSUME NEW k \in 1..Len(t)
      PROVE  t[k] = IF k < n THEN s[k] ELSE s[k+1]
  <2>1. t[k] = IF k <= n - 1 THEN before[k] ELSE after[k - (n - 1)]
    BY <1>1, <1>3, <1>4, <1>5, <1>6, <1>7
  <2>2. CASE k < n
    BY <1>1, <1>3, <2>1, <2>2
  <2>3. CASE ~(k < n)
    <3>1. k - (n - 1) \in 1..Len(s)-n /\ n + (k - (n - 1)) = k + 1
      BY <1>1, <1>7, <2>3, Shift
    <3>2. after[k - (n - 1)] = s[n + (k - (n - 1))]
      BY <1>4, <3>1
    <3>3. t[k] = after[k - (n - 1)]
      BY <1>1, <2>1, <2>3
    <3> QED BY <2>3, <3>1, <3>2, <3>3
  <2> QED BY <2>2, <2>3
<1> QED BY <1>5, <1>6, <1>7, <1>8 DEF t

\* What it is to take the n-th entry out of the list.
LEMMA RemoveFacts ==
  ASSUME TypeOK, NEW n \in 1..Len(proc_list),
         proc_list' = SubSeq(proc_list, 1, n - 1) \o SubSeq(proc_list, n + 1, Len(proc_list))
  PROVE  /\ proc_list' \in Seq(1..MAX_PID-1)
         /\ Len(proc_list') = Len(proc_list) - 1
         /\ \A k \in 1..Len(proc_list') : proc_list'[k] = IF k < n THEN proc_list[k] ELSE proc_list[k+1]
<1> DEFINE S == 1..MAX_PID-1
<1>1. proc_list \in Seq(S)
  BY DEF TypeOK
<1>2. proc_list' = Cut(proc_list, n)
  BY DEF Cut
<1> HIDE DEF S
<1>3. /\ proc_list' \in Seq(S)
      /\ Len(proc_list') = Len(proc_list) - 1
      /\ \A k \in 1..Len(proc_list') : proc_list'[k] = IF k < n THEN proc_list[k] ELSE proc_list[k+1]
  BY <1>1, <1>2, CutFacts
<1> QED BY <1>3 DEF S

LEMMA RemoveInv == Inv /\ remove_links => Inv'
<1> SUFFICES ASSUME Inv, remove_links PROVE Inv'
  OBVIOUS
<1>1. PICK n \in 1..Len(proc_list) :
        proc_list' = SubSeq(proc_list, 1, n - 1) \o SubSeq(proc_list, n + 1, Len(proc_list))
  BY DEF remove_links
<1>2. ~scanning /\ UNCHANGED <<last_pid, next_safe, scanning, le>> /\ proc_list \in Seq(1..MAX_PID-1)
  BY DEF remove_links, Inv, TypeOK
<1>3. /\ proc_list' \in Seq(1..MAX_PID-1)
      /\ Len(proc_list') = Len(proc_list) - 1
      /\ \A k \in 1..Len(proc_list') : proc_list'[k] = IF k < n THEN proc_list[k] ELSE proc_list[k+1]
  BY <1>1, RemoveFacts DEF Inv
<1>4. PidsAreUnique'
  BY <1>2, <1>3 DEF Inv, PidsAreUnique
<1>5. IntervalIsFree'
  BY <1>2, <1>3 DEF Inv, IntervalIsFree, InUse
<1>6. TypeOK' /\ ScanSound'
  BY <1>2, <1>3, LenProperties DEF Inv, TypeOK, ScanSound
<1> QED BY <1>4, <1>5, <1>6 DEF Inv

LEMMA NextInv == Inv /\ [Next]_vars => Inv'
<1>1. Inv /\ UNCHANGED vars => Inv'
  BY DEF Inv, TypeOK, PidsAreUnique, IntervalIsFree, InUse, ScanSound, vars
<1> QED BY <1>1, FastInv, ScanInv, LoopInv, DoneInv, RemoveInv DEF Next, get_pid

\* last_pid and next_safe stay in range, also when the ids wrap around.
THEOREM TypeCorrect == Spec => []TypeOK
<1>1. Inv => TypeOK
  BY DEF Inv
<1> QED BY <1>1, InitInv, NextInv, PTL DEF Spec

\* get_pid never returns the pid of a process that still exists.
THEOREM PidsUnique == Spec => []PidsAreUnique
<1>1. Inv => PidsAreUnique
  BY DEF Inv
<1> QED BY <1>1, InitInv, NextInv, PTL DEF Spec

\* The ids handed out without a scan are free.
THEOREM SafeIntervalFree == Spec => []IntervalIsFree
<1>1. Inv => IntervalIsFree
  BY DEF Inv
<1> QED BY <1>1, InitInv, NextInv, PTL DEF Spec

-----------------------------------------------------------------------------
(* The inductive invariant of the process table: what GetPid needs, and:        *)

\* initproc lives for ever, whoever has children has not exited, or is just
\* handing them over, and parents exist.
FamilyInv ==
  /\ initproc \in linked \ zombie /\ idleproc \notin linked
  /\ exits # NULL => exits \in zombie
  /\ \A c \in linked : parent[c] \in linked \cup {idleproc}
  /\ \A c \in linked : parent[c] \in zombie => parent[c] = exits

\* cptr leads to a child.
YoungestInv ==
  \A p \in linked \cup {idleproc} : cptr[p] # NULL => cptr[p] \in linked /\ parent[cptr[p]] = p

\* optr leads to a sibling that points back, never to the youngest one.
OlderInv ==
  \A c \in linked : optr[c] # NULL =>
    /\ optr[c] \in linked /\ parent[optr[c]] = parent[c]
    /\ yptr[optr[c]] = c
    /\ optr[c] # cptr[parent[c]]

\* yptr leads to a sibling that points back, except in the youngest one; that of
\* the youngest child of the process in do_exit is stale.
YoungerInv ==
  \A c \in linked :
    IF c = cptr[parent[c]] THEN parent[c] # exits => yptr[c] = NULL
    ELSE yptr[c] \in linked /\ optr[yptr[c]] = c

\* Processes can be ranked so that the older siblings rank higher: the lists of
\* siblings have no cycles.
Aged(rank) == \A c \in linked : optr[c] # NULL => rank[c] < rank[optr[c]]

AgeInv == \E rank \in [Procs -> Nat] : Aged(rank)

LinkInv == L!TypeOK /\ FamilyInv /\ YoungestInv /\ OlderInv /\ YoungerInv /\ AgeInv

\* The processes and the pids in proc_list are in one-to-one correspondence.
PidInv ==
  /\ pid \in [Procs -> 0..MAX_PID-1]
  /\ InUse = {pid[p] : p \in linked}
  /\ \A p, q \in linked : pid[p] = pid[q] => p = q
  /\ IsFiniteSet(linked) /\ Cardinality(linked) = Len(proc_list)

\* While get_pid scans, do_fork knows for whom.
ForksInv == scanning => forks \in Procs \X Procs

TableInv == Inv /\ LinkInv /\ PidInv /\ ForksInv

-----------------------------------------------------------------------------
(* The actions of ProcLinks keep LinkInv. *)

\* set_links puts the child in front of its siblings.
LEMMA SetLinksInv ==
  ASSUME LinkInv, NEW p \in Procs, NEW c \in Procs, L!set_links(p, c)
  PROVE  LinkInv'
<1> USE NamesAssumption
<1>1. /\ exits = NULL /\ p \in linked /\ p \notin zombie /\ c \notin linked /\ c # idleproc /\ c # p
      /\ linked' = linked \cup {c} /\ zombie' = zombie /\ exits' = exits
  BY DEF L!set_links, L!Runs
<1>2. /\ linked \subseteq Procs /\ zombie \subseteq linked
      /\ parent \in L!Pointer /\ cptr \in L!Pointer /\ optr \in L!Pointer /\ yptr \in L!Pointer
  BY DEF LinkInv, L!TypeOK
<1>3. cptr[p] # NULL => cptr[p] \in linked /\ parent[cptr[p]] = p
  BY <1>1 DEF LinkInv, YoungestInv
<1>4. \A x \in Procs :
        /\ parent'[x] = IF x = c THEN p ELSE parent[x]
        /\ cptr'[x] = IF x = p THEN c ELSE IF x = c THEN NULL ELSE cptr[x]
        /\ optr'[x] = IF x = c THEN cptr[p] ELSE optr[x]
        /\ yptr'[x] = IF x = c THEN NULL ELSE IF x = cptr[p] THEN c ELSE yptr[x]
  <2>1. \A x \in Procs :
        /\ parent'[x] = IF x = c THEN p ELSE parent[x]
        /\ cptr'[x] = IF x = p THEN c ELSE IF x = c THEN NULL ELSE cptr[x]
        /\ optr'[x] = IF x = c THEN cptr[p] ELSE optr[x]
    BY <1>1, <1>2 DEF L!set_links, L!Elder, L!Pointer
  <2>2. \A x \in Procs : yptr'[x] = IF x = c THEN NULL ELSE IF x = cptr[p] THEN c ELSE yptr[x]
    BY <1>1, <1>2, <1>3 DEF L!set_links, L!Elder, L!Pointer
  <2> QED BY <2>1, <2>2
<1>5. L!TypeOK'
  <2>1. parent' \in L!Pointer /\ cptr' \in L!Pointer
    BY <1>2 DEF L!set_links, L!Pointer
  <2>2. optr' \in L!Pointer /\ yptr' \in L!Pointer
    BY <1>2, <1>3 DEF L!set_links, L!Elder, L!Pointer
  <2> QED BY <1>1, <1>2, <2>1, <2>2 DEF L!TypeOK, LinkInv
<1>6. FamilyInv'
  BY <1>1, <1>2, <1>4 DEF LinkInv, FamilyInv
<1>7. YoungestInv'
  BY <1>1, <1>2, <1>4 DEF LinkInv, YoungestInv
<1>8. OlderInv'
  <2> SUFFICES ASSUME NEW x \in linked', optr'[x] # NULL
               PROVE  /\ optr'[x] \in linked' /\ parent'[optr'[x]] = parent'[x]
                      /\ yptr'[optr'[x]] = x
                      /\ optr'[x] # cptr'[parent'[x]]
    BY DEF OlderInv
  <2>1. CASE x = c
    BY <1>1, <1>2, <1>3, <1>4, <2>1
  <2>2. CASE x # c
    <3>1. x \in linked /\ optr'[x] = optr[x] /\ parent'[x] = parent[x]
      BY <1>1, <1>2, <1>4, <2>2
    <3>2. /\ optr[x] \in linked /\ parent[optr[x]] = parent[x]
          /\ yptr[optr[x]] = x /\ optr[x] # cptr[parent[x]]
      BY <3>1 DEF LinkInv, OlderInv
    <3>3. optr[x] # cptr[p]
      BY <1>1, <1>3, <3>1, <3>2
    <3>4. parent[x] \in linked \cup {idleproc}
      BY <3>1 DEF LinkInv, FamilyInv
    <3> QED BY <1>1, <1>2, <1>4, <3>1, <3>2, <3>3, <3>4
  <2> QED BY <2>1, <2>2
<1>9. YoungerInv'
  <2> SUFFICES ASSUME NEW x \in linked'
               PROVE  IF x = cptr'[parent'[x]] THEN parent'[x] # exits' => yptr'[x] = NULL
                      ELSE yptr'[x] \in linked' /\ optr'[yptr'[x]] = x
    BY DEF YoungerInv
  <2>1. CASE x = c
    BY <1>1, <1>2, <1>4, <2>1
  <2>2. CASE x = cptr[p] /\ x # c
    BY <1>1, <1>2, <1>3, <1>4, <2>2
  <2>3. CASE x # cptr[p] /\ x # c
    <3>1. x \in linked /\ parent'[x] = parent[x] /\ yptr'[x] = yptr[x]
      BY <1>1, <1>2, <1>4, <2>3
    <3>2. parent[x] \in Procs /\ parent[x] # c
      BY <1>1, <1>2, <3>1 DEF LinkInv, FamilyInv
    <3>3. cptr'[parent[x]] = IF parent[x] = p THEN c ELSE cptr[parent[x]]
      BY <1>4, <3>2
    <3>4. IF x = cptr[parent[x]] THEN parent[x] # exits => yptr[x] = NULL
          ELSE yptr[x] \in linked /\ optr[yptr[x]] = x
      BY <3>1 DEF LinkInv, YoungerInv
    <3>5. yptr[x] \in linked => optr'[yptr[x]] = optr[yptr[x]]
      BY <1>1, <1>2, <1>4
    <3> QED BY <1>1, <2>3, <3>1, <3>3, <3>4, <3>5
  <2> QED BY <2>1, <2>2, <2>3
<1>10. AgeInv'
  <2>1. PICK rank \in [Procs -> Nat] : Aged(rank)
    BY DEF LinkInv, AgeInv
  <2> DEFINE new == [x \in Procs |-> IF x = c THEN 0 ELSE rank[x] + 1]
  <2>2. new \in [Procs -> Nat]
    OBVIOUS
  <2>3. ASSUME NEW x \in linked', optr'[x] # NULL PROVE new[x] < new[optr'[x]]
    <3>1. optr'[x] \in linked' /\ optr'[x] # c
      <4>1. CASE x = c
        BY <1>1, <1>2, <1>3, <1>4, <2>3, <4>1
      <4>2. CASE x # c
        BY <1>1, <1>2, <1>4, <2>3, <4>2 DEF LinkInv, OlderInv
      <4> QED BY <4>1, <4>2
    <3>2. CASE x = c
      BY <1>1, <1>2, <3>1, <3>2
    <3>3. CASE x # c
      <4>1. rank[x] < rank[optr[x]] /\ optr'[x] = optr[x]
        BY <1>1, <1>2, <1>4, <2>1, <2>3, <3>3 DEF Aged
      <4> QED BY <1>1, <1>2, <3>1, <3>3, <4>1
    <3> QED BY <3>2, <3>3
  <2> QED BY <2>2, <2>3 DEF AgeInv, Aged
<1> QED BY <1>5, <1>6, <1>7, <1>8, <1>9, <1>10 DEF LinkInv

\* do_exit lets its children point at a zombie.
LEMMA DoExitInv ==
  ASSUME LinkInv, NEW p \in Procs, L!do_exit(p)
  PROVE  LinkInv'
<1> USE NamesAssumption
<1>1. /\ p \in linked /\ p # initproc /\ exits = NULL /\ zombie' = zombie \cup {p} /\ exits' = p
      /\ linked' = linked /\ parent' = parent /\ cptr' = cptr /\ optr' = optr /\ yptr' = yptr
  BY DEF L!do_exit, L!Runs
<1>2. L!TypeOK'
  BY <1>1 DEF LinkInv, L!TypeOK, L!Pointer
<1>3. FamilyInv'
  <2>1. \A c \in linked : parent[c] # NULL
    BY DEF LinkInv, FamilyInv, L!TypeOK
  <2> QED BY <1>1, <2>1 DEF LinkInv, FamilyInv
<1>4. YoungerInv'
  <2>1. \A c \in linked : parent[c] # NULL
    BY DEF LinkInv, FamilyInv, L!TypeOK
  <2> QED BY <1>1, <2>1 DEF LinkInv, YoungerInv
<1>5. YoungestInv' /\ OlderInv' /\ AgeInv'
  BY <1>1 DEF LinkInv, YoungestInv, OlderInv, AgeInv, Aged
<1> QED BY <1>2, <1>3, <1>4, <1>5 DEF LinkInv

\* An iteration of do_exit's loop moves the youngest child to the front of the
\* children of initproc.
LEMMA AdoptInv ==
  ASSUME LinkInv, L!Adopt
  PROVE  LinkInv'
<1> USE NamesAssumption
<1> DEFINE p == exits
           c == cptr[exits]
           h == cptr[initproc]
<1>1. /\ exits # NULL /\ c # NULL
      /\ linked' = linked /\ zombie' = zombie /\ exits' = exits
  BY DEF L!Adopt
<1>2. /\ linked \subseteq Procs /\ zombie \subseteq linked
      /\ parent \in L!Pointer /\ cptr \in L!Pointer /\ optr \in L!Pointer /\ yptr \in L!Pointer
  BY DEF LinkInv, L!TypeOK
<1>3. p \in zombie /\ p \in linked /\ initproc \in linked /\ p # initproc
  BY <1>1, <1>2 DEF LinkInv, FamilyInv
<1>4. c \in linked /\ parent[c] = p /\ (h # NULL => h \in linked /\ parent[h] = initproc) /\ h # c
  BY <1>1, <1>3 DEF LinkInv, YoungestInv
<1>5. \A x \in Procs :
        /\ parent'[x] = IF x = c THEN initproc ELSE parent[x]
        /\ cptr'[x] = IF x = initproc THEN c ELSE IF x = p THEN optr[c] ELSE cptr[x]
        /\ optr'[x] = IF x = c THEN h ELSE optr[x]
        /\ yptr'[x] = IF x = c THEN NULL ELSE IF x = h THEN c ELSE yptr[x]
  <2>1. \A x \in Procs :
        /\ parent'[x] = IF x = c THEN initproc ELSE parent[x]
        /\ cptr'[x] = IF x = initproc THEN c ELSE IF x = p THEN optr[c] ELSE cptr[x]
        /\ optr'[x] = IF x = c THEN h ELSE optr[x]
    BY <1>1, <1>2, <1>3, <1>4 DEF L!Adopt, L!Elder, L!Pointer
  <2>2. \A x \in Procs : yptr'[x] = IF x = c THEN NULL ELSE IF x = h THEN c ELSE yptr[x]
    BY <1>1, <1>2, <1>3, <1>4 DEF L!Adopt, L!Elder, L!Pointer
  <2> QED BY <2>1, <2>2
<1>6. L!TypeOK'
  <2>1. parent' \in L!Pointer /\ cptr' \in L!Pointer
    BY <1>2, <1>4 DEF L!Adopt, L!Pointer
  <2>2. optr' \in L!Pointer /\ yptr' \in L!Pointer
    BY <1>2, <1>4 DEF L!Adopt, L!Elder, L!Pointer
  <2> QED BY <1>1, <1>2, <2>1, <2>2 DEF L!TypeOK, LinkInv
<1>7. FamilyInv'
  BY <1>1, <1>2, <1>3, <1>5 DEF LinkInv, FamilyInv
<1> HIDE DEF p, c, h
\* The older sibling of c, and whose older sibling c and h are not.
<1>8. optr[c] # NULL => /\ optr[c] \in linked /\ parent[optr[c]] = p
                        /\ yptr[optr[c]] = c /\ optr[c] # c
  BY <1>4 DEF LinkInv, OlderInv, p, c
<1>9. ASSUME NEW x \in linked, optr[x] # NULL
      PROVE  /\ optr[x] \in linked /\ parent[optr[x]] = parent[x] /\ yptr[optr[x]] = x
             /\ optr[x] # cptr[parent[x]] /\ optr[x] # c /\ optr[x] # h
  <2>1. /\ optr[x] \in linked /\ parent[optr[x]] = parent[x] /\ yptr[optr[x]] = x
        /\ optr[x] # cptr[parent[x]]
    BY <1>9 DEF LinkInv, OlderInv
  <2> QED BY <1>4, <1>9, <2>1 DEF p, c, h
<1>10. \A x \in linked : parent[x] \in Procs
  BY <1>2 DEF LinkInv, FamilyInv
<1>11. YoungestInv'
  <2> SUFFICES ASSUME NEW q \in linked \cup {idleproc}, cptr'[q] # NULL
               PROVE  cptr'[q] \in linked /\ parent'[cptr'[q]] = q
    BY <1>1 DEF YoungestInv
  <2>1. CASE q = initproc
    BY <1>2, <1>4, <1>5, <2>1
  <2>2. CASE q = p
    BY <1>2, <1>3, <1>5, <1>8, <2>2
  <2>3. CASE q # initproc /\ q # p
    <3>1. cptr'[q] = cptr[q] /\ cptr[q] \in linked /\ parent[cptr[q]] = q
      BY <1>2, <1>5, <2>3 DEF LinkInv, YoungestInv
    <3> QED BY <1>2, <1>4, <1>5, <2>3, <3>1
  <2> QED BY <2>1, <2>2, <2>3
<1>12. OlderInv'
  <2> SUFFICES ASSUME NEW x \in linked, optr'[x] # NULL
               PROVE  /\ optr'[x] \in linked /\ parent'[optr'[x]] = parent'[x]
                      /\ yptr'[optr'[x]] = x
                      /\ optr'[x] # cptr'[parent'[x]]
    BY <1>1 DEF OlderInv
  <2>1. CASE x = c
    BY <1>2, <1>3, <1>4, <1>5, <2>1
  <2>2. CASE x # c
    <3>1. optr'[x] = optr[x] /\ parent'[x] = parent[x] /\ parent[x] \in Procs
      BY <1>2, <1>5, <1>10, <2>2
    <3>2. /\ optr[x] \in linked /\ parent[optr[x]] = parent[x] /\ yptr[optr[x]] = x
          /\ optr[x] # cptr[parent[x]] /\ optr[x] # c /\ optr[x] # h
      BY <1>9, <3>1
    <3>3. parent'[optr[x]] = parent[x] /\ yptr'[optr[x]] = x
      BY <1>2, <1>5, <3>2
    <3>4. optr[x] # cptr'[parent[x]]
      BY <1>5, <1>8, <2>2, <3>1, <3>2
    <3> QED BY <3>1, <3>2, <3>3, <3>4
  <2> QED BY <2>1, <2>2
<1>13. YoungerInv'
  <2> SUFFICES ASSUME NEW x \in linked
               PROVE  IF x = cptr'[parent'[x]] THEN parent'[x] # exits => yptr'[x] = NULL
                      ELSE yptr'[x] \in linked /\ optr'[yptr'[x]] = x
    BY <1>1 DEF YoungerInv
  <2>1. CASE x = c
    BY <1>2, <1>5, <2>1
  <2>2. CASE x = h /\ x # c
    BY <1>2, <1>3, <1>4, <1>5, <2>2
  <2>3. CASE x # h /\ x # c
    <3>1. parent'[x] = parent[x] /\ yptr'[x] = yptr[x] /\ parent[x] \in Procs
      BY <1>2, <1>5, <1>10, <2>3
    <3>2. cptr'[parent[x]] = IF parent[x] = initproc THEN c ELSE IF parent[x] = p THEN optr[c] ELSE cptr[parent[x]]
      BY <1>5, <3>1
    <3>3. IF x = cptr[parent[x]] THEN parent[x] # exits => yptr[x] = NULL
          ELSE yptr[x] \in linked /\ optr[yptr[x]] = x
      BY <3>1 DEF LinkInv, YoungerInv
    <3>4. yptr[x] \in linked => optr'[yptr[x]] = IF yptr[x] = c THEN h ELSE optr[yptr[x]]
      BY <1>2, <1>5
    <3>5. CASE parent[x] = p
      <4>1. yptr[x] \in linked /\ optr[yptr[x]] = x
        BY <2>3, <3>3, <3>5 DEF p, c
      <4>2. yptr[x] = c => x = optr[c]
        BY <4>1
      <4> QED BY <1>3, <3>1, <3>2, <3>4, <3>5, <4>1, <4>2 DEF p
    <3>6. CASE parent[x] = initproc
      <4>1. yptr[x] \in linked /\ optr[yptr[x]] = x
        BY <2>3, <3>3, <3>6 DEF h
      <4>2. yptr[x] # c
        BY <1>2, <1>3, <1>4, <1>9, <3>6, <4>1
      <4> QED BY <1>3, <2>3, <3>1, <3>2, <3>4, <3>6, <4>1, <4>2
    <3>7. CASE parent[x] # p /\ parent[x] # initproc
      <4>1. x # cptr[parent[x]] => yptr[x] # c
        BY <1>2, <1>4, <1>9, <3>3, <3>7
      <4> QED BY <3>1, <3>2, <3>3, <3>4, <3>7, <4>1
    <3> QED BY <3>5, <3>6, <3>7
  <2> QED BY <2>1, <2>2, <2>3
<1>14. AgeInv'
  <2>1. PICK rank \in [Procs -> Nat] : Aged(rank)
    BY DEF LinkInv, AgeInv
  <2> DEFINE new == [x \in Procs |-> IF x = c THEN 0 ELSE rank[x] + 1]
  <2>2. new \in [Procs -> Nat]
    OBVIOUS
  <2>3. ASSUME NEW x \in linked, optr'[x] # NULL PROVE new[x] < new[optr'[x]]
    <3>1. CASE x = c
      <4>1. optr'[x] = h /\ h \in Procs /\ h # c
        BY <1>2, <1>4, <1>5, <2>3, <3>1
      <4> QED BY <1>2, <3>1, <4>1
    <3>2. CASE x # c
      <4>1. rank[x] < rank[optr[x]] /\ optr'[x] = optr[x]
        BY <1>2, <1>5, <2>1, <2>3, <3>2 DEF Aged
      <4>2. optr[x] \in Procs /\ optr[x] # c
        BY <1>2, <1>9, <2>3, <4>1
      <4> QED BY <1>2, <3>2, <4>1, <4>2
    <3> QED BY <3>1, <3>2
  <2> QED BY <1>1, <2>2, <2>3 DEF AgeInv, Aged
<1> QED BY <1>6, <1>7, <1>11, <1>12, <1>13, <1>14 DEF LinkInv

\* A non-empty set of numbers has a least element, here the least rank.
LEMMA Minimal ==
  ASSUME NEW R, IsWellFoundedOn(R, Nat), NEW S, S \subseteq Nat, S # {}
  PROVE  \E n \in S : \A m \in S : ~(<<m, n>> \in R)
BY WFMin

LEMMA NotLess ==
  ASSUME NEW R, \A m, n \in Nat : <<m, n>> \in R <=> m < n,
         NEW S, S \subseteq Nat, \E n \in S : \A m \in S : ~(<<m, n>> \in R)
  PROVE  \E n \in S : \A m \in S : ~(m < n)
OBVIOUS

LEMMA LeastRank ==
  ASSUME NEW S, S \subseteq Nat, S # {}
  PROVE  \E n \in S : \A m \in S : ~(m < n)
<1>1. \A m, n \in Nat : <<m, n>> \in OpToRel(<, Nat) <=> m < n
  BY DEF OpToRel
<1>2. \E n \in S : \A m \in S : ~(<<m, n>> \in OpToRel(<, Nat))
  BY NatLessThanWellFounded, Minimal
<1> QED BY <1>1, <1>2, NotLess

\* When the loop of do_exit ends there are no children left: going from sibling to
\* younger sibling from any of them would end at cptr.
LEMMA NoChildrenLeft ==
  ASSUME LinkInv, NEW p \in Procs, cptr[p] = NULL, NEW c \in linked
  PROVE  parent[c] # p
<1> USE NamesAssumption
<1> SUFFICES ASSUME parent[c] = p PROVE FALSE
  OBVIOUS
<1>1. PICK rank \in [Procs -> Nat] : Aged(rank)
  BY DEF LinkInv, AgeInv
<1>2. linked \subseteq Procs
  BY DEF LinkInv, L!TypeOK
<1> DEFINE S == {rank[x] : x \in {y \in linked : parent[y] = p}}
<1>3. S \subseteq Nat /\ S # {}
  BY <1>2
<1>4. PICK m \in S : \A n \in S : ~(n < m)
  BY <1>3, LeastRank
<1>5. PICK x \in linked : parent[x] = p /\ rank[x] = m
  OBVIOUS
<1>6. yptr[x] \in linked /\ optr[yptr[x]] = x /\ x # NULL
  BY <1>2, <1>5 DEF LinkInv, YoungerInv
<1>7. parent[yptr[x]] = p /\ rank[yptr[x]] < m
  BY <1>1, <1>5, <1>6 DEF LinkInv, OlderInv, Aged
<1> QED BY <1>4, <1>6, <1>7

LEMMA AdoptDoneInv ==
  ASSUME LinkInv, L!AdoptDone
  PROVE  LinkInv'
<1> USE NamesAssumption
<1>1. /\ exits # NULL /\ cptr[exits] = NULL /\ exits' = NULL
      /\ linked' = linked /\ zombie' = zombie
      /\ parent' = parent /\ cptr' = cptr /\ optr' = optr /\ yptr' = yptr
  BY DEF L!AdoptDone
<1>2. \A c \in linked : parent[c] # exits
  BY <1>1, NoChildrenLeft DEF LinkInv, L!TypeOK
<1>3. L!TypeOK'
  BY <1>1 DEF LinkInv, L!TypeOK, L!Pointer
<1>4. FamilyInv'
  BY <1>1, <1>2 DEF LinkInv, FamilyInv
<1>5. YoungerInv'
  BY <1>1, <1>2 DEF LinkInv, YoungerInv
<1>6. YoungestInv' /\ OlderInv' /\ AgeInv'
  BY <1>1 DEF LinkInv, YoungestInv, OlderInv, AgeInv, Aged
<1> QED BY <1>3, <1>4, <1>5, <1>6 DEF LinkInv

\* remove_links joins the neighbours of a zombie, which has no children.
LEMMA RemoveLinksInv ==
  ASSUME LinkInv, exits = NULL, NEW c \in zombie, L!remove_links(c)
  PROVE  LinkInv'
<1> USE NamesAssumption
<1> DEFINE p == parent[c]
           o == optr[c]
           y == yptr[c]
<1>1. linked' = linked \ {c} /\ zombie' = zombie \ {c} /\ exits' = NULL
  BY DEF L!remove_links
<1>2. /\ linked \subseteq Procs /\ zombie \subseteq linked /\ c \in linked
      /\ parent \in L!Pointer /\ cptr \in L!Pointer /\ optr \in L!Pointer /\ yptr \in L!Pointer
  BY DEF LinkInv, L!TypeOK
<1>3. /\ p \in Procs /\ p # c /\ initproc # c /\ c # idleproc
      /\ \A x \in linked : parent[x] \in linked \cup {idleproc} /\ parent[x] # c
  BY <1>2 DEF LinkInv, FamilyInv
<1>4. \A x \in Procs :
        /\ x # c => parent'[x] = parent[x]
        /\ cptr'[x] = IF y = NULL /\ x = p THEN o ELSE cptr[x]
        /\ x # c => optr'[x] = IF x = y THEN o ELSE optr[x]
        /\ x # c => yptr'[x] = IF x = o THEN y ELSE yptr[x]
  <2>1. \A x \in Procs : /\ x # c => parent'[x] = parent[x]
                         /\ cptr'[x] = IF y = NULL /\ x = p THEN o ELSE cptr[x]
    BY <1>2, <1>3 DEF L!remove_links, L!Freed, L!Pointer
  <2>2. \A x \in Procs : x # c => optr'[x] = IF x = y THEN o ELSE optr[x]
    BY <1>2, <1>3 DEF L!remove_links, L!Freed, L!Pointer
  <2>3. \A x \in Procs : x # c => yptr'[x] = IF x = o THEN y ELSE yptr[x]
    BY <1>2, <1>3 DEF L!remove_links, L!Freed, L!Pointer
  <2> QED BY <2>1, <2>2, <2>3
<1>5. L!TypeOK'
  <2>1. parent' \in L!Pointer /\ cptr' \in L!Pointer
    BY <1>2 DEF L!remove_links, L!Freed, L!Pointer
  <2>2. optr' \in L!Pointer /\ yptr' \in L!Pointer
    BY <1>2 DEF L!remove_links, L!Freed, L!Pointer
  <2> QED BY <1>1, <1>2, <2>1, <2>2 DEF L!TypeOK
<1>6. FamilyInv'
  BY <1>1, <1>2, <1>3, <1>4 DEF LinkInv, FamilyInv
\* The neighbours of c.
<1>7. o # NULL => o \in linked /\ parent[o] = p /\ yptr[o] = c /\ o # cptr[p]
  BY <1>2 DEF LinkInv, OlderInv
<1>8. IF y = NULL THEN c = cptr[p] ELSE c # cptr[p] /\ y \in linked /\ optr[y] = c
  BY <1>2, <1>3 DEF LinkInv, YoungerInv
<1>9. y # NULL => parent[y] = p
  BY <1>2, <1>8 DEF LinkInv, OlderInv
<1>10. ASSUME NEW x \in linked, x # c, optr[x] # NULL
       PROVE  /\ optr[x] \in linked /\ parent[optr[x]] = parent[x] /\ yptr[optr[x]] = x
              /\ optr[x] # cptr[parent[x]]
              /\ optr[x] = c <=> x = y
              /\ optr[x] # o
  <2>1. /\ optr[x] \in linked /\ parent[optr[x]] = parent[x] /\ yptr[optr[x]] = x
        /\ optr[x] # cptr[parent[x]]
    BY <1>10 DEF LinkInv, OlderInv
  <2> QED BY <1>2, <1>7, <1>8, <1>10, <2>1
<1>11. ASSUME NEW x \in linked, x # c
       PROVE  IF x = cptr[parent[x]] THEN yptr[x] = NULL
              ELSE yptr[x] \in linked /\ optr[yptr[x]] = x
  BY <1>2, <1>3 DEF LinkInv, YoungerInv
<1> HIDE DEF p, o, y
<1>12. YoungestInv'
  <2> SUFFICES ASSUME NEW q \in linked' \cup {idleproc}, cptr'[q] # NULL
               PROVE  cptr'[q] \in linked' /\ parent'[cptr'[q]] = q
    BY DEF YoungestInv
  <2>1. q \in linked \cup {idleproc} /\ q \in Procs
    BY <1>1, <1>2
  <2>2. CASE y = NULL /\ q = p
    <3>1. cptr'[q] = o /\ o # c
      BY <1>4, <1>7, <1>8, <2>1, <2>2
    <3> QED BY <1>1, <1>2, <1>4, <1>7, <2>2, <3>1
  <2>3. CASE ~(y = NULL /\ q = p)
    <3>1. cptr'[q] = cptr[q] /\ cptr[q] \in linked /\ parent[cptr[q]] = q
      BY <1>4, <2>1, <2>3 DEF LinkInv, YoungestInv
    <3>2. cptr[q] # c
      BY <1>8, <2>3, <3>1 DEF p
    <3> QED BY <1>1, <1>2, <1>4, <3>1, <3>2
  <2> QED BY <2>2, <2>3
<1>13. OlderInv'
  <2> SUFFICES ASSUME NEW x \in linked', optr'[x] # NULL
               PROVE  /\ optr'[x] \in linked' /\ parent'[optr'[x]] = parent'[x]
                      /\ yptr'[optr'[x]] = x
                      /\ optr'[x] # cptr'[parent'[x]]
    BY DEF OlderInv
  <2>1. x \in linked /\ x # c /\ x \in Procs /\ parent'[x] = parent[x] /\ parent[x] \in Procs
    BY <1>1, <1>2, <1>3, <1>4
  <2>2. CASE x = y
    <3>1. optr'[x] = o /\ o # NULL /\ o \in linked /\ o \in Procs /\ o # c /\ parent[o] = p /\ parent[x] = p
      BY <1>2, <1>4, <1>7, <1>9, <2>1, <2>2 DEF y
    <3>2. parent'[o] = p /\ yptr'[o] = x
      BY <1>4, <2>2, <3>1
    <3>3. o # cptr'[p]
      BY <1>2, <1>4, <1>7, <2>1, <2>2, <3>1
    <3> QED BY <1>1, <2>1, <3>1, <3>2, <3>3
  <2>3. CASE x # y
    <3>1. optr'[x] = optr[x]
      BY <1>4, <2>1, <2>3
    <3>2. /\ optr[x] \in linked /\ parent[optr[x]] = parent[x] /\ yptr[optr[x]] = x
          /\ optr[x] # cptr[parent[x]] /\ optr[x] # c /\ optr[x] # o
      BY <1>10, <2>1, <2>3, <3>1
    <3>3. optr[x] # cptr'[parent[x]]
      BY <1>4, <2>1, <3>2
    <3> QED BY <1>1, <1>2, <1>4, <2>1, <3>1, <3>2, <3>3
  <2> QED BY <2>2, <2>3
<1>14. YoungerInv'
  <2> SUFFICES ASSUME NEW x \in linked'
               PROVE  IF x = cptr'[parent'[x]] THEN yptr'[x] = NULL
                      ELSE yptr'[x] \in linked' /\ optr'[yptr'[x]] = x
    BY <1>1 DEF YoungerInv
  <2>1. x \in linked /\ x # c /\ x \in Procs /\ parent'[x] = parent[x] /\ parent[x] \in Procs
    BY <1>1, <1>2, <1>3, <1>4
  <2>2. IF x = cptr[parent[x]] THEN yptr[x] = NULL ELSE yptr[x] \in linked /\ optr[yptr[x]] = x
    BY <1>11, <2>1
  <2>3. CASE x = o
    <3>1. parent[x] = p /\ yptr'[x] = y /\ x # cptr[p] /\ yptr[x] = c
      BY <1>4, <1>7, <2>1, <2>3
    <3>2. CASE y = NULL
      BY <1>4, <2>1, <2>3, <3>1, <3>2
    <3>3. CASE y # NULL
      <4>1. y \in linked /\ y # c /\ y \in Procs
        BY <1>2, <1>8, <2>1, <2>3, <3>1, <3>3 DEF o
      <4> QED BY <1>1, <1>4, <2>1, <2>3, <3>1, <3>3, <4>1
    <3> QED BY <3>2, <3>3
  <2>4. CASE x # o
    <3>1. yptr'[x] = yptr[x]
      BY <1>4, <2>1, <2>4
    <3>2. x = cptr'[parent[x]] => x = cptr[parent[x]]
      BY <1>4, <2>1, <2>4
    <3>3. ASSUME x # cptr'[parent[x]] PROVE yptr[x] \in linked' /\ optr'[yptr[x]] = x
      <4>1. x # cptr[parent[x]]
        BY <1>4, <1>8, <2>1, <3>3
      <4>2. yptr[x] \in linked /\ optr[yptr[x]] = x /\ yptr[x] # c /\ yptr[x] # y
        BY <1>2, <1>8, <2>1, <2>2, <2>4, <4>1, NamesAssumption DEF o
      <4> QED BY <1>1, <1>2, <1>4, <4>2
    <3> QED BY <2>1, <2>2, <3>1, <3>2, <3>3
  <2> QED BY <2>3, <2>4
<1>15. AgeInv'
  <2>1. PICK rank \in [Procs -> Nat] : Aged(rank)
    BY DEF LinkInv, AgeInv
  <2>2. ASSUME NEW x \in linked', optr'[x] # NULL PROVE rank[x] < rank[optr'[x]]
    <3>1. x \in linked /\ x # c /\ x \in Procs
      BY <1>1, <1>2
    <3>2. CASE x = y
      <4>1. optr'[x] = o /\ o # NULL /\ optr[x] = c /\ o \in Procs
        BY <1>2, <1>4, <1>7, <1>8, <2>2, <3>1, <3>2
      <4>2. rank[x] < rank[c] /\ rank[c] < rank[o]
        BY <1>2, <2>1, <3>1, <4>1 DEF Aged, o
      <4> QED BY <1>2, <3>1, <4>1, <4>2
    <3>3. CASE x # y
      BY <1>4, <2>1, <2>2, <3>1, <3>3 DEF Aged
    <3> QED BY <3>2, <3>3
  <2> QED BY <2>1, <2>2 DEF AgeInv, Aged
<1> QED BY <1>5, <1>6, <1>12, <1>13, <1>14, <1>15 DEF LinkInv

\* The invariant says what ProcLinks promises.
LEMMA LinksSound == LinkInv => L!LinksAreSound
<1> SUFFICES ASSUME LinkInv PROVE L!LinksAreSound
  OBVIOUS
<1> USE NamesAssumption
<1>1. \A p \in linked \cup {idleproc} : cptr[p] # NULL => cptr[p] \in linked /\ parent[cptr[p]] = p
  BY DEF LinkInv, YoungestInv
<1>2. ASSUME NEW c \in linked
      PROVE  /\ optr[c] # NULL => optr[c] \in linked /\ parent[optr[c]] = parent[c]
                                  /\ yptr[optr[c]] = c
             /\ parent[c] # exits =>
                  IF yptr[c] = NULL
                  THEN cptr[parent[c]] = c
                  ELSE yptr[c] \in linked /\ optr[yptr[c]] = c
  BY DEF LinkInv, OlderInv, YoungerInv, L!TypeOK
<1> QED BY <1>1, <1>2 DEF L!LinksAreSound

-----------------------------------------------------------------------------
(* The process table. *)

\* The list of one pid with which the table begins.
LEMMA FirstPid ==
  ASSUME NEW S, NEW first \in S, NEW q, q = <<first>>
  PROVE  q \in Seq(S) /\ Len(q) = 1 /\ q[1] = first
OBVIOUS

LEMMA ProcInitInv == ProcInit => TableInv
<1> SUFFICES ASSUME ProcInit PROVE TableInv
  OBVIOUS
<1> USE NamesAssumption, PidAssumption
<1>1. proc_list \in Seq(1..MAX_PID-1) /\ Len(proc_list) = 1 /\ proc_list[1] = 1
  BY FirstPid DEF ProcInit
<1>2. Inv
  <2>1. TypeOK
    <3>1. last_pid \in 1..MAX_PID /\ next_safe \in 1..MAX_PID
      BY DEF ProcInit
    <3>2. le \in 0..Len(proc_list)
      BY <1>1 DEF ProcInit
    <3>3. scanning \in BOOLEAN
      BY DEF ProcInit
    <3> QED BY <1>1, <3>1, <3>2, <3>3 DEF TypeOK
  <2>2. PidsAreUnique /\ IntervalIsFree /\ ScanSound
    BY <1>1 DEF ProcInit, PidsAreUnique, IntervalIsFree, InUse, ScanSound
  <2> QED BY <2>1, <2>2 DEF Inv
<1>3. LinkInv
  <2>1. /\ linked = {initproc} /\ zombie = {} /\ exits = NULL
        /\ \A x \in Procs : /\ parent[x] = IF x = initproc THEN idleproc ELSE NULL
                            /\ cptr[x] = IF x = idleproc THEN initproc ELSE NULL
                            /\ optr[x] = NULL /\ yptr[x] = NULL
    BY DEF ProcInit, L!Init, L!Nobody
  <2>2. L!TypeOK
    BY DEF ProcInit, L!Init, L!Nobody, L!TypeOK, L!Pointer
  <2>3. FamilyInv /\ YoungestInv /\ OlderInv /\ YoungerInv
    BY <2>1 DEF FamilyInv, YoungestInv, OlderInv, YoungerInv
  <2>4. AgeInv
    <3>1. [x \in Procs |-> 0] \in [Procs -> Nat] /\ Aged([x \in Procs |-> 0])
      BY <2>1 DEF Aged
    <3> QED BY <3>1 DEF AgeInv
  <2> QED BY <2>2, <2>3, <2>4 DEF LinkInv
<1>4. PidInv
  <2>1. linked = {initproc} /\ pid = [p \in Procs |-> IF p = initproc THEN 1 ELSE 0]
    BY DEF ProcInit, L!Init
  <2>2. IsFiniteSet(linked) /\ Cardinality(linked) = 1
    BY <2>1, FS_Singleton
  <2>3. InUse = {1} /\ {pid[p] : p \in linked} = {1}
    BY <1>1, <2>1 DEF InUse
  <2>4. pid \in [Procs -> 0..MAX_PID-1] /\ \A p, q \in linked : pid[p] = pid[q] => p = q
    BY <2>1
  <2> QED BY <1>1, <2>2, <2>3, <2>4 DEF PidInv
<1>5. ForksInv
  BY DEF ProcInit, ForksInv
<1> QED BY <1>2, <1>3, <1>4, <1>5 DEF TableInv

\* A step that links child c under a pid that no process has.
LEMMA HashInv ==
  ASSUME TableInv, NEW p \in Procs, NEW c \in Procs, Hash(p, c),
         Link(last_pid'), last_pid' \in 1..MAX_PID-1, last_pid' \notin InUse
  PROVE  PidInv'
<1>1. /\ linked' = linked \cup {c} /\ c \notin linked /\ linked \subseteq Procs
      /\ pid \in [Procs -> 0..MAX_PID-1] /\ pid' = [pid EXCEPT ![c] = last_pid']
      /\ IsFiniteSet(linked) /\ Cardinality(linked) = Len(proc_list)
      /\ proc_list \in Seq(1..MAX_PID-1)
  BY DEF Hash, L!set_links, TableInv, LinkInv, L!TypeOK, PidInv, Inv, TypeOK
<1>2. /\ Len(proc_list') = Len(proc_list) + 1 /\ proc_list'[1] = last_pid'
      /\ \A k \in 2..Len(proc_list') : k - 1 \in 1..Len(proc_list) /\ proc_list'[k] = proc_list[k-1]
  BY <1>1, LinkFacts
<1>3. InUse' = InUse \cup {last_pid'}
  <2>1. Len(proc_list) \in Nat
    BY <1>1, LenProperties
  <2>2. ASSUME NEW k \in 1..Len(proc_list) PROVE k + 1 \in 2..Len(proc_list') /\ proc_list'[k+1] = proc_list[k]
    BY <1>2, <2>1
  <2>3. InUse \subseteq InUse'
    BY <1>2, <2>1, <2>2 DEF InUse
  <2>4. last_pid' \in InUse'
    BY <1>2, <2>1 DEF InUse
  <2>5. ASSUME NEW k \in 1..Len(proc_list') PROVE proc_list'[k] \in InUse \cup {last_pid'}
    <3>1. CASE k = 1
      BY <1>2, <3>1
    <3>2. CASE k # 1
      <4>1. k \in 2..Len(proc_list')
        BY <1>2, <2>1, <3>2
      <4> QED BY <1>2, <4>1 DEF InUse
    <3> QED BY <3>1, <3>2
  <2>6. InUse' \subseteq InUse \cup {last_pid'}
    BY <2>5 DEF InUse
  <2> QED BY <2>3, <2>4, <2>6
<1>4. /\ InUse = {pid[q] : q \in linked} /\ \A x, q \in linked : pid[x] = pid[q] => x = q
  BY DEF TableInv, PidInv
<1>5. \A q \in Procs : pid'[q] = IF q = c THEN last_pid' ELSE pid[q]
  BY <1>1
<1>6. \A q \in linked : q # c /\ pid'[q] = pid[q] /\ pid[q] # last_pid'
  BY <1>1, <1>4, <1>5
<1>7. InUse' = {pid'[q] : q \in linked'}
  BY <1>1, <1>3, <1>4, <1>5, <1>6
<1>8. \A x, q \in linked' : pid'[x] = pid'[q] => x = q
  BY <1>1, <1>4, <1>5, <1>6
<1>9. IsFiniteSet(linked') /\ Cardinality(linked') = Len(proc_list')
  BY <1>1, <1>2, FS_AddElement
<1>10. pid' \in [Procs -> 0..MAX_PID-1]
  BY <1>1, PidAssumption
<1> QED BY <1>7, <1>8, <1>9, <1>10 DEF PidInv

LEMMA ForkFastInv ==
  ASSUME TableInv, NEW p \in Procs, NEW c \in Procs, fork_fast(p, c)
  PROVE  TableInv'
<1>1. get_pid_fast /\ Hash(p, c) /\ L!set_links(p, c)
  BY DEF fork_fast, Hash
<1>2. Inv' /\ LinkInv'
  BY <1>1, FastInv, SetLinksInv DEF TableInv
<1>3. /\ last_pid' = last_pid + 1 /\ Link(last_pid') /\ scanning' = scanning /\ ~scanning
      /\ last_pid + 1 < next_safe /\ last_pid + 1 < MAX_PID
  BY <1>1 DEF get_pid_fast, Link
<1>4. last_pid' \in 1..MAX_PID-1
  BY <1>3, PidAssumption DEF TableInv, Inv, TypeOK
<1>5. last_pid' \notin InUse
  <2>1. ~(last_pid < last_pid + 1 /\ last_pid + 1 < next_safe) \/ last_pid + 1 \notin InUse
    BY <1>3 DEF TableInv, Inv, IntervalIsFree
  <2> QED BY <1>3, <2>1 DEF TableInv, Inv, TypeOK
<1>6. PidInv'
  BY <1>1, <1>3, <1>4, <1>5, HashInv
<1>7. ForksInv'
  BY <1>3 DEF ForksInv
<1> QED BY <1>2, <1>6, <1>7 DEF TableInv

\* PidInv is about the list, the pids and who is linked only.
LEMMA PidInvUnchanged ==
  ASSUME PidInv, UNCHANGED <<proc_list, pid, linked>>
  PROVE  PidInv'
BY DEF PidInv, InUse

LEMMA LinkInvUnchanged ==
  ASSUME LinkInv, UNCHANGED links
  PROVE  LinkInv'
<1>1. /\ linked' = linked /\ zombie' = zombie /\ exits' = exits
      /\ parent' = parent /\ cptr' = cptr /\ optr' = optr /\ yptr' = yptr
  BY DEF links
<1> QED BY <1>1 DEF LinkInv, L!TypeOK, L!Pointer, FamilyInv, YoungestInv, OlderInv, YoungerInv, AgeInv, Aged

LEMMA ForkScanInv ==
  ASSUME TableInv, NEW p \in Procs, NEW c \in Procs, fork_scan(p, c)
  PROVE  TableInv'
<1>1. get_pid_scan /\ UNCHANGED <<links, pid>> /\ forks' = <<p, c>> /\ UNCHANGED proc_list
  BY DEF fork_scan, get_pid_scan
<1>2. Inv' /\ LinkInv'
  BY <1>1, ScanInv, LinkInvUnchanged DEF TableInv
<1>3. PidInv'
  BY <1>1, PidInvUnchanged DEF TableInv, links
<1>4. ForksInv'
  BY <1>1 DEF ForksInv
<1> QED BY <1>2, <1>3, <1>4 DEF TableInv

LEMMA ForkLoopInv ==
  ASSUME TableInv, fork_loop
  PROVE  TableInv'
<1>1. get_pid_loop /\ UNCHANGED <<links, pid, forks>> /\ UNCHANGED <<proc_list, scanning>>
  BY DEF fork_loop, get_pid_loop
<1>2. Inv' /\ LinkInv'
  BY <1>1, LoopInv, LinkInvUnchanged DEF TableInv
<1>3. PidInv'
  BY <1>1, PidInvUnchanged DEF TableInv, links
<1>4. ForksInv'
  BY <1>1 DEF TableInv, ForksInv
<1> QED BY <1>2, <1>3, <1>4 DEF TableInv

LEMMA ForkDoneInv ==
  ASSUME TableInv, fork_done
  PROVE  TableInv'
<1>1. get_pid_done /\ Hash(forks[1], forks[2]) /\ L!set_links(forks[1], forks[2]) /\ scanning
  BY DEF fork_done, Hash, get_pid_done
<1>2. forks[1] \in Procs /\ forks[2] \in Procs
  BY <1>1 DEF TableInv, ForksInv
<1>3. Inv' /\ LinkInv'
  BY <1>1, <1>2, DoneInv, SetLinksInv DEF TableInv
<1>4. last_pid' = last_pid /\ Link(last_pid') /\ ~scanning' /\ le = Len(proc_list)
  BY <1>1 DEF get_pid_done, Link
<1>5. last_pid' \in 1..MAX_PID-1
  BY <1>1, <1>4, PidAssumption DEF TableInv, Inv, TypeOK, ScanSound
<1>6. last_pid' \notin InUse
  BY <1>1, <1>4 DEF TableInv, Inv, ScanSound, InUse
<1>7. PidInv'
  BY <1>1, <1>2, <1>4, <1>5, <1>6, HashInv
<1>8. ForksInv'
  BY <1>4 DEF ForksInv
<1> QED BY <1>3, <1>7, <1>8 DEF TableInv

LEMMA ExitInv ==
  ASSUME TableInv, exit
  PROVE  TableInv'
<1>1. LinkInv'
  BY DoExitInv, AdoptInv, AdoptDoneInv DEF exit, TableInv
<1>2. UNCHANGED <<table, pid, forks>>
  BY DEF exit
<1>3. linked' = linked
  BY DEF exit, L!do_exit, L!Adopt, L!AdoptDone
<1>4. Inv'
  BY <1>2, NextInv DEF TableInv, vars, table
<1>5. PidInv' /\ ForksInv'
  BY <1>2, <1>3, PidInvUnchanged DEF TableInv, table, ForksInv
<1> QED BY <1>1, <1>4, <1>5 DEF TableInv

\* Reaping a zombie takes its pid, and no other, out of the list.
LEMMA UnhashInv ==
  ASSUME TableInv, exits = NULL, NEW c \in zombie, L!remove_links(c), Unhash(c)
  PROVE  TableInv'
<1>1. remove_links /\ pid[c] \notin InUse' /\ pid' = [pid EXCEPT ![c] = 0] /\ forks' = forks
  BY DEF Unhash
<1>2. Inv' /\ LinkInv'
  BY <1>1, RemoveInv, RemoveLinksInv DEF TableInv
<1>3. /\ linked' = linked \ {c} /\ c \in linked /\ linked \subseteq Procs
      /\ pid \in [Procs -> 0..MAX_PID-1] /\ IsFiniteSet(linked) /\ Cardinality(linked) = Len(proc_list)
      /\ InUse = {pid[q] : q \in linked} /\ \A x, q \in linked : pid[x] = pid[q] => x = q
  BY DEF L!remove_links, TableInv, LinkInv, L!TypeOK, PidInv
<1>4. PICK n \in 1..Len(proc_list) :
        proc_list' = SubSeq(proc_list, 1, n - 1) \o SubSeq(proc_list, n + 1, Len(proc_list))
  BY <1>1 DEF remove_links
<1>5. /\ Len(proc_list') = Len(proc_list) - 1 /\ Len(proc_list) \in Nat
      /\ \A k \in 1..Len(proc_list') : proc_list'[k] = IF k < n THEN proc_list[k] ELSE proc_list[k+1]
  BY <1>4, RemoveFacts, LenProperties DEF TableInv, Inv, TypeOK
<1>6. ASSUME NEW k \in 1..Len(proc_list), k # n PROVE proc_list[k] \in InUse'
  <2>1. CASE k < n
    <3>1. k \in 1..Len(proc_list') /\ proc_list'[k] = proc_list[k]
      BY <1>5, <2>1
    <3> QED BY <3>1 DEF InUse
  <2>2. CASE ~(k < n)
    <3>1. k - 1 \in 1..Len(proc_list') /\ ~(k - 1 < n) /\ (k - 1) + 1 = k
      BY <1>5, <1>6, <2>2
    <3>2. proc_list'[k - 1] = proc_list[k]
      BY <1>5, <3>1
    <3> QED BY <3>1, <3>2 DEF InUse
  <2> QED BY <2>1, <2>2
<1>7. pid[c] = proc_list[n]
  <2>1. PICK k \in 1..Len(proc_list) : proc_list[k] = pid[c]
    BY <1>3 DEF InUse
  <2> QED BY <1>1, <1>6, <2>1
<1>8. InUse' \subseteq InUse
  <2>1. ASSUME NEW k \in 1..Len(proc_list') PROVE proc_list'[k] \in InUse
    <3>1. k \in 1..Len(proc_list) /\ k + 1 \in 1..Len(proc_list)
      BY <1>5
    <3> QED BY <1>5, <3>1 DEF InUse
  <2> QED BY <2>1 DEF InUse
<1>9. InUse \subseteq InUse' \cup {pid[c]}
  BY <1>6, <1>7 DEF InUse
<1>10. InUse' = InUse \ {pid[c]}
  BY <1>1, <1>8, <1>9
<1>11. \A q \in linked' : q \in linked /\ q # c /\ pid'[q] = pid[q]
  BY <1>1, <1>3
<1>12. InUse' = {pid'[q] : q \in linked'}
  BY <1>3, <1>10, <1>11
<1>13. \A x, q \in linked' : pid'[x] = pid'[q] => x = q
  BY <1>3, <1>11
<1>14. IsFiniteSet(linked') /\ Cardinality(linked') = Len(proc_list')
  BY <1>3, <1>5, FS_RemoveElement
<1>15. pid' \in [Procs -> 0..MAX_PID-1]
  BY <1>1, <1>3, PidAssumption
<1>16. PidInv'
  BY <1>12, <1>13, <1>14, <1>15 DEF PidInv
<1>17. ForksInv'
  BY <1>1 DEF remove_links, ForksInv
<1> QED BY <1>2, <1>16, <1>17 DEF TableInv

LEMMA WaitPidInv ==
  ASSUME TableInv, NEW p \in Procs, NEW n \in 1..MAX_PID-1, wait_pid(p, n)
  PROVE  TableInv'
<1>1. PICK c \in find_proc(n) : L!do_wait_pid(p, c) /\ Unhash(c)
  BY DEF wait_pid
<1>2. exits = NULL /\ c \in zombie /\ L!remove_links(c)
  BY <1>1 DEF L!do_wait_pid, L!Runs
<1> QED BY <1>1, <1>2, UnhashInv

LEMMA WaitAnyInv ==
  ASSUME TableInv, NEW p \in Procs, wait_any(p)
  PROVE  TableInv'
<1>1. PICK z \in zombie : L!remove_links(z)
  BY DEF wait_any, L!do_wait_any
<1>2. exits = NULL
  BY DEF wait_any, L!do_wait_any, L!Runs
<1>3. PICK c \in linked : linked' = linked \ {c} /\ Unhash(c)
  BY DEF wait_any
<1>4. c = z
  BY <1>1, <1>3 DEF L!remove_links, TableInv, LinkInv, L!TypeOK
<1> QED BY <1>1, <1>2, <1>3, <1>4, UnhashInv

LEMMA TableNextInv == TableInv /\ [TableNext]_allVars => TableInv'
<1> SUFFICES ASSUME TableInv, [TableNext]_allVars PROVE TableInv'
  OBVIOUS
<1>1. CASE UNCHANGED allVars
  <2>1. UNCHANGED links /\ UNCHANGED vars /\ UNCHANGED <<pid, forks>>
    BY <1>1 DEF allVars, table, vars
  <2>2. Inv' /\ LinkInv'
    BY <2>1, NextInv, LinkInvUnchanged DEF TableInv
  <2>3. PidInv' /\ ForksInv'
    BY <2>1, PidInvUnchanged DEF TableInv, links, vars, ForksInv
  <2> QED BY <2>2, <2>3 DEF TableInv
<1>2. CASE TableNext
  BY <1>2, ForkFastInv, ForkScanInv, ForkLoopInv, ForkDoneInv, ExitInv, WaitAnyInv, WaitPidInv DEF TableNext
<1> QED BY <1>1, <1>2

\* The pids of the whole table, not only of get_pid by itself, are unique.
THEOREM TablePidsUnique == TableSpec => [](PidsAreUnique /\ IntervalIsFree)
<1>1. TableInv => PidsAreUnique /\ IntervalIsFree
  BY DEF TableInv, Inv
<1> QED BY <1>1, ProcInitInv, TableNextInv, PTL DEF TableSpec

\* The hash table, proc_list, nr_process and the family links of set_links and
\* remove_links hold the same processes, whatever is forked, orphaned and reaped.
THEOREM TheTablesAgree == TableSpec => []TablesAgree
<1>1. TableInv => TablesAgree
  <2> SUFFICES ASSUME TableInv PROVE TablesAgree
    OBVIOUS
  <2>1. L!LinksAreSound
    BY LinksSound DEF TableInv
  <2>2. \A p \in linked : find_proc(pid[p]) = {p}
    BY DEF TableInv, PidInv, find_proc
  <2>3. InUse = {pid[p] : p \in linked} /\ nr_process = Cardinality(linked) + 1
    BY DEF TableInv, PidInv, nr_process
  <2> QED BY <2>1, <2>2, <2>3 DEF TablesAgree
<1> QED BY <1>1, ProcInitInv, TableNextInv, PTL DEF TableSpec

-----------------------------------------------------------------------------
(* Lists of siblings. *)

\* The pointers of the processes in s are the same.
Agree(s, older, older2) == \A k \in 1..Len(s) : older2[s[k]] = older[s[k]]

\* Two lists from the same process agree as far as they go.
LEMMA ChainPrefix ==
  ASSUME NEW s \in Seq(Procs), NEW t \in Seq(Procs), NEW q, NEW older,
         L!Chain(s, q, older), L!Chain(t, q, older)
  PROVE  /\ \A k \in 1..Len(s) : k <= Len(t) => s[k] = t[k]
         /\ ~(Len(s) < Len(t))
<1>0. Len(s) \in Nat /\ Len(t) \in Nat /\ (\A k \in 1..Len(s) : s[k] \in Procs) /\ (\A k \in 1..Len(t) : t[k] \in Procs)
  BY LenProperties, ElementOfSeq
<1>1. /\ q = IF Len(s) = 0 THEN NULL ELSE s[1]
      /\ \A k \in 1..Len(s) : older[s[k]] = IF k < Len(s) THEN s[k + 1] ELSE NULL
      /\ q = IF Len(t) = 0 THEN NULL ELSE t[1]
      /\ \A k \in 1..Len(t) : older[t[k]] = IF k < Len(t) THEN t[k + 1] ELSE NULL
  BY DEF L!Chain
<1>2. ASSUME NEW k0 \in 1..Len(s), k0 <= Len(t), s[k0] # t[k0] PROVE FALSE
  <2> DEFINE Bad == {k \in 1..Len(s) : k <= Len(t) /\ s[k] # t[k]}
  <2>1. Bad \subseteq Nat /\ Bad # {}
    BY <1>0, <1>2
  <2>2. PICK k \in Bad : \A m \in Bad : ~(m < k)
    <3> HIDE DEF Bad
    <3> QED BY <2>1, LeastRank
  <2>3. k \in Nat /\ k >= 1 /\ k <= Len(s) /\ k <= Len(t) /\ s[k] # t[k]
    BY <1>0
  <2>4. k # 1
    BY <1>0, <1>1, <2>3
  <2>5. k - 1 \in 1..Len(s) /\ k - 1 \in 1..Len(t) /\ k - 1 < k /\ k - 1 < Len(s) /\ k - 1 < Len(t) /\ (k - 1) + 1 = k
    BY <1>0, <2>3, <2>4
  <2>6. k - 1 \notin Bad
    <3> HIDE DEF Bad
    <3> QED BY <2>2, <2>5
  <2>7. s[k - 1] = t[k - 1]
    BY <2>5, <2>6
  <2>8. older[s[k - 1]] = s[k] /\ older[t[k - 1]] = t[k]
    BY <1>1, <2>5
  <2> QED BY <2>3, <2>7, <2>8
<1>3. ASSUME Len(s) < Len(t) PROVE FALSE
  <2>1. CASE Len(s) = 0
    <3>1. Len(t) # 0 /\ 1 \in 1..Len(t)
      BY <1>0, <1>3, <2>1
    <3> QED BY <1>0, <1>1, <2>1, <3>1, NamesAssumption
  <2>2. CASE Len(s) # 0
    <3> DEFINE m == Len(s)
    <3>1. m \in 1..Len(s) /\ m \in 1..Len(t) /\ m <= Len(t) /\ m < Len(t) /\ m + 1 \in 1..Len(t) /\ ~(m < Len(s))
      BY <1>0, <1>3, <2>2
    <3>2. s[m] = t[m]
      BY <1>2, <3>1
    <3> HIDE DEF m
    <3>3. older[s[m]] = NULL /\ older[t[m]] = t[m + 1]
      BY <1>1, <3>1
    <3> QED BY <1>0, <3>1, <3>2, <3>3, NamesAssumption
  <2> QED BY <2>1, <2>2
<1> QED BY <1>2, <1>3

\* The pointers determine the list.
LEMMA ChainUnique ==
  ASSUME NEW s \in Seq(Procs), NEW t \in Seq(Procs), NEW q, NEW older,
         L!Chain(s, q, older), L!Chain(t, q, older)
  PROVE  s = t
<1>1. Len(s) \in Nat /\ Len(t) \in Nat
  BY LenProperties
<1>2. ~(Len(s) < Len(t)) /\ ~(Len(t) < Len(s))
  BY ChainPrefix
<1>3. Len(s) = Len(t)
  BY <1>1, <1>2
<1>4. \A k \in 1..Len(s) : k <= Len(t) => s[k] = t[k]
  BY ChainPrefix
<1>5. \A k \in 1..Len(s) : s[k] = t[k]
  BY <1>1, <1>3, <1>4
<1> QED BY <1>3, <1>5, SeqEqual

\* Nobody is twice in a list: it would not end.
LEMMA ChainDistinct ==
  ASSUME NEW s \in Seq(Procs), NEW q, NEW older, L!Chain(s, q, older),
         NEW i \in 1..Len(s), NEW j \in 1..Len(s), s[i] = s[j]
  PROVE  i = j
<1>0. Len(s) \in Nat /\ \A k \in 1..Len(s) : s[k] \in Procs
  BY LenProperties, ElementOfSeq
<1>1. \A k \in 1..Len(s) : older[s[k]] = IF k < Len(s) THEN s[k + 1] ELSE NULL
  BY DEF L!Chain
<1>2. ASSUME NEW a \in 1..Len(s), NEW b \in 1..Len(s), a < b, s[a] = s[b] PROVE FALSE
  <2> DEFINE Bad == {k \in 0..(Len(s) - b) : s[a + k] # s[b + k]}
  <2>1. Bad = {}
    <3> SUFFICES ASSUME Bad # {} PROVE FALSE
      OBVIOUS
    <3>1. Bad \subseteq Nat
      BY <1>0
    <3>2. PICK k \in Bad : \A m \in Bad : ~(m < k)
      <4> HIDE DEF Bad
      <4> QED BY <3>1, LeastRank
    <3>3. k \in Nat /\ k <= Len(s) - b /\ s[a + k] # s[b + k]
      BY <1>0
    <3>4. k # 0
      BY <1>0, <1>2, <3>3
    <3>5. k - 1 \in 0..(Len(s) - b) /\ k - 1 < k
      BY <1>0, <3>3, <3>4
    <3>6. k - 1 \notin Bad
      <4> HIDE DEF Bad
      <4> QED BY <3>2, <3>5
    <3>7. s[a + (k - 1)] = s[b + (k - 1)]
      BY <3>5, <3>6
    <3>8. /\ a + (k - 1) \in 1..Len(s) /\ a + (k - 1) < Len(s) /\ a + (k - 1) + 1 = a + k
          /\ b + (k - 1) \in 1..Len(s) /\ b + (k - 1) < Len(s) /\ b + (k - 1) + 1 = b + k
      BY <1>0, <1>2, <3>3, <3>4
    <3>9. older[s[a + (k - 1)]] = s[a + k] /\ older[s[b + (k - 1)]] = s[b + k]
      BY <1>1, <3>8
    <3> QED BY <3>3, <3>7, <3>9
  <2> DEFINE m == Len(s) - b
             x == a + m
  <2>2. m \in 0..(Len(s) - b) /\ b + m = Len(s) /\ x \in 1..Len(s) /\ x < Len(s) /\ x + 1 \in 1..Len(s)
    BY <1>0, <1>2
  <2>3. s[x] = s[b + m]
    BY <2>1, <2>2
  <2>4. s[x] = s[Len(s)]
    BY <2>2, <2>3
  <2> HIDE DEF x
  <2>5. older[s[x]] = s[x + 1] /\ s[x + 1] \in Procs
    BY <1>0, <1>1, <2>2
  <2>6. Len(s) \in 1..Len(s) /\ ~(Len(s) < Len(s))
    BY <1>0, <2>2
  <2>7. older[s[Len(s)]] = NULL
    BY <1>1, <2>6
  <2> QED BY <2>4, <2>5, <2>7, NamesAssumption
<1>3. ~(i < j) /\ ~(j < i)
  BY <1>2
<1> QED BY <1>0, <1>3

\* Steps that leave a list alone.
LEMMA ChainKept ==
  ASSUME NEW s, NEW q, NEW older, NEW older2, L!Chain(s, q, older), Agree(s, older, older2)
  PROVE  L!Chain(s, q, older2)
BY DEF L!Chain, Agree

\* set_links: a process in front.
LEMMA ChainCons ==
  ASSUME NEW s \in Seq(Procs), NEW q, NEW older, NEW older2, NEW c \in Procs,
         L!Chain(s, q, older), Agree(s, older, older2), older2[c] = q
  PROVE  /\ <<c>> \o s \in Seq(Procs) /\ L!Chain(<<c>> \o s, c, older2)
<1> DEFINE t == <<c>> \o s
<1>0. Len(s) \in Nat
  BY LenProperties
<1>1. <<c>> \in Seq(Procs) /\ Len(<<c>>) = 1 /\ <<c>>[1] = c
  OBVIOUS
<1>2. t \in Seq(Procs) /\ Len(t) = 1 + Len(s) /\ \A k \in 1..(1 + Len(s)) : t[k] = IF k <= 1 THEN <<c>>[k] ELSE s[k - 1]
  BY <1>1, ConcatProperties
<1> HIDE DEF t
<1>3. t[1] = c /\ \A k \in 1..Len(s) : t[k + 1] = s[k]
  BY <1>0, <1>1, <1>2
<1>4. L!Chain(s, q, older2)
  BY ChainKept
<1>5. ASSUME NEW k \in 1..Len(t) PROVE older2[t[k]] = IF k < Len(t) THEN t[k + 1] ELSE NULL
  <2>1. CASE k = 1
    BY <1>0, <1>2, <1>3, <1>4, <2>1 DEF L!Chain
  <2>2. CASE k # 1
    <3>1. k - 1 \in 1..Len(s) /\ (k - 1) + 1 = k /\ (k < Len(t) <=> k - 1 < Len(s)) /\ (k < Len(t) => k \in 1..Len(s))
      BY <1>0, <1>2, <2>2
    <3>2. t[k] = s[k - 1]
      BY <1>3, <3>1
    <3>3. older2[s[k - 1]] = IF k - 1 < Len(s) THEN s[k] ELSE NULL
      BY <1>4, <3>1 DEF L!Chain
    <3> QED BY <1>3, <3>1, <3>2, <3>3
  <2> QED BY <2>1, <2>2
<1>6. L!Chain(t, c, older2)
  BY <1>0, <1>2, <1>3, <1>5 DEF L!Chain
<1> QED BY <1>2, <1>6 DEF t

\* The loop of do_exit: the list without its head.
LEMMA ChainTail ==
  ASSUME NEW s \in Seq(Procs), NEW q \in Procs, NEW older, L!Chain(s, q, older)
  PROVE  /\ s # <<>> /\ Len(s) \in Nat \ {0} /\ Head(s) = q /\ Tail(s) \in Seq(Procs)
         /\ L!Chain(Tail(s), older[q], older)
         /\ \A k \in 1..Len(Tail(s)) : k + 1 \in 1..Len(s) /\ Tail(s)[k] = s[k + 1]
<1>0. Len(s) \in Nat
  BY LenProperties
<1>1. Len(s) # 0 /\ s[1] = q
  BY NamesAssumption DEF L!Chain
<1>2. s # <<>>
  BY <1>1, EmptySeq
<1> DEFINE t == Tail(s)
<1>3. t \in Seq(Procs) /\ Len(t) = Len(s) - 1 /\ \A k \in 1..Len(t) : t[k] = s[k + 1]
  BY <1>2, HeadTailProperties
<1>4. Head(s) = q
  BY <1>1, <1>2
<1> HIDE DEF t
<1>5. L!Chain(t, older[q], older)
  <2>1. older[q] = IF Len(t) = 0 THEN NULL ELSE t[1]
    BY <1>0, <1>1, <1>3 DEF L!Chain
  <2>2. ASSUME NEW k \in 1..Len(t) PROVE older[t[k]] = IF k < Len(t) THEN t[k + 1] ELSE NULL
    <3>1. k + 1 \in 1..Len(s) /\ (k < Len(t) <=> k + 1 < Len(s)) /\ (k < Len(t) => k + 1 \in 1..Len(t))
      BY <1>0, <1>3
    <3>2. older[s[k + 1]] = IF k + 1 < Len(s) THEN s[(k + 1) + 1] ELSE NULL
      BY <3>1 DEF L!Chain
    <3> QED BY <1>3, <3>1, <3>2
  <2> QED BY <2>1, <2>2 DEF L!Chain
<1>6. \A k \in 1..Len(t) : k + 1 \in 1..Len(s) /\ t[k] = s[k + 1]
  BY <1>0, <1>3
<1> QED BY <1>0, <1>1, <1>2, <1>3, <1>4, <1>5, <1>6 DEF t

\* remove_links takes the k-th process out of a list.
Rewired(s, k, older, older2) ==
  \A j \in 1..Len(s) : j # k => older2[s[j]] = IF j = k - 1 THEN older[s[k]] ELSE older[s[j]]

LEMMA ChainCut ==
  ASSUME NEW s \in Seq(Procs), NEW q, NEW older, NEW older2, NEW k \in 1..Len(s), NEW first,
         L!Chain(s, q, older), Rewired(s, k, older, older2),
         first = IF k = 1 THEN older[s[k]] ELSE q
  PROVE  Cut(s, k) \in Seq(Procs) /\ L!Chain(Cut(s, k), first, older2)
<1> DEFINE t == Cut(s, k)
<1>0. Len(s) \in Nat /\ k \in Nat /\ k >= 1 /\ k <= Len(s)
  BY LenProperties
<1>1. t \in Seq(Procs) /\ Len(t) = Len(s) - 1 /\ \A j \in 1..Len(t) : t[j] = IF j < k THEN s[j] ELSE s[j + 1]
  BY CutFacts
<1> HIDE DEF t
<1>2. /\ q = IF Len(s) = 0 THEN NULL ELSE s[1]
      /\ \A j \in 1..Len(s) : older[s[j]] = IF j < Len(s) THEN s[j + 1] ELSE NULL
  BY DEF L!Chain
<1>3. first = IF Len(t) = 0 THEN NULL ELSE t[1]
  <2>1. CASE k = 1
    BY <1>0, <1>1, <1>2, <2>1
  <2>2. CASE k # 1
    <3>1. 1 \in 1..Len(t) /\ 1 < k /\ Len(t) # 0 /\ Len(s) # 0
      BY <1>0, <1>1, <2>2
    <3> QED BY <1>1, <1>2, <2>2, <3>1
  <2> QED BY <2>1, <2>2
<1>4. ASSUME NEW j \in 1..Len(t) PROVE older2[t[j]] = IF j < Len(t) THEN t[j + 1] ELSE NULL
  <2>1. CASE j < k - 1
    <3>1. j \in 1..Len(s) /\ j # k /\ j < Len(s) /\ j < k /\ j + 1 \in 1..Len(t) /\ j + 1 < k /\ j < Len(t)
      BY <1>0, <1>1, <2>1
    <3>2. older2[s[j]] = older[s[j]] /\ older[s[j]] = s[j + 1]
      BY <1>0, <1>2, <2>1, <3>1 DEF Rewired
    <3> QED BY <1>1, <3>1, <3>2
  <2>2. CASE j = k - 1
    <3>1. j \in 1..Len(s) /\ j # k /\ j < k /\ j + 1 = k /\ (j < Len(t) <=> k < Len(s)) /\ (k < Len(s) => k \in 1..Len(t)) /\ ~(k < k)
      BY <1>0, <1>1, <2>2
    <3>2. older2[s[j]] = older[s[k]] /\ older[s[k]] = IF k < Len(s) THEN s[k + 1] ELSE NULL
      BY <1>2, <2>2, <3>1 DEF Rewired
    <3> QED BY <1>1, <3>1, <3>2
  <2>3. CASE j >= k
    <3>1. /\ j + 1 \in 1..Len(s) /\ j + 1 # k /\ j + 1 # k - 1 /\ ~(j < k) /\ (j < Len(t) <=> j + 1 < Len(s))
          /\ ~(j + 1 < k) /\ (j < Len(t) => j + 1 \in 1..Len(t))
      BY <1>0, <1>1, <2>3
    <3>2. older2[s[j + 1]] = older[s[j + 1]] /\ older[s[j + 1]] = IF j + 1 < Len(s) THEN s[(j + 1) + 1] ELSE NULL
      BY <1>2, <3>1 DEF Rewired
    <3> QED BY <1>1, <3>1, <3>2
  <2> QED BY <1>0, <1>1, <2>1, <2>2, <2>3
<1>5. L!Chain(t, first, older2)
  BY <1>3, <1>4 DEF L!Chain
<1> QED BY <1>1, <1>5 DEF t

-----------------------------------------------------------------------------
(* The lists of children. *)

\* The list of p holds children of p.
LEMMA ChainIn ==
  ASSUME LinkInv, NEW p \in linked \cup {idleproc}, NEW s \in Seq(Procs), L!Chain(s, cptr[p], optr)
  PROVE  \A k \in 1..Len(s) : s[k] \in linked /\ parent[s[k]] = p
<1>0. Len(s) \in Nat /\ \A k \in 1..Len(s) : s[k] \in Procs /\ s[k] # NULL
  BY LenProperties, ElementOfSeq, NamesAssumption
<1>1. /\ cptr[p] = IF Len(s) = 0 THEN NULL ELSE s[1]
      /\ \A k \in 1..Len(s) : optr[s[k]] = IF k < Len(s) THEN s[k + 1] ELSE NULL
  BY DEF L!Chain
<1> DEFINE Bad == {k \in 1..Len(s) : ~(s[k] \in linked /\ parent[s[k]] = p)}
<1> SUFFICES ASSUME Bad # {} PROVE FALSE
  OBVIOUS
<1>2. Bad \subseteq Nat
  BY <1>0
<1>3. PICK k \in Bad : \A m \in Bad : ~(m < k)
  <2> HIDE DEF Bad
  <2> QED BY <1>2, LeastRank
<1>4. k \in 1..Len(s) /\ ~(s[k] \in linked /\ parent[s[k]] = p)
  OBVIOUS
<1>5. k # 1
  BY <1>0, <1>1, <1>4 DEF LinkInv, YoungestInv
<1>6. k - 1 \in 1..Len(s) /\ k - 1 < k /\ k - 1 < Len(s) /\ (k - 1) + 1 = k
  BY <1>0, <1>4, <1>5
<1>7. k - 1 \notin Bad
  <2> HIDE DEF Bad
  <2> QED BY <1>3, <1>6
<1>8. s[k - 1] \in linked /\ parent[s[k - 1]] = p
  BY <1>6, <1>7
<1>9. optr[s[k - 1]] = s[k] /\ s[k] # NULL
  BY <1>0, <1>1, <1>4, <1>6
<1> QED BY <1>4, <1>8, <1>9 DEF LinkInv, OlderInv

\* The list of p holds all its children: the youngest that it missed would follow one in the list.
LEMMA ChainHas ==
  ASSUME LinkInv, NEW c \in linked, NEW s \in Seq(Procs), L!Chain(s, cptr[parent[c]], optr)
  PROVE  \E k \in 1..Len(s) : s[k] = c
<1> USE NamesAssumption
<1> DEFINE p == parent[c]
<1> SUFFICES ASSUME ~\E k \in 1..Len(s) : s[k] = c PROVE FALSE
  OBVIOUS
<1>0. Len(s) \in Nat /\ linked \subseteq Procs
  BY LenProperties DEF LinkInv, L!TypeOK
<1>1. PICK rank \in [Procs -> Nat] : Aged(rank)
  BY DEF LinkInv, AgeInv
<1> DEFINE Lost == {y \in linked : parent[y] = p /\ ~\E k \in 1..Len(s) : s[k] = y}
           S == {rank[x] : x \in Lost}
<1>2. S \subseteq Nat /\ S # {}
  BY <1>0
<1>3. PICK m \in S : \A n \in S : ~(n < m)
  <2> HIDE DEF S
  <2> QED BY <1>2, LeastRank
<1>4. PICK x \in Lost : rank[x] = m
  OBVIOUS
<1>5. x \in linked /\ x # NULL /\ parent[x] = p /\ ~\E k \in 1..Len(s) : s[k] = x
  BY <1>0
<1>6. x # cptr[p]
  <2> SUFFICES ASSUME x = cptr[p] PROVE FALSE
    OBVIOUS
  <2>1. Len(s) # 0 /\ s[1] = x
    BY <1>5 DEF L!Chain
  <2> QED BY <1>0, <1>5, <2>1
<1> DEFINE y == yptr[x]
<1>7. y \in linked /\ optr[y] = x
  BY <1>5, <1>6 DEF LinkInv, YoungerInv
<1> HIDE DEF y
<1>8. parent[y] = p /\ rank[y] < rank[x]
  BY <1>1, <1>5, <1>7 DEF LinkInv, OlderInv, Aged
<1>9. y \notin Lost
  <2>1. y \in Lost => rank[y] \in S
    OBVIOUS
  <2> HIDE DEF S, Lost
  <2> QED BY <1>3, <1>4, <1>8, <2>1
<1>10. PICK k \in 1..Len(s) : s[k] = y
  BY <1>7, <1>8, <1>9
<1>11. k < Len(s) /\ s[k + 1] = x
  BY <1>5, <1>7, <1>10 DEF L!Chain
<1>12. k + 1 \in 1..Len(s)
  BY <1>0, <1>11
<1> QED BY <1>5, <1>11, <1>12

\* f gives every process in lk, and idleproc, the list that its pointers make up.
Lists(f, lk, cp, op) ==
  /\ f \in [Procs -> Seq(Procs)]
  /\ \A p \in Procs : IF p \in lk \cup {idleproc} THEN L!Chain(f[p], cp[p], op) ELSE f[p] = <<>>

LEMMA ListsUnique ==
  ASSUME NEW lk, NEW cp, NEW op, NEW f, NEW g, Lists(f, lk, cp, op), Lists(g, lk, cp, op)
  PROVE  f = g
<1>1. f \in [Procs -> Seq(Procs)] /\ g \in [Procs -> Seq(Procs)]
  BY DEF Lists
<1>2. ASSUME NEW p \in Procs PROVE f[p] = g[p]
  <2>1. CASE p \in lk \cup {idleproc}
    <3>1. f[p] \in Seq(Procs) /\ g[p] \in Seq(Procs) /\ L!Chain(f[p], cp[p], op) /\ L!Chain(g[p], cp[p], op)
      BY <1>1, <2>1 DEF Lists
    <3> QED BY <3>1, ChainUnique
  <2>2. CASE p \notin lk \cup {idleproc}
    BY <2>2 DEF Lists
  <2> QED BY <2>1, <2>2
<1> QED BY <1>1, <1>2

\* What Lists says about the children of linked processes.
LEMMA ListFacts ==
  ASSUME LinkInv, NEW f, Lists(f, linked, cptr, optr), NEW p \in linked \cup {idleproc}
  PROVE  /\ p \in Procs /\ f[p] \in Seq(Procs) /\ L!Chain(f[p], cptr[p], optr) /\ Len(f[p]) \in Nat
         /\ \A k \in 1..Len(f[p]) : f[p][k] \in linked /\ parent[f[p][k]] = p
<1>1. p \in Procs
  BY NamesAssumption DEF LinkInv, L!TypeOK
<1>2. f[p] \in Seq(Procs) /\ L!Chain(f[p], cptr[p], optr)
  BY <1>1 DEF Lists
<1>3. Len(f[p]) \in Nat
  BY <1>2, LenProperties
<1> QED BY <1>1, <1>2, <1>3, ChainIn

\* A list is no longer than there are processes.
LEMMA ChainShort ==
  ASSUME NEW S, IsFiniteSet(S), S \subseteq Procs, NEW s \in Seq(Procs), NEW q, NEW older,
         L!Chain(s, q, older), \A k \in 1..Len(s) : s[k] \in S
  PROVE  s \in [1..Len(s) -> S] /\ Len(s) \in 0..Cardinality(S)
<1>0. Len(s) \in Nat /\ DOMAIN s = 1..Len(s) /\ s \in [1..Len(s) -> Procs]
  BY LenProperties
<1>1. s \in [1..Len(s) -> S]
  BY <1>0
<1>2. \A i, j \in 1..Len(s) : s[i] = s[j] => i = j
  BY ChainDistinct
<1>3. s \in Injection(1..Len(s), S)
  BY <1>0, <1>1, <1>2 DEF Injection, IsInjective
<1>4. Cardinality(1..Len(s)) <= Cardinality(S)
  BY <1>3, FS_Injection
<1>5. Cardinality(1..Len(s)) = Len(s)
  <2>1. ASSUME NEW n \in Int PROVE Cardinality(1..n) = IF 1 > n THEN 0 ELSE n - 1 + 1
    BY FS_Interval
  <2> QED BY <1>0, <2>1
<1>6. Cardinality(S) \in Nat
  BY FS_CardinalityType
<1> QED BY <1>0, <1>1, <1>4, <1>5, <1>6

\* Children(p) is the list that the pointers make up.
LEMMA ChildrenIs ==
  ASSUME LinkInv, IsFiniteSet(linked), NEW p \in linked \cup {idleproc},
         NEW s \in Seq(Procs), L!Chain(s, cptr[p], optr)
  PROVE  L!Children(p) = s
<1>0. linked \subseteq Procs
  BY DEF LinkInv, L!TypeOK
<1>1. \A k \in 1..Len(s) : s[k] \in linked
  BY ChainIn
<1>2. s \in [1..Len(s) -> linked] /\ Len(s) \in 0..Cardinality(linked)
  BY <1>0, <1>1, ChainShort
<1> DEFINE n == CHOOSE n \in 0..L!Cardinality(linked) : \E t \in [1..n -> linked] : L!Chain(t, cptr[p], optr)
<1>3. L!Cardinality(linked) = Cardinality(linked)
  BY DEF L!Cardinality, Cardinality
<1>4. n \in 0..Cardinality(linked) /\ \E t \in [1..n -> linked] : L!Chain(t, cptr[p], optr)
  BY <1>2, <1>3
<1>5. n \in Nat
  BY <1>4
<1> DEFINE t == CHOOSE t \in [1..n -> linked] : L!Chain(t, cptr[p], optr)
<1>6. L!Children(p) = t
  BY DEF L!Children
<1> HIDE DEF n
<1>7. t \in [1..n -> linked] /\ L!Chain(t, cptr[p], optr)
  BY <1>4
<1> HIDE DEF t
<1>8. t \in Seq(Procs)
  <2>1. t \in [1..n -> Procs]
    BY <1>0, <1>7
  <2> QED BY <1>5, <2>1, SeqDef
<1> QED BY <1>6, <1>7, <1>8, ChainUnique

LEMMA ChildrenAre ==
  ASSUME LinkInv, IsFiniteSet(linked), NEW f, Lists(f, linked, cptr, optr)
  PROVE  children = f
<1>1. f \in [Procs -> Seq(Procs)]
  BY DEF Lists
<1>2. ASSUME NEW p \in Procs PROVE f[p] = IF p \in linked \cup {idleproc} THEN L!Children(p) ELSE <<>>
  <2>1. CASE p \in linked \cup {idleproc}
    <3>1. f[p] \in Seq(Procs) /\ L!Chain(f[p], cptr[p], optr)
      BY <1>1, <2>1 DEF Lists
    <3>2. L!Children(p) = f[p]
      BY <2>1, <3>1, ChildrenIs
    <3> QED BY <2>1, <3>2
  <2>2. CASE p \notin linked \cup {idleproc}
    BY <2>2 DEF Lists
  <2> QED BY <2>1, <2>2
<1>3. f = [p \in Procs |-> IF p \in linked \cup {idleproc} THEN L!Children(p) ELSE <<>>]
  BY <1>1, <1>2
<1> QED BY <1>3 DEF children

\* set_links: the child comes first in the list of its parent.
LEMMA SetLinksLists ==
  ASSUME LinkInv, NEW f, Lists(f, linked, cptr, optr), NEW p \in Procs, NEW c \in Procs, L!set_links(p, c)
  PROVE  Lists([f EXCEPT ![p] = << c >> \o @, ![c] = <<>>], linked', cptr', optr')
<1> USE NamesAssumption
<1> DEFINE g == [f EXCEPT ![p] = << c >> \o @, ![c] = <<>>]
<1>1. /\ p \in linked /\ c \notin linked /\ c # idleproc /\ c # p /\ linked' = linked \cup {c}
  BY DEF L!set_links, L!Runs
<1>2. linked \subseteq Procs /\ cptr \in L!Pointer /\ optr \in L!Pointer /\ f \in [Procs -> Seq(Procs)]
  BY DEF LinkInv, L!TypeOK, Lists
<1>3. \A x \in Procs :
        /\ cptr'[x] = IF x = p THEN c ELSE IF x = c THEN NULL ELSE cptr[x]
        /\ optr'[x] = IF x = c THEN cptr[p] ELSE optr[x]
  BY <1>1, <1>2 DEF L!set_links, L!Elder, L!Pointer
<1>4. ASSUME NEW x \in linked \cup {idleproc} PROVE L!Chain(f[x], cptr[x], optr) /\ Agree(f[x], optr, optr') /\ f[x] \in Seq(Procs)
  <2>1. L!Chain(f[x], cptr[x], optr) /\ f[x] \in Seq(Procs) /\ \A k \in 1..Len(f[x]) : f[x][k] \in linked
    BY ListFacts
  <2> QED BY <1>1, <1>2, <1>3, <2>1 DEF Agree
<1>5. << c >> \o f[p] \in Seq(Procs) /\ L!Chain(<< c >> \o f[p], c, optr')
  BY <1>1, <1>3, <1>4, ChainCons
<1>6. \A x \in Procs : g[x] = IF x = c THEN <<>> ELSE IF x = p THEN << c >> \o f[p] ELSE f[x]
  BY <1>1, <1>2
<1>7. g \in [Procs -> Seq(Procs)]
  BY <1>2, <1>5, EmptySeq
<1> HIDE DEF g
<1>8. ASSUME NEW x \in Procs
      PROVE  IF x \in linked' \cup {idleproc} THEN L!Chain(g[x], cptr'[x], optr') ELSE g[x] = <<>>
  <2>1. CASE x = p
    BY <1>1, <1>3, <1>5, <1>6, <2>1
  <2>2. CASE x = c
    <3>1. g[x] = <<>> /\ cptr'[x] = NULL /\ Len(<<>>) = 0
      BY <1>1, <1>3, <1>6, <2>2
    <3> QED BY <1>1, <2>2, <3>1 DEF L!Chain
  <2>3. CASE x # p /\ x # c
    <3>1. g[x] = f[x] /\ cptr'[x] = cptr[x] /\ (x \in linked' <=> x \in linked)
      BY <1>1, <1>3, <1>6, <2>3
    <3>2. x \in linked \cup {idleproc} => L!Chain(f[x], cptr[x], optr')
      BY <1>4, ChainKept
    <3> QED BY <3>1, <3>2 DEF Lists
  <2> QED BY <2>1, <2>2, <2>3
<1> QED BY <1>7, <1>8 DEF Lists, g

\* One iteration of the loop of do_exit: the first of the list goes to the front of initproc's.
LEMMA AdoptLists ==
  ASSUME LinkInv, NEW f, Lists(f, linked, cptr, optr), L!Adopt
  PROVE  /\ exits \in Procs \ {initproc} /\ f[exits] # <<>>
         /\ Lists([f EXCEPT ![exits] = Tail(@), ![initproc] = << Head(f[exits]) >> \o @], linked', cptr', optr')
<1> USE NamesAssumption
<1> DEFINE p == exits
           c == cptr[exits]
           g == [f EXCEPT ![p] = Tail(@), ![initproc] = << Head(f[p]) >> \o @]
<1>1. exits # NULL /\ c # NULL /\ linked' = linked
  BY DEF L!Adopt
<1>2. /\ linked \subseteq Procs /\ zombie \subseteq linked /\ cptr \in L!Pointer /\ optr \in L!Pointer
      /\ f \in [Procs -> Seq(Procs)]
  BY DEF LinkInv, L!TypeOK, Lists
<1>3. p \in linked /\ initproc \in linked /\ p # initproc
  BY <1>1, <1>2 DEF LinkInv, FamilyInv
<1>4. c \in linked /\ parent[c] = p /\ c \in Procs /\ p \in Procs
  BY <1>1, <1>2, <1>3 DEF LinkInv, YoungestInv
<1>5. \A x \in Procs :
        /\ cptr'[x] = IF x = initproc THEN c ELSE IF x = p THEN optr[c] ELSE cptr[x]
        /\ optr'[x] = IF x = c THEN cptr[initproc] ELSE optr[x]
  BY <1>1, <1>2, <1>3, <1>4 DEF L!Adopt, L!Elder, L!Pointer
<1>6. f[p] \in Seq(Procs) /\ L!Chain(f[p], c, optr)
  BY <1>3, ListFacts
<1> HIDE DEF p, c
<1>7. /\ f[p] # <<>> /\ Len(f[p]) \in Nat \ {0} /\ Head(f[p]) = c /\ Tail(f[p]) \in Seq(Procs)
      /\ L!Chain(Tail(f[p]), optr[c], optr)
      /\ \A k \in 1..Len(Tail(f[p])) : k + 1 \in 1..Len(f[p]) /\ Tail(f[p])[k] = f[p][k + 1]
  BY <1>4, <1>6, ChainTail
<1>8. f[p][1] = c
  BY <1>6, <1>7 DEF L!Chain
<1>9. Agree(Tail(f[p]), optr, optr')
  <2> SUFFICES ASSUME NEW k \in 1..Len(Tail(f[p])) PROVE optr'[Tail(f[p])[k]] = optr[Tail(f[p])[k]]
    BY DEF Agree
  <2>1. k + 1 \in 1..Len(f[p]) /\ Tail(f[p])[k] = f[p][k + 1] /\ 1 \in 1..Len(f[p]) /\ k + 1 # 1
    BY <1>7
  <2>2. f[p][k + 1] # c
    BY <1>6, <1>8, <2>1, ChainDistinct
  <2>3. f[p][k + 1] \in Procs
    BY <1>6, <2>1, ElementOfSeq
  <2> QED BY <1>5, <2>1, <2>2, <2>3
<1>10. L!Chain(Tail(f[p]), optr[c], optr')
  BY <1>7, <1>9, ChainKept
<1>11. ASSUME NEW x \in linked \cup {idleproc}, x # p
       PROVE  L!Chain(f[x], cptr[x], optr) /\ Agree(f[x], optr, optr') /\ f[x] \in Seq(Procs)
  <2>1. /\ L!Chain(f[x], cptr[x], optr) /\ f[x] \in Seq(Procs)
        /\ \A k \in 1..Len(f[x]) : f[x][k] \in linked /\ parent[f[x][k]] = x
    BY ListFacts
  <2> QED BY <1>2, <1>4, <1>5, <1>11, <2>1 DEF Agree
<1>12. << c >> \o f[initproc] \in Seq(Procs) /\ L!Chain(<< c >> \o f[initproc], c, optr')
  <2>1. optr'[c] = cptr[initproc]
    BY <1>4, <1>5
  <2> QED BY <1>3, <1>4, <1>11, <2>1, ChainCons
<1>13. \A x \in Procs : g[x] = IF x = initproc THEN << c >> \o f[initproc] ELSE IF x = p THEN Tail(f[p]) ELSE f[x]
  BY <1>2, <1>3, <1>4, <1>7
<1>14. g \in [Procs -> Seq(Procs)]
  BY <1>2, <1>7, <1>12
<1> HIDE DEF g
<1>15. ASSUME NEW x \in Procs
       PROVE  IF x \in linked' \cup {idleproc} THEN L!Chain(g[x], cptr'[x], optr') ELSE g[x] = <<>>
  <2>1. CASE x = initproc
    BY <1>1, <1>3, <1>5, <1>12, <1>13, <2>1
  <2>2. CASE x = p
    BY <1>1, <1>3, <1>5, <1>10, <1>13, <2>2
  <2>3. CASE x # initproc /\ x # p
    <3>1. g[x] = f[x] /\ cptr'[x] = cptr[x]
      BY <1>5, <1>13, <2>3
    <3>2. x \in linked \cup {idleproc} => L!Chain(f[x], cptr[x], optr')
      BY <1>11, <2>3, ChainKept
    <3> QED BY <1>1, <3>1, <3>2 DEF Lists
  <2> QED BY <2>1, <2>2, <2>3
<1>16. Lists(g, linked', cptr', optr')
  BY <1>14, <1>15 DEF Lists
<1> QED BY <1>3, <1>4, <1>7, <1>16 DEF g, p

\* remove_links: the zombie, which has no children, leaves the list of its parent.
LEMMA RemoveLists ==
  ASSUME LinkInv, NEW f, Lists(f, linked, cptr, optr), exits = NULL, NEW c \in zombie, L!remove_links(c)
  PROVE  /\ c \in Procs /\ parent[c] \in Procs /\ f[c] = <<>> /\ f[parent[c]] \in Seq(Procs)
         /\ \E k \in 1..Len(f[parent[c]]) :
              /\ f[parent[c]][k] = c
              /\ Lists([f EXCEPT ![parent[c]] = Cut(@, k)], linked', cptr', optr')
<1> USE NamesAssumption
<1> DEFINE p == parent[c]
           y == yptr[c]
<1>1. linked' = linked \ {c}
  BY DEF L!remove_links
<1>2. /\ linked \subseteq Procs /\ zombie \subseteq linked /\ c \in linked
      /\ parent \in L!Pointer /\ cptr \in L!Pointer /\ optr \in L!Pointer /\ yptr \in L!Pointer
      /\ f \in [Procs -> Seq(Procs)]
  BY DEF LinkInv, L!TypeOK, Lists
<1>3. /\ p \in linked \cup {idleproc} /\ p \in Procs /\ p # c /\ c # idleproc
      /\ \A x \in linked : parent[x] # c
  BY <1>2 DEF LinkInv, FamilyInv
<1>4. \A x \in Procs :
        /\ cptr'[x] = IF y = NULL /\ x = p THEN optr[c] ELSE cptr[x]
        /\ x # c => optr'[x] = IF x = y THEN optr[c] ELSE optr[x]
  <2>1. \A x \in Procs : cptr'[x] = IF y = NULL /\ x = p THEN optr[c] ELSE cptr[x]
    BY <1>2, <1>3 DEF L!remove_links, L!Freed, L!Pointer
  <2>2. \A x \in Procs : x # c => optr'[x] = IF x = y THEN optr[c] ELSE optr[x]
    BY <1>2, <1>3 DEF L!remove_links, L!Freed, L!Pointer
  <2> QED BY <2>1, <2>2
<1>5. IF y = NULL THEN c = cptr[p] ELSE c # cptr[p] /\ y \in linked /\ optr[y] = c /\ parent[y] = p
  <2>1. IF y = NULL THEN c = cptr[p] ELSE c # cptr[p] /\ y \in linked /\ optr[y] = c
    BY <1>2, <1>3 DEF LinkInv, YoungerInv
  <2> QED BY <1>2, <2>1 DEF LinkInv, OlderInv
<1>6. f[c] = <<>>
  <2>1. f[c] \in Seq(Procs) /\ L!Chain(f[c], cptr[c], optr) /\ Len(f[c]) \in Nat
        /\ \A k \in 1..Len(f[c]) : f[c][k] \in linked /\ parent[f[c][k]] = c
    BY <1>2, ListFacts
  <2>2. Len(f[c]) = 0
    BY <1>3, <2>1
  <2> QED BY <2>1, <2>2, EmptySeq
<1> DEFINE s == f[p]
<1>7. /\ s \in Seq(Procs) /\ L!Chain(s, cptr[p], optr) /\ Len(s) \in Nat
      /\ \A k \in 1..Len(s) : s[k] \in linked /\ parent[s[k]] = p
  BY <1>3, ListFacts
<1>8. PICK k \in 1..Len(s) : s[k] = c
  BY <1>2, <1>7, ChainHas
<1> HIDE DEF s, p, y
<1>9. /\ cptr[p] = s[1] /\ \A j \in 1..Len(s) : optr[s[j]] = IF j < Len(s) THEN s[j + 1] ELSE NULL
  BY <1>7, <1>8 DEF L!Chain
<1>10. \A i, j \in 1..Len(s) : s[i] = s[j] => i = j
  BY <1>7, ChainDistinct
<1>11. cptr'[p] = (IF k = 1 THEN optr[s[k]] ELSE cptr[p]) /\ Rewired(s, k, optr, optr')
  <2>1. CASE k = 1
    <3>1. y = NULL
      BY <1>5, <1>8, <1>9, <2>1
    <3>2. cptr'[p] = optr[s[k]]
      BY <1>3, <1>4, <1>8, <3>1
    <3>3. ASSUME NEW j \in 1..Len(s), j # k PROVE j # k - 1 /\ optr'[s[j]] = optr[s[j]]
      <4>1. s[j] # c /\ s[j] \in Procs /\ s[j] # NULL
        BY <1>2, <1>7, <1>8, <1>10, <3>3
      <4>2. j # k - 1
        BY <1>7, <2>1
      <4> QED BY <1>4, <3>1, <4>1, <4>2
    <3> QED BY <2>1, <3>2, <3>3 DEF Rewired
  <2>2. CASE k # 1
    <3>1. k - 1 \in 1..Len(s) /\ 1 \in 1..Len(s) /\ k - 1 < Len(s) /\ (k - 1) + 1 = k
      BY <1>7, <2>2
    <3>2. cptr[p] # c /\ optr[s[k - 1]] = c
      BY <1>8, <1>9, <1>10, <2>2, <3>1
    <3>3. y = s[k - 1] /\ y # NULL
      <4>1. s[k - 1] \in linked /\ c # NULL
        BY <1>2, <1>7, <3>1
      <4>2. yptr[optr[s[k - 1]]] = s[k - 1]
        BY <3>2, <4>1 DEF LinkInv, OlderInv
      <4> QED BY <1>2, <3>2, <4>1, <4>2 DEF y
    <3>4. cptr'[p] = cptr[p]
      BY <1>3, <1>4, <3>3
    <3>5. ASSUME NEW j \in 1..Len(s), j # k
          PROVE  optr'[s[j]] = IF j = k - 1 THEN optr[s[k]] ELSE optr[s[j]]
      <4>1. s[j] # c /\ s[j] \in Procs /\ (s[j] = y <=> j = k - 1)
        BY <1>2, <1>7, <1>8, <1>10, <3>1, <3>3, <3>5
      <4> QED BY <1>4, <1>8, <4>1
    <3> QED BY <2>2, <3>4, <3>5 DEF Rewired
  <2> QED BY <2>1, <2>2
<1>12. Cut(s, k) \in Seq(Procs) /\ L!Chain(Cut(s, k), cptr'[p], optr')
  BY <1>7, <1>11, ChainCut
<1> DEFINE g == [f EXCEPT ![p] = Cut(@, k)]
<1>13. \A x \in Procs : g[x] = IF x = p THEN Cut(s, k) ELSE f[x]
  BY <1>2, <1>3 DEF s
<1>14. g \in [Procs -> Seq(Procs)]
  BY <1>2, <1>12 DEF s
<1> HIDE DEF g
<1>15. ASSUME NEW x \in linked \cup {idleproc}, x # p, x # c PROVE L!Chain(f[x], cptr[x], optr')
  <2>1. /\ L!Chain(f[x], cptr[x], optr)
        /\ \A i \in 1..Len(f[x]) : f[x][i] \in linked /\ parent[f[x][i]] = x
    BY ListFacts
  <2>2. Agree(f[x], optr, optr')
    <3> SUFFICES ASSUME NEW i \in 1..Len(f[x]) PROVE optr'[f[x][i]] = optr[f[x][i]]
      BY DEF Agree
    <3>1. f[x][i] \in Procs /\ parent[f[x][i]] = x /\ parent[c] = p /\ f[x][i] # NULL
      BY <1>2, <2>1 DEF p
    <3>2. f[x][i] # c /\ f[x][i] # y
      BY <1>5, <1>15, <3>1
    <3> QED BY <1>4, <3>1, <3>2
  <2> QED BY <2>1, <2>2, ChainKept
<1>16. ASSUME NEW x \in Procs
       PROVE  IF x \in linked' \cup {idleproc} THEN L!Chain(g[x], cptr'[x], optr') ELSE g[x] = <<>>
  <2>1. CASE x = p
    BY <1>1, <1>3, <1>12, <1>13, <2>1
  <2>2. CASE x = c
    BY <1>1, <1>3, <1>6, <1>13, <2>2
  <2>3. CASE x # p /\ x # c
    <3>1. g[x] = f[x] /\ cptr'[x] = cptr[x] /\ (x \in linked' <=> x \in linked)
      BY <1>1, <1>4, <1>13, <2>3
    <3> QED BY <1>15, <2>3, <3>1 DEF Lists
  <2> QED BY <2>1, <2>2, <2>3
<1>17. Lists(g, linked', cptr', optr')
  BY <1>14, <1>16 DEF Lists
<1> QED BY <1>2, <1>3, <1>6, <1>7, <1>8, <1>17 DEF g, p, s

-----------------------------------------------------------------------------
(* The pointers implement the lists of children of module ProcTree. *)

\* The pointers make up lists.
ListsInv == \E f : Lists(f, linked, cptr, optr)

TreeInv == TableInv /\ ListsInv

\* The mapped state is those lists.
MapIsRight == Lists(children, linked, cptr, optr)

LEMMA TreeInvMap == TreeInv => MapIsRight
<1> SUFFICES ASSUME TreeInv PROVE MapIsRight
  OBVIOUS
<1>1. PICK f : Lists(f, linked, cptr, optr)
  BY DEF TreeInv, ListsInv
<1>2. children = f
  BY <1>1, ChildrenAre DEF TreeInv, TableInv, PidInv
<1> QED BY <1>1, <1>2 DEF MapIsRight

LEMMA TreeInit == ProcInit => TreeInv /\ (MapIsRight => Tree!Init)
<1> SUFFICES ASSUME ProcInit PROVE TreeInv /\ (MapIsRight => Tree!Init)
  OBVIOUS
<1> USE NamesAssumption
<1> DEFINE f == [p \in Procs |-> IF p = idleproc THEN << initproc >> ELSE <<>>]
<1>1. /\ linked = {initproc}
      /\ \A x \in Procs : cptr[x] = (IF x = idleproc THEN initproc ELSE NULL) /\ optr[x] = NULL
  BY DEF ProcInit, L!Init, L!Nobody
<1>2. << initproc >> \in Seq(Procs) /\ Len(<< initproc >>) = 1 /\ << initproc >>[1] = initproc
  OBVIOUS
<1>3. <<>> \in Seq(Procs) /\ Len(<<>>) = 0
  BY EmptySeq
<1>4. f \in [Procs -> Seq(Procs)]
  BY <1>2, <1>3
<1>5. L!Chain(<< initproc >>, initproc, optr) /\ L!Chain(<<>>, NULL, optr)
  BY <1>1, <1>2, <1>3 DEF L!Chain
<1>6. Lists(f, linked, cptr, optr)
  BY <1>1, <1>4, <1>5 DEF Lists
<1>7. MapIsRight => children = f
  BY <1>6, ListsUnique DEF MapIsRight
<1> QED BY <1>6, <1>7, ProcInitInv DEF TreeInv, ListsInv, Tree!Init

\* What a step does to the lists f.
Step(f, g) ==
  \/ g = f
  \/ \E p, c \in Procs : /\ c \notin linked \cup {idleproc}
                         /\ g = [f EXCEPT ![p] = << c >> \o @, ![c] = <<>>]
  \/ \E p \in Procs : /\ p # initproc /\ f[p] # <<>>
                      /\ g = [f EXCEPT ![p] = Tail(@), ![initproc] = << Head(f[p]) >> \o @]
  \/ \E p, c \in Procs : /\ f[c] = <<>> /\ f[p] \in Seq(Procs)
                         /\ \E k \in 1..Len(f[p]) : f[p][k] = c /\ g = [f EXCEPT ![p] = Cut(@, k)]

LEMMA LinkSteps ==
  ASSUME TableInv, [TableNext]_allVars
  PROVE  \/ UNCHANGED <<linked, cptr, optr>>
         \/ \E p, c \in Procs : L!set_links(p, c)
         \/ L!Adopt
         \/ exits = NULL /\ \E c \in zombie : L!remove_links(c)
<1>1. CASE UNCHANGED allVars
  BY <1>1 DEF allVars, links
<1>2. ASSUME NEW p \in Procs, NEW c \in Procs, fork_fast(p, c) PROVE L!set_links(p, c)
  BY <1>2 DEF fork_fast, Hash
<1>3. ASSUME NEW p \in Procs, NEW c \in Procs, fork_scan(p, c) PROVE UNCHANGED <<linked, cptr, optr>>
  BY <1>3 DEF fork_scan, links
<1>4. CASE fork_loop
  BY <1>4 DEF fork_loop, links
<1>5. CASE fork_done
  <2>1. L!set_links(forks[1], forks[2]) /\ scanning
    BY <1>5 DEF fork_done, Hash, get_pid_done
  <2>2. forks[1] \in Procs /\ forks[2] \in Procs
    BY <2>1 DEF TableInv, ForksInv
  <2> QED BY <2>1, <2>2
<1>6. CASE exit
  BY <1>6 DEF exit, L!do_exit, L!AdoptDone
<1>7. ASSUME NEW p \in Procs, wait_any(p) PROVE exits = NULL /\ \E c \in zombie : L!remove_links(c)
  BY <1>7 DEF wait_any, L!do_wait_any, L!Runs
<1>8. ASSUME NEW p \in Procs, NEW n \in 1..MAX_PID-1, wait_pid(p, n)
      PROVE  exits = NULL /\ \E c \in zombie : L!remove_links(c)
  BY <1>8 DEF wait_pid, L!do_wait_pid, L!Runs
<1> QED BY <1>1, <1>2, <1>3, <1>4, <1>5, <1>6, <1>7, <1>8 DEF TableNext

LEMMA ListSteps ==
  ASSUME TableInv, [TableNext]_allVars, NEW f, Lists(f, linked, cptr, optr)
  PROVE  \E g : Step(f, g) /\ Lists(g, linked', cptr', optr')
<1>0. LinkInv
  BY DEF TableInv
<1>1. CASE UNCHANGED <<linked, cptr, optr>>
  <2>1. Step(f, f) /\ Lists(f, linked', cptr', optr')
    BY <1>1 DEF Step
  <2> QED BY <2>1
<1>2. ASSUME NEW p \in Procs, NEW c \in Procs, L!set_links(p, c)
      PROVE  \E g : Step(f, g) /\ Lists(g, linked', cptr', optr')
  <2> DEFINE g == [f EXCEPT ![p] = << c >> \o @, ![c] = <<>>]
  <2>1. Lists(g, linked', cptr', optr')
    BY <1>0, <1>2, SetLinksLists
  <2>2. c \notin linked \cup {idleproc}
    BY <1>2 DEF L!set_links
  <2>3. Step(f, g)
    BY <2>2 DEF Step
  <2> QED BY <2>1, <2>3
<1>3. CASE L!Adopt
  <2> DEFINE g == [f EXCEPT ![exits] = Tail(@), ![initproc] = << Head(f[exits]) >> \o @]
  <2>1. exits \in Procs \ {initproc} /\ f[exits] # <<>> /\ Lists(g, linked', cptr', optr')
    BY <1>0, <1>3, AdoptLists
  <2>2. Step(f, g)
    BY <2>1 DEF Step
  <2> QED BY <2>1, <2>2
<1>4. ASSUME exits = NULL, NEW c \in zombie, L!remove_links(c)
      PROVE  \E g : Step(f, g) /\ Lists(g, linked', cptr', optr')
  <2> DEFINE p == parent[c]
  <2>1. /\ c \in Procs /\ p \in Procs /\ f[c] = <<>> /\ f[p] \in Seq(Procs)
        /\ \E k \in 1..Len(f[p]) : f[p][k] = c /\ Lists([f EXCEPT ![p] = Cut(@, k)], linked', cptr', optr')
    BY <1>0, <1>4, RemoveLists
  <2>2. PICK k \in 1..Len(f[p]) : f[p][k] = c /\ Lists([f EXCEPT ![p] = Cut(@, k)], linked', cptr', optr')
    BY <2>1
  <2> DEFINE g == [f EXCEPT ![p] = Cut(@, k)]
  <2>3. Step(f, g)
    <3> HIDE DEF p
    <3> QED BY <2>1, <2>2 DEF Step
  <2> QED BY <2>2, <2>3
<1> QED BY <1>1, <1>2, <1>3, <1>4, LinkSteps

LEMMA TreeNextInv == TreeInv /\ [TableNext]_allVars => TreeInv'
<1> SUFFICES ASSUME TreeInv, [TableNext]_allVars PROVE TreeInv'
  OBVIOUS
<1>1. TableInv /\ TableInv'
  BY TableNextInv DEF TreeInv
<1>2. PICK f : Lists(f, linked, cptr, optr)
  BY DEF TreeInv, ListsInv
<1>3. \E g : Lists(g, linked', cptr', optr')
  BY <1>1, <1>2, ListSteps
<1>4. ListsInv'
  BY <1>3 DEF ListsInv
<1> QED BY <1>1, <1>4 DEF TreeInv

\* A step of the table is a step of the lists.
LEMMA TreeStep ==
  TreeInv /\ MapIsRight /\ MapIsRight' /\ [TableNext]_allVars => [Tree!Next]_children
<1> SUFFICES ASSUME TreeInv, MapIsRight, MapIsRight', [TableNext]_allVars PROVE [Tree!Next]_children
  OBVIOUS
<1>0. TableInv /\ LinkInv /\ Lists(children, linked, cptr, optr) /\ Lists(children', linked', cptr', optr')
  BY DEF TreeInv, TableInv, MapIsRight
<1>1. PICK g : Step(children, g) /\ Lists(g, linked', cptr', optr')
  BY <1>0, ListSteps
<1>2. Step(children, children')
  BY <1>0, <1>1, ListsUnique
<1>3. Tree!Linked \subseteq linked
  <2> SUFFICES ASSUME NEW p \in Procs, NEW x \in Tree!ToSet(children[p]) PROVE x \in linked
    BY DEF Tree!Linked
  <2>1. PICK k \in DOMAIN children[p] : x = children[p][k]
    BY DEF Tree!ToSet
  <2>2. CASE p \in linked \cup {idleproc}
    <3>1. children[p] \in Seq(Procs) /\ \A i \in 1..Len(children[p]) : children[p][i] \in linked
      BY <1>0, <2>2, ListFacts
    <3>2. DOMAIN children[p] = 1..Len(children[p])
      BY <3>1, LenProperties
    <3> QED BY <2>1, <3>1, <3>2
  <2>3. CASE p \notin linked \cup {idleproc}
    <3>1. children[p] = <<>>
      BY <1>0, <2>3 DEF Lists
    <3> QED BY <2>1, <3>1, EmptySeq
  <2> QED BY <2>2, <2>3
<1>4. ASSUME NEW p \in Procs, NEW c \in Procs, c \notin linked \cup {idleproc},
             children' = [children EXCEPT ![p] = << c >> \o @, ![c] = <<>>]
      PROVE  Tree!Fork(p, c)
  BY <1>3, <1>4 DEF Tree!Fork
<1>5. ASSUME NEW p \in Procs, p # initproc, children[p] # <<>>,
             children' = [children EXCEPT ![p] = Tail(@), ![initproc] = << Head(children[p]) >> \o @]
      PROVE  Tree!Adopt(p)
  BY <1>5 DEF Tree!Adopt
<1>6. ASSUME NEW p \in Procs, NEW c \in Procs, children[c] = <<>>, children[p] \in Seq(Procs),
             NEW k \in 1..Len(children[p]), children[p][k] = c, children' = [children EXCEPT ![p] = Cut(@, k)]
      PROVE  Tree!Reap(p, c)
  <2>1. k \in DOMAIN children[p]
    BY <1>6, LenProperties
  <2>2. Cut(children[p], k) = Tree!RemoveAt(children[p], k)
    BY DEF Cut, Tree!RemoveAt
  <2>3. children' = [children EXCEPT ![p] = Tree!RemoveAt(@, k)]
    BY <1>6, <2>2
  <2> QED BY <1>6, <2>1, <2>3 DEF Tree!Reap
<1> QED BY <1>2, <1>4, <1>5, <1>6 DEF Step, Tree!Next

\* The pointers that set_links, remove_links and the loop of do_exit rewire are at
\* all times an implementation of the lists of children of ProcTree: every step
\* puts one process in front of a list, moves the first of one list to the front of
\* initproc's, takes one childless process out, or changes no list.
THEOREM PointersAreLists == TableSpec => ImplementsTree
<1>1. ProcInit /\ MapIsRight => Tree!Init
  BY TreeInit
<1>2. ProcInit => TreeInv
  BY TreeInit
<1> QED BY <1>1, <1>2, TreeInvMap, TreeNextInv, TreeStep, PTL DEF TableSpec, ImplementsTree, Tree!Spec

=============================================================================
