---------------------------- MODULE Stride_proof ----------------------------
(* For every word size, every set of processes and every assignment of         *)
(* priorities: as long as no process enters the run queue more than BIG_STRIDE *)
(* away from the others, the stride scheduler is right in spite of wrap-around.*)
EXTENDS Stride, WellFoundedInduction, TLAPS

\* lab6_stride is pass cut to a machine word, for sleeping processes too.
Words == \A p \in Procs : \E k \in Nat : pass[p] = k * MOD + lab6_stride[p]

Inv == TypeOK /\ Words /\ SpreadBounded

-----------------------------------------------------------------------------
\* Addition of machine words.
LEMMA WordPlus ==
  ASSUME NEW s \in 0..MOD-1, NEW d \in 0..MOD-1
  PROVE  (s + d) % MOD = IF s + d < MOD THEN s + d ELSE s + d - MOD
BY StrideAssumption

\* Subtraction of machine words.
LEMMA WordMinus ==
  ASSUME NEW s \in 0..MOD-1, NEW d \in 0..MOD-1
  PROVE  (s - d) % MOD = IF s >= d THEN s - d ELSE s - d + MOD
BY StrideAssumption

\* No step is longer than BIG_STRIDE.
LEMMA StepRange ==
  ASSUME TypeOK, NEW p \in Procs
  PROVE  Step(p) \in Nat /\ Step(p) <= BIG_STRIDE
<1>1. lab6_priority[p] \in Nat
  BY DEF TypeOK
<1>2. CASE lab6_priority[p] = 0
  BY <1>2, StrideAssumption DEF Step
<1>3. CASE lab6_priority[p] # 0
  <2> DEFINE k == lab6_priority[p]
  <2>1. ASSUME NEW n \in Nat, NEW m \in Nat, m > 0
        PROVE  n \div m \in Nat /\ n \div m <= n
    <3>1. n \div m \in Int /\ n % m \in 0..m-1 /\ n = (m * (n \div m)) + (n % m)
      BY <2>1
    <3>2. n \div m >= 0
      BY <2>1, <3>1
    <3>3. m * (n \div m) >= n \div m
      BY <2>1, <3>1, <3>2
    <3> QED BY <3>1, <3>2, <3>3
  <2> QED BY <1>1, <1>3, <2>1, StrideAssumption DEF Step
<1> QED BY <1>1, <1>2, <1>3

\* A multiple of MOD that is small enough is -MOD, 0 or MOD.
LEMMA SmallMultiple ==
  ASSUME NEW m \in Int, m * MOD < 2 * MOD, m * MOD > -2 * MOD
  PROVE  m \in {-1, 0, 1}
<1>1. MOD \in Nat /\ MOD > 0
  BY StrideAssumption
<1>2. ASSUME m >= 2 PROVE FALSE
  <2>1. m * MOD >= 2 * MOD
    BY <1>1, <1>2
  <2> QED BY <1>1, <2>1
<1>3. ASSUME m <= -2 PROVE FALSE
  <2>1. m * MOD <= -2 * MOD
    BY <1>1, <1>3
  <2> QED BY <1>1, <2>1
<1> QED BY <1>2, <1>3

\* Between processes that are close the wrapped comparison gives the unwrapped
\* difference.
LEMMA CloseCompares ==
  ASSUME TypeOK, Words, NEW p \in Procs, NEW q \in Procs, Close(p, q)
  PROVE  proc_stride_comp_f(p, q) = pass[p] - pass[q]
<1>1. /\ lab6_stride[p] \in 0..MOD-1 /\ lab6_stride[q] \in 0..MOD-1
      /\ pass[p] \in Nat /\ pass[q] \in Nat
  BY DEF TypeOK
<1>2. (lab6_stride[p] - lab6_stride[q]) % MOD =
        IF lab6_stride[p] >= lab6_stride[q] THEN lab6_stride[p] - lab6_stride[q]
        ELSE lab6_stride[p] - lab6_stride[q] + MOD
  BY <1>1, WordMinus
<1>3. PICK kp \in Nat : pass[p] = kp * MOD + lab6_stride[p]
  BY DEF Words
<1>4. PICK kq \in Nat : pass[q] = kq * MOD + lab6_stride[q]
  BY DEF Words
<1>5. PICK m \in Int : m = kp - kq
  BY <1>3, <1>4
<1>6. MOD \in Nat /\ BIG_STRIDE \in Nat /\ MOD = 2 * BIG_STRIDE + 2
  BY StrideAssumption
<1>7. PICK d \in Int : d = pass[p] - pass[q] /\ d <= BIG_STRIDE /\ d >= -BIG_STRIDE
  BY <1>1, <1>6 DEF Close
<1>8. m * MOD = kp * MOD - kq * MOD
  BY <1>5, <1>6
<1>9. PICK t \in Int : t = m * MOD
  BY <1>6
<1>10. d = t + (lab6_stride[p] - lab6_stride[q])
  <2>1. PICK a \in Int, b \in Int : a = kp * MOD /\ b = kq * MOD
    BY <1>6
  <2>2. t = a - b
    BY <1>8, <1>9, <2>1
  <2>3. pass[p] = a + lab6_stride[p] /\ pass[q] = b + lab6_stride[q]
    BY <1>3, <1>4, <2>1
  <2> QED BY <1>1, <1>7, <2>2, <2>3
<1>11. t < 2 * MOD /\ t > -2 * MOD
  BY <1>1, <1>6, <1>7, <1>10
<1>12. m \in {-1, 0, 1}
  BY <1>9, <1>11, SmallMultiple
<1>13. t \in {-MOD, 0, MOD}
  BY <1>6, <1>9, <1>12
<1>14. Signed((lab6_stride[p] - lab6_stride[q]) % MOD) = d
  BY <1>1, <1>2, <1>6, <1>7, <1>10, <1>13 DEF Signed
<1> QED BY <1>7, <1>14 DEF proc_stride_comp_f

\* A non-empty set has an element that is minimal for a well-founded relation.
LEMMA Minimal ==
  ASSUME NEW R, IsWellFoundedOn(R, Nat), NEW S, S \subseteq Nat, S # {}
  PROVE  \E n \in S : \A m \in S : ~(<<m, n>> \in R)
BY WFMin

\* A minimal element of "less than" is a least element.
LEMMA LeastElement ==
  ASSUME NEW R, \A m, n \in Nat : <<m, n>> \in R <=> m < n,
         NEW S, S \subseteq Nat, \E n \in S : \A m \in S : ~(<<m, n>> \in R)
  PROVE  \E n \in S : \A m \in S : n <= m
<1>1. PICK n \in S : \A m \in S : ~(<<m, n>> \in R)
  OBVIOUS
<1>2. \A m \in S : ~(m < n)
  BY <1>1
<1> QED BY <1>2

\* A non-empty set of natural numbers has a least element.
LEMMA LeastNatural ==
  ASSUME NEW S, S \subseteq Nat, S # {}
  PROVE  \E n \in S : \A m \in S : n <= m
<1>1. \A m, n \in Nat : <<m, n>> \in OpToRel(<, Nat) <=> m < n
  BY DEF OpToRel
<1>2. \E n \in S : \A m \in S : ~(<<m, n>> \in OpToRel(<, Nat))
  BY NatLessThanWellFounded, Minimal
<1> QED BY <1>1, <1>2, LeastElement

\* A non-empty set of processes has one with the least unwrapped stride.
LEMMA LeastPass ==
  ASSUME TypeOK, NEW Q, Q \subseteq Procs, Q # {}
  PROVE  \E p \in Q : \A q \in Q : pass[p] <= pass[q]
<1> DEFINE S == {pass[p] : p \in Q}
<1>1. S \subseteq Nat /\ S # {}
  BY DEF TypeOK
<1> HIDE DEF S
<1>2. \E n \in S : \A m \in S : n <= m
  BY <1>1, LeastNatural
<1> QED BY <1>2 DEF S

-----------------------------------------------------------------------------
LEMMA RunnableIn == TypeOK => Runnable \subseteq Procs
BY DEF TypeOK, Runnable

\* Unless a process has come late, all runnable processes are close.
LEMMA RunnableClose ==
  ASSUME Inv, ~late, NEW p \in Runnable, NEW q \in Runnable
  PROVE  Close(p, q)
BY DEF Inv, SpreadBounded, Close

LEMMA InitInv == Init => Inv
<1> SUFFICES ASSUME Init PROVE Inv
  OBVIOUS
<1>1. TypeOK
  <2>1. rq \subseteq Procs /\ MAX_TIME_SLICE \in Nat
    BY StrideAssumption DEF Init
  <2>2. time_slice \in [Procs -> 0..MAX_TIME_SLICE]
    BY <2>1 DEF Init
  <2>3. 0 \in 0..MOD-1 /\ 0 \in Nat
    BY StrideAssumption
  <2> QED BY <2>1, <2>2, <2>3 DEF Init, TypeOK
<1>2. \A p \in Procs : pass[p] = 0 /\ lab6_stride[p] = 0
  BY DEF Init
<1>3. Words
  <2> SUFFICES ASSUME NEW p \in Procs PROVE pass[p] = 0 * MOD + lab6_stride[p]
    BY DEF Words
  <2> QED BY <1>2, StrideAssumption
<1>4. SpreadBounded
  BY <1>1, <1>2, RunnableIn, StrideAssumption DEF SpreadBounded
<1> QED BY <1>1, <1>3, <1>4 DEF Inv

\* Among runnable processes the root of the heap is one with the least unwrapped
\* stride.
LEMMA RootIsLeast ==
  ASSUME Inv, ~late, NEW Q, Q \subseteq Runnable, NEW p \in Roots(Q)
  PROVE  p \in Q /\ \A q \in Q : pass[p] <= pass[q]
<1> DEFINE first == {r \in Q : \A q \in Q : proc_stride_comp_f(r, q) <= 0}
<1>1. Q \subseteq Procs
  BY RunnableIn DEF Inv
<1>2. \A r, q \in Q : proc_stride_comp_f(r, q) = pass[r] - pass[q]
  BY <1>1, RunnableClose, CloseCompares DEF Inv
<1>3. \A r \in Q : pass[r] \in Nat
  BY <1>1 DEF Inv, TypeOK
<1>4. p \in Q
  BY DEF Roots
<1>5. PICK r \in Q : \A q \in Q : pass[r] <= pass[q]
  BY <1>1, <1>4, LeastPass DEF Inv
<1>6. r \in first
  BY <1>2, <1>3, <1>5
<1>7. p \in first
  BY <1>6 DEF Roots
<1> QED BY <1>2, <1>3, <1>4, <1>7

\* Picking keeps the invariant: the process picked was the last, and moves by at
\* most BIG_STRIDE.
LEMMA PickInv ==
  ASSUME Inv, NEW Q, Q \subseteq Runnable, PickFrom(Q),
         UNCHANGED <<lab6_priority, late>>,
         time_slice' \in [Procs -> 0..MAX_TIME_SLICE], need_resched' \in BOOLEAN
  PROVE  Inv'
<1>0. Q \subseteq Procs
  BY RunnableIn DEF Inv
<1>1. CASE Q = {}
  <2>1. current' = NULL /\ rq' = {} /\ UNCHANGED <<lab6_stride, pass>>
    BY <1>1 DEF PickFrom
  <2> QED BY <2>1 DEF Inv, TypeOK, Words, SpreadBounded, Runnable
<1>2. CASE Q # {}
  <2>1. PICK p \in Roots(Q) :
          /\ current' = p
          /\ rq' = Q \ {p}
          /\ lab6_stride' = [lab6_stride EXCEPT ![p] = (@ + Step(p)) % MOD]
          /\ pass' = [pass EXCEPT ![p] = @ + Step(p)]
    BY <1>2 DEF PickFrom
  <2>2. p \in Q /\ p \in Procs
    BY <1>0 DEF Roots
  <2>3. PICK d \in 0..BIG_STRIDE : d = Step(p)
    BY <2>2, StepRange, StrideAssumption DEF Inv
  <2>4. /\ lab6_stride \in [Procs -> 0..MOD-1] /\ pass \in [Procs -> Nat]
        /\ lab6_stride[p] \in 0..MOD-1 /\ pass[p] \in Nat
    BY <2>2 DEF Inv, TypeOK
  <2>5. PICK w \in 0..MOD-1 : /\ w = (lab6_stride[p] + d) % MOD
                              /\ w = IF lab6_stride[p] + d < MOD THEN lab6_stride[p] + d
                                     ELSE lab6_stride[p] + d - MOD
    <3>1. d \in 0..MOD-1
      BY <2>3, StrideAssumption
    <3>2. (lab6_stride[p] + d) % MOD = IF lab6_stride[p] + d < MOD THEN lab6_stride[p] + d
                                       ELSE lab6_stride[p] + d - MOD
      BY <2>4, <3>1, WordPlus
    <3> QED BY <2>4, <3>1, <3>2, StrideAssumption
  <2>6. lab6_stride' = [lab6_stride EXCEPT ![p] = w] /\ pass' = [pass EXCEPT ![p] = pass[p] + d]
    BY <2>1, <2>2, <2>3, <2>4, <2>5
  <2>7. TypeOK'
    <3>1. pass[p] + d \in Nat
      BY <2>3, <2>4
    <3> QED BY <1>0, <2>1, <2>2, <2>4, <2>6, <3>1 DEF Inv, TypeOK
  <2>8. Words'
    <3> SUFFICES ASSUME NEW q \in Procs
                 PROVE  \E k \in Nat : pass'[q] = k * MOD + lab6_stride'[q]
      BY DEF Words
    <3>1. PICK k \in Nat : pass[q] = k * MOD + lab6_stride[q]
      BY DEF Inv, Words
    <3>2. CASE q # p
      BY <2>4, <2>6, <3>1, <3>2
    <3>3. CASE q = p
      <4>1. pass'[q] = pass[p] + d /\ lab6_stride'[q] = w
        BY <2>2, <2>4, <2>6, <3>3
      <4>2. CASE lab6_stride[p] + d < MOD
        <5>1. pass'[q] = k * MOD + lab6_stride'[q]
          BY <2>3, <2>4, <2>5, <3>1, <3>3, <4>1, <4>2, StrideAssumption
        <5> QED BY <5>1
      <4>3. CASE ~(lab6_stride[p] + d < MOD)
        <5>1. (k + 1) * MOD = k * MOD + MOD
          BY StrideAssumption
        <5>2. pass'[q] = (k + 1) * MOD + lab6_stride'[q]
          BY <2>3, <2>4, <2>5, <3>1, <3>3, <4>1, <4>3, <5>1, StrideAssumption
        <5> QED BY <5>2
      <4> QED BY <4>2, <4>3
    <3> QED BY <3>2, <3>3
  <2>9. SpreadBounded'
    <3> SUFFICES ASSUME ~late, NEW r \in Runnable', NEW q \in Runnable'
                 PROVE  pass'[r] - pass'[q] <= BIG_STRIDE
      BY DEF SpreadBounded
    <3>1. r \in Q /\ q \in Q
      BY <2>1, <2>2 DEF Runnable
    <3>2. /\ pass[r] \in Nat /\ pass[q] \in Nat
          /\ pass[r] - pass[q] <= BIG_STRIDE /\ pass[p] <= pass[q] /\ pass[p] <= pass[r]
      BY <1>0, <2>1, <2>4, <3>1, RootIsLeast, RunnableClose DEF Close
    <3>3. /\ pass'[r] = IF r = p THEN pass[p] + d ELSE pass[r]
          /\ pass'[q] = IF q = p THEN pass[p] + d ELSE pass[q]
      BY <1>0, <2>4, <2>6, <3>1
    <3> QED BY <2>3, <2>4, <3>2, <3>3, StrideAssumption
  <2> QED BY <2>7, <2>8, <2>9 DEF Inv
<1> QED BY <1>1, <1>2

\* schedule() chooses among the runnable processes, a blocking process among
\* those in the run queue.
LEMMA Chooses ==
  ASSUME Inv, schedule \/ Block
  PROVE  \E Q \in SUBSET Runnable : rq \subseteq Q /\ PickFrom(Q)
<1>1. CASE Block
  BY <1>1 DEF Block, Runnable
<1>2. CASE schedule /\ current = NULL
  BY <1>2 DEF schedule, Runnable
<1>3. CASE schedule /\ current # NULL
  BY <1>3 DEF schedule, Runnable
<1> QED BY <1>1, <1>2, <1>3

\* A process that wakes up either is close to all runnable ones or is late.
LEMMA WakeInv ==
  ASSUME Inv, NEW p \in Procs, Wake(p)
  PROVE  Inv'
<1>1. TypeOK'
  BY StrideAssumption DEF Wake, Refilled, Inv, TypeOK
<1>2. Words'
  BY DEF Wake, Inv, Words
<1>3. SpreadBounded'
  <2> SUFFICES ASSUME ~late', NEW r \in Runnable', NEW q \in Runnable'
               PROVE  pass[r] - pass[q] <= BIG_STRIDE
    BY DEF Wake, SpreadBounded
  <2>1. ~late /\ \A x \in Runnable : Close(p, x)
    BY DEF Wake, Close
  <2>2. r \in Runnable \cup {p} /\ q \in Runnable \cup {p}
    BY DEF Wake, Runnable
  <2>3. pass[p] \in Nat
    BY DEF Inv, TypeOK
  <2> QED BY <2>1, <2>2, <2>3, StrideAssumption DEF Inv, SpreadBounded, Close
<1> QED BY <1>1, <1>2, <1>3 DEF Inv

LEMMA NextInv == Inv /\ [Next]_vars => Inv'
<1> SUFFICES ASSUME Inv, [Next]_vars PROVE Inv'
  OBVIOUS
<1>1. CASE schedule \/ Block
  <2>1. PICK Q \in SUBSET Runnable : PickFrom(Q)
    BY <1>1, Chooses
  <2>2. UNCHANGED <<lab6_priority, late>> /\ need_resched' \in BOOLEAN
    BY <1>1 DEF schedule, Block
  <2>3. time_slice' \in [Procs -> 0..MAX_TIME_SLICE]
    BY <1>1, StrideAssumption DEF schedule, Block, Refilled, Inv, TypeOK
  <2> QED BY <2>1, <2>2, <2>3, PickInv
<1>2. CASE proc_tick
  <2>1. TypeOK'
    BY <1>2, StrideAssumption DEF proc_tick, Inv, TypeOK
  <2>2. UNCHANGED <<rq, current, lab6_stride, pass, late>>
    BY <1>2 DEF proc_tick
  <2> QED BY <2>1, <2>2 DEF Inv, Words, SpreadBounded, Runnable
<1>3. CASE do_yield \/ idle_tick \/ UNCHANGED vars
  <2>1. TypeOK' /\ UNCHANGED <<rq, current, lab6_stride, pass, late>>
    BY <1>3 DEF do_yield, idle_tick, vars, Inv, TypeOK
  <2> QED BY <2>1 DEF Inv, Words, SpreadBounded, Runnable
<1>4. ASSUME NEW priority \in Priorities, lab6_set_priority(priority) PROVE Inv'
  <2>1. TypeOK' /\ UNCHANGED <<rq, current, lab6_stride, pass, late>>
    BY <1>4, StrideAssumption DEF lab6_set_priority, Inv, TypeOK
  <2> QED BY <2>1 DEF Inv, Words, SpreadBounded, Runnable
<1> QED BY <1>1, <1>2, <1>3, <1>4, WakeInv DEF Next

LEMMA InvComparison == Inv => ComparisonIsRight
<1> SUFFICES ASSUME Inv, ~late, NEW p \in Runnable, NEW q \in Runnable
             PROVE  proc_stride_comp_f(p, q) = pass[p] - pass[q]
  BY DEF ComparisonIsRight
<1>1. p \in Procs /\ q \in Procs
  BY RunnableIn DEF Inv
<1> QED BY <1>1, RunnableClose, CloseCompares DEF Inv

\* Strides, priorities and time slices keep to their ranges.
THEOREM TypeCorrect == Spec => []TypeOK
<1>1. Inv => TypeOK
  BY DEF Inv
<1> QED BY <1>1, InitInv, NextInv, PTL DEF Spec

\* proc_stride_comp_f: the signed difference of two wrapped strides is the
\* difference of the strides without wrapping, for every word size, as long as
\* nobody has entered the run queue more than BIG_STRIDE away from the others.
THEOREM WrapAroundIsHarmless == Spec => []ComparisonIsRight
BY InvComparison, InitInv, NextInv, PTL DEF Spec

\* stride_pick_next: no process gets more than one turn ahead of its share, as
\* long as nobody has come late.
THEOREM ShareIsFair == Spec => []SpreadBounded
<1>1. Inv => SpreadBounded
  BY DEF Inv
<1> QED BY <1>1, InitInv, NextInv, PTL DEF Spec

\* stride_pick_next picks a process with the least unwrapped stride, as long as
\* nobody has come late.
THEOREM MinimumIsPicked == Spec => PicksMinimum
<1>1. Inv /\ [Next]_vars => [~late => PickIsLeast]_vars
  <2> SUFFICES ASSUME Inv, Next, ~late, current' # current, current' # NULL
               PROVE  \A q \in rq : pass[current'] <= pass[q]
    BY DEF PickIsLeast
  <2>1. schedule \/ Block
    BY DEF Next, Wake, do_yield, proc_tick, idle_tick, lab6_set_priority
  <2>2. PICK Q \in SUBSET Runnable : rq \subseteq Q /\ PickFrom(Q)
    BY <2>1, Chooses
  <2>3. current' \in Roots(Q)
    BY <2>2 DEF PickFrom
  <2> QED BY <2>2, <2>3, RootIsLeast
<1> QED BY <1>1, InitInv, NextInv, PTL DEF Spec, PicksMinimum
=============================================================================
