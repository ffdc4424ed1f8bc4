---------------------------- MODULE Waiting_proof ----------------------------
(* Those who wait are woken as they should be: readers by the keyboard, for     *)
(* every number of readers, size of the ring and number of characters, and     *)
(* sleepers by the clock, for every number of timers and any times.  Threads    *)
(* that yield (the earlier kernel) get their turns, however many there are.     *)
EXTENDS Stdin, TimerList, Threads, SequenceTheorems, WellFoundedInduction, TLAPS

-----------------------------------------------------------------------------
(* The keyboard (module Stdin): the inductive invariant. *)

\* The positions count what has been typed and read.
PositionsInv ==
  /\ p_wpos <= typed
  /\ Len(delivered) = p_rpos
  /\ ~overrun => p_wpos = typed

\* What is in the ring are the characters that come next.
ContentsInv ==
  ~overrun => \A k \in p_rpos..p_wpos-1 : stdin_buffer[k % STDIN_BUFSIZE] = k + 1

Inv ==
  /\ StdinTypeOK
  /\ RingBounded
  /\ PositionsInv
  /\ ContentsInv
  /\ InOrder
  /\ QueueIsSound
  /\ NobodySleepsOnInput

-----------------------------------------------------------------------------
(* Positions in the ring. *)

LEMMA DivMod ==
  ASSUME NEW a \in Nat, NEW s \in Nat, s > 0
  PROVE  a = s * (a \div s) + (a % s) /\ a % s \in 0..s-1 /\ a \div s \in Int
OBVIOUS

LEMMA Multiples ==
  ASSUME NEW s \in Nat, s > 0, NEW x \in Int, NEW y \in Int, x < y
  PROVE  s * y - s * x >= s
<1>1. y - x >= 1
  OBVIOUS
<1>2. s * y - s * x = s * (y - x)
  OBVIOUS
<1>3. \A d \in Int : d >= 1 => s * d >= s
  OBVIOUS
<1> QED BY <1>1, <1>2, <1>3

\* Positions less than a ring apart have slots of their own.
LEMMA SlotsDiffer ==
  ASSUME NEW s \in Nat, s > 0, NEW a \in Nat, NEW b \in Nat, a < b, b - a < s
  PROVE  a % s # b % s
<1> SUFFICES ASSUME a % s = b % s PROVE FALSE
  OBVIOUS
<1>1. PICK x \in Int : a = s * x + (a % s)
  BY DivMod
<1>2. PICK y \in Int : b = s * y + (b % s)
  BY DivMod
<1>3. a % s \in Int /\ s * x \in Int /\ s * y \in Int
  BY DivMod
<1>4. s * y - s * x = b - a
  BY <1>1, <1>2, <1>3
<1>5. CASE x < y
  BY <1>4, <1>5, Multiples
<1>6. CASE x = y
  BY <1>3, <1>4, <1>6
<1>7. CASE y < x
  BY <1>3, <1>4, <1>7, Multiples
<1> QED BY <1>5, <1>6, <1>7

-----------------------------------------------------------------------------
(* Wait queues. *)

InQueue(q) == {q[k] : k \in 1..Len(q)}
OnceEach(q) == \A j, k \in 1..Len(q) : q[j] = q[k] => j = k

LEMMA FunctionIsSeq ==
  ASSUME NEW S, NEW n \in Nat, NEW f \in [1..n -> S]
  PROVE  f \in Seq(S) /\ DOMAIN f = 1..n
<1>1. f \in UNION {[1..m -> S] : m \in Nat}
  BY Zenon
<1>2. f \in Seq(S)
  BY <1>1, SeqDef, Zenon
<1> QED BY <1>2

LEMMA Lengths ==
  ASSUME NEW n \in Int, NEW len \in Nat
  PROVE  /\ (n - 1) + (len - n) = len - 1
         /\ \A k \in 1..len-1 : ~(k < n) => k - (n - 1) \in 1..len-n /\ n + (k - (n - 1)) = k + 1
OBVIOUS

\* What it is to take the n-th entry out of a sequence.
LEMMA RemoveEntry ==
  ASSUME NEW S, NEW q \in Seq(S), NEW n \in 1..Len(q),
         NEW w, w = SubSeq(q, 1, n - 1) \o SubSeq(q, n + 1, Len(q))
  PROVE  /\ w \in Seq(S) /\ Len(w) = Len(q) - 1
         /\ \A k \in 1..Len(w) : w[k] = IF k < n THEN q[k] ELSE q[k+1]
<1> DEFINE before == SubSeq(q, 1, n - 1)
           after  == SubSeq(q, n + 1, Len(q))
<1>1. Len(q) \in Nat /\ n \in Int /\ n >= 1 /\ n <= Len(q)
  BY LenProperties
<1>2. \A k \in 1..Len(q) : q[k] \in S
  BY ElementOfSeq
<1>3. /\ before \in Seq(S) /\ Len(before) = n - 1
      /\ \A k \in 1..n-1 : before[k] = q[k]
  <2>1. /\ before \in Seq(S)
        /\ Len(before) = IF 1 <= n - 1 THEN n - 1 - 1 + 1 ELSE 0
        /\ \A k \in 1..n-1-1+1 : before[k] = q[1 + k - 1]
    BY <1>1, <1>2, SubSeqProperties
  <2> QED BY <1>1, <2>1
<1>4. /\ after \in Seq(S) /\ Len(after) = Len(q) - n
      /\ \A k \in 1..Len(q)-n : after[k] = q[n + k]
  <2>1. /\ after \in Seq(S)
        /\ Len(after) = IF n + 1 <= Len(q) THEN Len(q) - (n + 1) + 1 ELSE 0
        /\ \A k \in 1..Len(q)-(n+1)+1 : after[k] = q[n + 1 + k - 1]
    BY <1>1, <1>2, SubSeqProperties
  <2> QED BY <1>1, <2>1
<1>5. /\ before \o after \in Seq(S)
      /\ Len(before \o after) = Len(before) + Len(after)
      /\ \A k \in 1..Len(before) + Len(after) :
           (before \o after)[k] = IF k <= Len(before) THEN before[k] ELSE after[k - Len(before)]
  BY <1>3, <1>4, ConcatProperties
<1> HIDE DEF before, after
<1>6. w = before \o after
  BY DEF before, after
<1>7. Len(w) = Len(q) - 1
  <2>1. Len(w) = Len(before) + Len(after)
    BY <1>5, <1>6, Zenon
  <2>2. Len(w) = (n - 1) + (Len(q) - n)
    BY <1>3, <1>4, <2>1, Zenon
  <2> QED BY <1>1, <2>2, Lengths
<1>8. ASSUME NEW k \in 1..Len(w)
      PROVE  w[k] = IF k < n THEN q[k] ELSE q[k+1]
  <2>1. w[k] = IF k <= n - 1 THEN before[k] ELSE after[k - (n - 1)]
    BY <1>1, <1>3, <1>4, <1>5, <1>6, <1>7
  <2>2. CASE k < n
    BY <1>1, <1>3, <2>1, <2>2
  <2>3. CASE ~(k < n)
    <3>1. k - (n - 1) \in 1..Len(q)-n /\ n + (k - (n - 1)) = k + 1
      BY <1>1, <1>7, <2>3, Lengths
    <3>2. after[k - (n - 1)] = q[n + (k - (n - 1))]
      BY <1>4, <3>1
    <3>3. ~(k <= n - 1)
      BY <1>1, <1>7, <2>3
    <3>4. w[k] = after[k - (n - 1)]
      BY <2>1, <3>3, Zenon
    <3> QED BY <2>3, <3>1, <3>2, <3>4
  <2> QED BY <2>2, <2>3
<1> QED BY <1>5, <1>6, <1>7, <1>8

\* wait_current_del unlinks exactly the one reader.
LEMMA WithoutFacts ==
  ASSUME NEW S, NEW q \in Seq(S), OnceEach(q), NEW r
  PROVE  /\ Without(q, r) \in Seq(S)
         /\ OnceEach(Without(q, r))
         /\ InQueue(Without(q, r)) = InQueue(q) \ {r}
<1>1. CASE ~\E k \in 1..Len(q) : q[k] = r
  <2>1. Without(q, r) = q
    BY <1>1 DEF Without
  <2> QED BY <1>1, <2>1 DEF InQueue
<1>2. CASE \E k \in 1..Len(q) : q[k] = r
  <2>1. PICK n \in 1..Len(q) : n = CHOOSE k \in 1..Len(q) : q[k] = r
    BY <1>2
  <2>2. q[n] = r
    BY <1>2, <2>1
  <2>3. Without(q, r) = SubSeq(q, 1, n - 1) \o SubSeq(q, n + 1, Len(q))
    BY <1>2, <2>1 DEF Without
  <2>4. PICK w : w = Without(q, r)
    OBVIOUS
  <2>5. /\ w \in Seq(S) /\ Len(w) = Len(q) - 1
        /\ \A k \in 1..Len(w) : w[k] = IF k < n THEN q[k] ELSE q[k+1]
    BY <2>3, <2>4, RemoveEntry
  <2>6. Len(q) \in Nat
    BY LenProperties
  <2>7. OnceEach(w)
    BY <2>5, <2>6 DEF OnceEach
  <2>8. InQueue(w) \subseteq InQueue(q) \ {r}
    <3>1. ASSUME NEW k \in 1..Len(w) PROVE w[k] \in InQueue(q) \ {r}
      <4>1. CASE k < n
        <5>1. k \in 1..Len(q) /\ k # n /\ w[k] = q[k]
          BY <2>5, <2>6, <4>1
        <5> QED BY <2>2, <5>1 DEF OnceEach, InQueue
      <4>2. CASE ~(k < n)
        <5>1. k + 1 \in 1..Len(q) /\ k + 1 # n /\ w[k] = q[k+1]
          BY <2>5, <2>6, <4>2
        <5> QED BY <2>2, <5>1 DEF OnceEach, InQueue
      <4> QED BY <4>1, <4>2
    <3> QED BY <3>1 DEF InQueue
  <2>9. InQueue(q) \ {r} \subseteq InQueue(w)
    <3>1. ASSUME NEW k \in 1..Len(q), q[k] # r PROVE q[k] \in InQueue(w)
      <4>1. CASE k < n
        <5>1. k \in 1..Len(w) /\ w[k] = q[k]
          BY <2>5, <2>6, <4>1
        <5> QED BY <5>1 DEF InQueue
      <4>2. CASE ~(k < n)
        <5>1. k - 1 \in 1..Len(w) /\ ~(k - 1 < n) /\ (k - 1) + 1 = k
          BY <2>2, <2>5, <2>6, <3>1, <4>2
        <5>2. w[k - 1] = q[k]
          BY <2>5, <5>1
        <5> QED BY <5>1, <5>2 DEF InQueue
      <4> QED BY <4>1, <4>2
    <3> QED BY <3>1 DEF InQueue
  <2> QED BY <2>4, <2>5, <2>7, <2>8, <2>9
<1> QED BY <1>1, <1>2

\* wait_current_set puts a reader behind the others.
LEMMA AppendFacts ==
  ASSUME NEW S, NEW q \in Seq(S), OnceEach(q), NEW r \in S, r \notin InQueue(q)
  PROVE  /\ Append(q, r) \in Seq(S)
         /\ OnceEach(Append(q, r))
         /\ InQueue(Append(q, r)) = InQueue(q) \cup {r}
<1> DEFINE w == Append(q, r)
<1>1. /\ w \in Seq(S) /\ Len(w) = Len(q) + 1 /\ Len(q) \in Nat
      /\ \A k \in 1..Len(q) : w[k] = q[k]
      /\ w[Len(q) + 1] = r
  BY AppendProperties, LenProperties
<1> HIDE DEF w
<1>2. \A k \in 1..Len(w) : k \in 1..Len(q) \/ k = Len(q) + 1
  BY <1>1
<1>3. OnceEach(w)
  BY <1>1, <1>2 DEF OnceEach, InQueue
<1>4. InQueue(w) = InQueue(q) \cup {r}
  <2>1. \A k \in 1..Len(w) : w[k] \in InQueue(q) \cup {r}
    BY <1>1, <1>2 DEF InQueue
  <2>2. \A k \in 1..Len(q) : k \in 1..Len(w) /\ w[k] = q[k]
    BY <1>1
  <2>3. Len(q) + 1 \in 1..Len(w)
    BY <1>1
  <2> QED BY <1>1, <2>1, <2>2, <2>3 DEF InQueue
<1> QED BY <1>1, <1>3, <1>4 DEF w

-----------------------------------------------------------------------------
(* The invariant in terms of the above. *)

LEMMA QueueSound ==
  QueueIsSound <=> /\ \A r \in Readers : pc[r] = "asleep" => r \in InQueue(wait_queue)
                   /\ \A r \in InQueue(wait_queue) : pc[r] \in {"asleep", "woken"}
                   /\ OnceEach(wait_queue)
BY DEF QueueIsSound, Queued, InQueue, OnceEach

LEMMA InitInv == StdinInit => Inv
<1> SUFFICES ASSUME StdinInit PROVE Inv
  OBVIOUS
<1>1. STDIN_BUFSIZE \in Nat /\ STDIN_BUFSIZE > 0 /\ MAX_LEN \in Nat /\ MAX_KEYS \in Nat
  BY StdinAssumption
<1>2. wait_queue \in Seq(Readers) /\ Len(wait_queue) = 0 /\ delivered \in Seq(0..MAX_KEYS) /\ Len(delivered) = 0
  BY EmptySeq DEF StdinInit
<1>3. StdinTypeOK
  BY <1>1, <1>2 DEF StdinInit, StdinTypeOK
<1>4. RingBounded /\ PositionsInv /\ ContentsInv /\ InOrder /\ NobodySleepsOnInput
  BY <1>1, <1>2 DEF StdinInit, RingBounded, PositionsInv, ContentsInv, InOrder, NobodySleepsOnInput
<1>5. QueueIsSound
  BY <1>2 DEF StdinInit, QueueIsSound, Queued
<1> QED BY <1>3, <1>4, <1>5 DEF Inv

\* The keyboard interrupt uses a slot that holds no unread character, unless the
\* ring is full, and leaves nobody asleep.
LEMMA WriteInv == Inv /\ dev_stdin_write => Inv'
<1> SUFFICES ASSUME Inv, dev_stdin_write PROVE Inv'
  OBVIOUS
<1>1. STDIN_BUFSIZE \in Nat /\ STDIN_BUFSIZE > 0 /\ MAX_LEN \in Nat /\ MAX_KEYS \in Nat
  BY StdinAssumption DEF Inv
<1>2. /\ p_rpos \in Nat /\ p_wpos \in Nat /\ typed \in Nat /\ p_wpos <= typed /\ typed < MAX_KEYS
      /\ p_rpos <= p_wpos /\ p_wpos - p_rpos <= STDIN_BUFSIZE
      /\ stdin_buffer \in [0..STDIN_BUFSIZE-1 -> 0..MAX_KEYS]
  BY <1>1 DEF Inv, StdinTypeOK, PositionsInv, RingBounded, dev_stdin_write
<1>3. /\ typed' = typed + 1
      /\ stdin_buffer' = [stdin_buffer EXCEPT ![p_wpos % STDIN_BUFSIZE] = typed + 1]
      /\ p_wpos' = IF p_wpos - p_rpos >= STDIN_BUFSIZE THEN p_wpos ELSE p_wpos + 1
      /\ overrun' = (overrun \/ p_wpos - p_rpos >= STDIN_BUFSIZE)
      /\ p_rpos' = p_rpos /\ left' = left /\ exiting' = exiting /\ delivered' = delivered
      /\ pc' = [r \in Readers |-> IF r \in Queued THEN "woken" ELSE pc[r]]
      /\ wakeup_flags' = [r \in Readers |-> IF r \in Queued THEN "WT_KBD" ELSE wakeup_flags[r]]
      /\ wait_queue' = <<>>
  BY DEF dev_stdin_write
<1>4. p_wpos % STDIN_BUFSIZE \in 0..STDIN_BUFSIZE-1
  BY <1>1, <1>2, DivMod
<1>5. wait_queue' \in Seq(Readers) /\ Len(wait_queue') = 0
  BY <1>3, EmptySeq
<1>6. StdinTypeOK'
  <2>1. stdin_buffer' \in [0..STDIN_BUFSIZE-1 -> 0..MAX_KEYS]
    BY <1>1, <1>2, <1>3, <1>4
  <2>2. /\ p_rpos' \in 0..MAX_KEYS /\ p_wpos' \in 0..MAX_KEYS /\ typed' \in 0..MAX_KEYS
    BY <1>1, <1>2, <1>3 DEF Inv, StdinTypeOK
  <2>3. /\ pc' \in [Readers -> {"user", "asleep", "woken", "dead"}]
        /\ wakeup_flags' \in [Readers -> {"WT_INTERRUPTED", "WT_KBD"}]
    BY <1>3 DEF Inv, StdinTypeOK
  <2>4. overrun' \in BOOLEAN
    BY <1>3
  <2> QED BY <1>3, <1>5, <2>1, <2>2, <2>3, <2>4 DEF Inv, StdinTypeOK
<1>7. ~overrun' => ~overrun /\ ~(p_wpos - p_rpos >= STDIN_BUFSIZE) /\ p_wpos = typed
  <2>1. ~overrun' => ~overrun /\ ~(p_wpos - p_rpos >= STDIN_BUFSIZE)
    BY <1>3, Zenon
  <2> QED BY <2>1, Zenon DEF Inv, PositionsInv
<1>8. RingBounded' /\ PositionsInv'
  <2>1. RingBounded'
    BY <1>1, <1>2, <1>3 DEF RingBounded
  <2>2. p_wpos' <= typed'
    BY <1>1, <1>2, <1>3
  <2>3. Len(delivered') = p_rpos'
    BY <1>3 DEF Inv, PositionsInv
  <2>4. ~overrun' => p_wpos' = typed'
    BY <1>1, <1>2, <1>3, <1>7
  <2> QED BY <2>1, <2>2, <2>3, <2>4 DEF PositionsInv
<1>9. ContentsInv'
  <2> SUFFICES ASSUME ~overrun', NEW k \in p_rpos'..p_wpos'-1
               PROVE  stdin_buffer'[k % STDIN_BUFSIZE] = k + 1
    BY DEF ContentsInv
  <2>1. ~overrun /\ p_wpos' = p_wpos + 1 /\ p_wpos = typed /\ p_wpos - p_rpos < STDIN_BUFSIZE
    BY <1>1, <1>2, <1>3, <1>7
  <2>2. k \in Nat /\ k >= p_rpos /\ k <= p_wpos
    BY <1>2, <1>3, <2>1
  <2>3. CASE k = p_wpos
    BY <1>2, <1>3, <1>4, <2>1, <2>3
  <2>4. CASE k # p_wpos
    <3>1. k % STDIN_BUFSIZE # p_wpos % STDIN_BUFSIZE
      BY <1>1, <1>2, <2>1, <2>2, <2>4, SlotsDiffer
    <3>2. k % STDIN_BUFSIZE \in 0..STDIN_BUFSIZE-1
      BY <1>1, <2>2, DivMod
    <3>3. stdin_buffer[k % STDIN_BUFSIZE] = k + 1
      BY <1>2, <2>1, <2>2, <2>4 DEF Inv, ContentsInv
    <3> QED BY <1>2, <1>3, <3>1, <3>2, <3>3
  <2> QED BY <2>3, <2>4
<1>10. InOrder'
  BY <1>3 DEF Inv, InOrder
<1>11. \A r \in Readers : pc'[r] # "asleep"
  BY <1>3 DEF Inv, QueueIsSound
<1>12. QueueIsSound' /\ NobodySleepsOnInput'
  BY <1>5, <1>11 DEF QueueIsSound, Queued, NobodySleepsOnInput
<1> QED BY <1>1, <1>6, <1>8, <1>9, <1>10, <1>12 DEF Inv

\* The read loop of a reader that is not in queue q takes the oldest characters.
LEMMA LoopInv ==
  ASSUME Inv, NEW r \in Readers, NEW len \in 0..MAX_LEN,
         NEW q \in Seq(Readers), OnceEach(q), InQueue(q) = InQueue(wait_queue) \ {r},
         ReadLoop(r, len, q)
  PROVE  Inv'
<1>1. STDIN_BUFSIZE \in Nat /\ STDIN_BUFSIZE > 0 /\ MAX_LEN \in Nat /\ MAX_KEYS \in Nat
  BY StdinAssumption DEF Inv
<1>2. /\ p_rpos \in Nat /\ p_wpos \in Nat /\ p_wpos <= MAX_KEYS
      /\ p_rpos <= p_wpos /\ p_wpos - p_rpos <= STDIN_BUFSIZE
      /\ delivered \in Seq(0..MAX_KEYS) /\ Len(delivered) = p_rpos
  BY <1>1 DEF Inv, StdinTypeOK, PositionsInv, RingBounded
<1>3. PICK n : n = IF len < p_wpos - p_rpos THEN len ELSE p_wpos - p_rpos
  OBVIOUS
<1>4. n \in Nat /\ n <= len /\ n <= p_wpos - p_rpos /\ len \in Nat
  BY <1>1, <1>2, <1>3
<1>5. PICK got : got = [k \in 1..n |-> stdin_buffer[(p_rpos + k - 1) % STDIN_BUFSIZE]]
  OBVIOUS
<1>6. /\ delivered' = delivered \o got
      /\ p_rpos' = p_rpos + n
      /\ left' = [left EXCEPT ![r] = len - n]
      /\ stdin_buffer' = stdin_buffer /\ p_wpos' = p_wpos /\ exiting' = exiting
      /\ typed' = typed /\ overrun' = overrun
  BY <1>3, <1>5 DEF ReadLoop
<1>7. \/ n = len /\ Return(r) /\ wait_queue' = q /\ wakeup_flags' = wakeup_flags
      \/ /\ n # len /\ pc' = [pc EXCEPT ![r] = "asleep"] /\ wait_queue' = Append(q, r)
         /\ wakeup_flags' = [wakeup_flags EXCEPT ![r] = "WT_INTERRUPTED"]
  BY <1>3 DEF ReadLoop
<1>8. /\ got \in Seq(0..MAX_KEYS) /\ Len(got) = n
      /\ \A k \in 1..n : got[k] = stdin_buffer[(p_rpos + k - 1) % STDIN_BUFSIZE]
  <2>1. ASSUME NEW k \in 1..n PROVE stdin_buffer[(p_rpos + k - 1) % STDIN_BUFSIZE] \in 0..MAX_KEYS
    <3>1. p_rpos + k - 1 \in Nat
      BY <1>2, <1>4
    <3>2. (p_rpos + k - 1) % STDIN_BUFSIZE \in 0..STDIN_BUFSIZE-1
      BY <1>1, <3>1, DivMod
    <3> QED BY <3>2 DEF Inv, StdinTypeOK
  <2>2. got \in [1..n -> 0..MAX_KEYS]
    BY <1>5, <2>1
  <2>3. got \in Seq(0..MAX_KEYS) /\ Len(got) = n
    <3>1. got \in Seq(0..MAX_KEYS) /\ DOMAIN got = 1..n
      BY <1>4, <2>2, FunctionIsSeq
    <3>2. Len(got) \in Nat /\ DOMAIN got = 1..Len(got)
      BY <3>1, LenProperties
    <3> QED BY <1>4, <3>1, <3>2
  <2> QED BY <1>5, <2>3
<1>9. /\ delivered' \in Seq(0..MAX_KEYS) /\ Len(delivered') = p_rpos + n
      /\ \A k \in 1..p_rpos+n : delivered'[k] = IF k <= p_rpos THEN delivered[k] ELSE got[k - p_rpos]
  <2>1. /\ delivered \o got \in Seq(0..MAX_KEYS)
        /\ Len(delivered \o got) = Len(delivered) + Len(got)
        /\ \A k \in 1..Len(delivered) + Len(got) :
             (delivered \o got)[k] = IF k <= Len(delivered) THEN delivered[k] ELSE got[k - Len(delivered)]
    BY <1>2, <1>8, ConcatProperties
  <2> QED BY <1>2, <1>6, <1>8, <2>1, Zenon
<1>10. p_rpos' \in Nat /\ p_rpos' <= p_wpos /\ p_wpos - p_rpos' <= STDIN_BUFSIZE
  BY <1>1, <1>2, <1>4, <1>6
<1>11. /\ pc' \in [Readers -> {"user", "asleep", "woken", "dead"}]
       /\ \A x \in Readers : x # r => pc'[x] = pc[x]
       /\ pc'[r] = "asleep" <=> n # len
       /\ wakeup_flags' \in [Readers -> {"WT_INTERRUPTED", "WT_KBD"}]
  BY <1>7 DEF Return, Inv, StdinTypeOK
<1>12. /\ wait_queue' \in Seq(Readers) /\ OnceEach(wait_queue')
       /\ InQueue(wait_queue') = IF n = len THEN InQueue(q) ELSE InQueue(q) \cup {r}
  <2>1. r \notin InQueue(q)
    OBVIOUS
  <2>2. CASE n = len
    BY <1>7, <2>2
  <2>3. CASE n # len
    <3>1. wait_queue' = Append(q, r)
      BY <1>7, <2>3
    <3> QED BY <2>1, <2>3, <3>1, AppendFacts
  <2> QED BY <2>2, <2>3
<1>13. StdinTypeOK'
  <2>1. left' \in [Readers -> 0..MAX_LEN]
    BY <1>1, <1>4, <1>6 DEF Inv, StdinTypeOK
  <2>2. p_rpos' \in 0..MAX_KEYS
    BY <1>1, <1>2, <1>10
  <2> QED BY <1>6, <1>9, <1>11, <1>12, <2>1, <2>2 DEF Inv, StdinTypeOK
<1>14. RingBounded' /\ PositionsInv'
  BY <1>6, <1>9, <1>10 DEF RingBounded, PositionsInv, Inv
<1>15. ContentsInv'
  BY <1>2, <1>4, <1>6 DEF Inv, ContentsInv
<1>16. InOrder'
  <2> SUFFICES ASSUME ~overrun, NEW k \in 1..p_rpos+n PROVE delivered'[k] = k
    BY <1>6, <1>9 DEF InOrder
  <2>1. CASE k <= p_rpos
    BY <1>2, <1>4, <1>9, <2>1 DEF Inv, InOrder
  <2>2. CASE ~(k <= p_rpos)
    <3>1. k - p_rpos \in 1..n /\ p_rpos + (k - p_rpos) - 1 = k - 1 /\ k - 1 \in p_rpos..p_wpos-1
      BY <1>2, <1>4, <2>2
    <3>2. got[k - p_rpos] = stdin_buffer[(k - 1) % STDIN_BUFSIZE]
      BY <1>8, <3>1
    <3>3. stdin_buffer[(k - 1) % STDIN_BUFSIZE] = (k - 1) + 1
      BY <3>1 DEF Inv, ContentsInv
    <3> QED BY <1>2, <1>4, <1>9, <2>2, <3>2, <3>3
  <2> QED BY <2>1, <2>2
<1>17. QueueIsSound'
  <2>1. /\ \A x \in Readers : pc[x] = "asleep" => x \in InQueue(wait_queue)
        /\ \A x \in InQueue(wait_queue) : pc[x] \in {"asleep", "woken"}
    BY QueueSound DEF Inv
  <2>2. InQueue(q) \subseteq Readers
    BY ElementOfSeq DEF InQueue
  <2>3. \A x \in Readers : pc'[x] = "asleep" => x \in InQueue(wait_queue')
    BY <1>11, <1>12, <2>1
  <2>4. \A x \in InQueue(wait_queue') : pc'[x] \in {"asleep", "woken"}
    BY <1>11, <1>12, <2>1, <2>2
  <2> QED BY <1>12, <2>3, <2>4 DEF QueueIsSound, Queued, InQueue, OnceEach
<1>18. NobodySleepsOnInput'
  <2> SUFFICES ASSUME p_rpos' < p_wpos, NEW x \in Readers PROVE pc'[x] # "asleep"
    BY <1>6 DEF NobodySleepsOnInput
  <2>1. n = len /\ p_rpos < p_wpos
    BY <1>1, <1>2, <1>3, <1>4, <1>6
  <2> QED BY <1>11, <2>1 DEF Inv, NobodySleepsOnInput
<1> QED BY <1>1, <1>13, <1>14, <1>15, <1>16, <1>17, <1>18 DEF Inv

LEMMA ReadInv ==
  ASSUME Inv, NEW r \in Readers, dev_stdin_read(r)
  PROVE  Inv'
<1>1. PICK len \in 1..MAX_LEN : ReadLoop(r, len, wait_queue)
  BY DEF dev_stdin_read
<1>2. r \notin InQueue(wait_queue) /\ OnceEach(wait_queue) /\ wait_queue \in Seq(Readers)
  BY QueueSound DEF dev_stdin_read, Inv, StdinTypeOK
<1>3. len \in 0..MAX_LEN
  BY StdinAssumption DEF Inv
<1> QED BY <1>1, <1>2, <1>3, LoopInv

LEMMA WakesInv ==
  ASSUME Inv, NEW r \in Readers, ReadWakes(r)
  PROVE  Inv'
<1>1. /\ Without(wait_queue, r) \in Seq(Readers) /\ OnceEach(Without(wait_queue, r))
      /\ InQueue(Without(wait_queue, r)) = InQueue(wait_queue) \ {r}
  BY WithoutFacts, QueueSound DEF Inv, StdinTypeOK
<1>2. CASE wakeup_flags[r] = "WT_KBD"
  <2>1. ReadLoop(r, left[r], Without(wait_queue, r)) /\ left[r] \in 0..MAX_LEN
    BY <1>2 DEF ReadWakes, Inv, StdinTypeOK
  <2> QED BY <1>1, <2>1, LoopInv
<1>3. CASE wakeup_flags[r] # "WT_KBD"
  <2>1. /\ Return(r) /\ wait_queue' = Without(wait_queue, r)
        /\ UNCHANGED <<stdin_buffer, p_rpos, p_wpos, left, wakeup_flags, exiting, typed, delivered, overrun>>
    BY <1>3 DEF ReadWakes
  <2>2. /\ pc' \in [Readers -> {"user", "asleep", "woken", "dead"}]
        /\ \A x \in Readers : x # r => pc'[x] = pc[x]
        /\ pc'[r] # "asleep"
    BY <2>1 DEF Return, Inv, StdinTypeOK
  <2>3. StdinTypeOK'
    BY <1>1, <2>1, <2>2 DEF Inv, StdinTypeOK
  <2>4. RingBounded' /\ PositionsInv' /\ ContentsInv' /\ InOrder'
    BY <2>1 DEF Inv, RingBounded, PositionsInv, ContentsInv, InOrder
  <2>5. NobodySleepsOnInput'
    BY <2>1, <2>2 DEF Inv, NobodySleepsOnInput
  <2>6. QueueIsSound'
    <3>1. /\ \A x \in Readers : pc[x] = "asleep" => x \in InQueue(wait_queue)
          /\ \A x \in InQueue(wait_queue) : pc[x] \in {"asleep", "woken"}
      BY QueueSound DEF Inv
    <3>2. InQueue(wait_queue) \subseteq Readers
      BY ElementOfSeq DEF InQueue, Inv, StdinTypeOK
    <3>3. \A x \in Readers : pc'[x] = "asleep" => x \in InQueue(wait_queue')
      BY <1>1, <2>1, <2>2, <3>1
    <3>4. \A x \in InQueue(wait_queue') : pc'[x] \in {"asleep", "woken"}
      BY <1>1, <2>1, <2>2, <3>1, <3>2
    <3>5. OnceEach(wait_queue')
      BY <1>1, <2>1
    <3> QED BY <3>3, <3>4, <3>5 DEF QueueIsSound, Queued, InQueue, OnceEach
  <2> QED BY <2>3, <2>4, <2>5, <2>6 DEF Inv
<1> QED BY <1>2, <1>3

LEMMA KillInv ==
  ASSUME Inv, NEW r \in Readers, do_kill(r) \/ TrapExit(r)
  PROVE  Inv'
<1>1. /\ exiting' \subseteq Readers
      /\ UNCHANGED <<stdin_buffer, p_rpos, p_wpos, wait_queue, left, wakeup_flags, typed, delivered, overrun>>
  BY DEF do_kill, TrapExit, Inv, StdinTypeOK
<1>2. /\ pc' \in [Readers -> {"user", "asleep", "woken", "dead"}]
      /\ \A x \in Readers : pc'[x] = "asleep" => pc[x] = "asleep"
      /\ \A x \in Readers : pc[x] \in {"asleep", "woken"} => pc'[x] \in {"asleep", "woken"}
  BY DEF do_kill, TrapExit, Inv, StdinTypeOK
<1>3. StdinTypeOK'
  BY <1>1, <1>2 DEF Inv, StdinTypeOK
<1>4. RingBounded' /\ PositionsInv' /\ ContentsInv' /\ InOrder' /\ NobodySleepsOnInput'
  BY <1>1, <1>2 DEF Inv, RingBounded, PositionsInv, ContentsInv, InOrder, NobodySleepsOnInput
<1>5. QueueIsSound'
  <2>1. \A k \in 1..Len(wait_queue) : wait_queue[k] \in Readers
    BY ElementOfSeq DEF Inv, StdinTypeOK
  <2> QED BY <1>1, <1>2, <2>1 DEF Inv, QueueIsSound, Queued
<1> QED BY <1>3, <1>4, <1>5 DEF Inv

LEMMA NextInv == Inv /\ [StdinNext]_stdinvars => Inv'
<1>1. Inv /\ UNCHANGED stdinvars => Inv'
  BY DEF Inv, StdinTypeOK, RingBounded, PositionsInv, ContentsInv, InOrder,
         QueueIsSound, Queued, NobodySleepsOnInput, stdinvars
<1> QED BY <1>1, WriteInv, ReadInv, WakesInv, KillInv DEF StdinNext

\* The variables of the device stay in range.
THEOREM TypeCorrect == StdinSpec => []StdinTypeOK
<1>1. Inv => StdinTypeOK
  BY DEF Inv
<1> QED BY <1>1, InitInv, NextInv, PTL DEF StdinSpec

\* The ring never holds more than its size, no wakeup of a reader is lost, no
\* wait_t stays linked when its reader has returned, and as long as the ring has
\* not been overrun the readers get every character once and in the order typed.
THEOREM TheInputIsDelivered == StdinSpec => []InputIsDelivered
<1>1. Inv => InputIsDelivered
  BY DEF Inv, InputIsDelivered
<1> QED BY <1>1, InitInv, NextInv, PTL DEF StdinSpec

-----------------------------------------------------------------------------
(* The timers (module TimerList): sums of deltas. *)

\* e[n] is the sum of the first n deltas of q.
IsSum(e, q) ==
  /\ e \in [0..Len(q) -> Nat]
  /\ e[0] = 0
  /\ \A i \in 1..Len(q) : e[i] = e[i - 1] + q[i].expires

\* A delta list.
Delta == [proc : Sleeping, expires : Nat]

\* The first n sums.
Sums(q, n) ==
  {e \in [0..n -> Nat] : e[0] = 0 /\ \A i \in 1..n : e[i] = e[i - 1] + q[i].expires}

LEMMA LeastNumber ==
  ASSUME NEW S, S \subseteq Nat, S # {}
  PROVE  \E n \in S : \A m \in S : ~(m < n)
<1>1. \A m, n \in Nat : <<m, n>> \in OpToRel(<, Nat) <=> m < n
  BY DEF OpToRel
<1>2. \E n \in S : \A m \in S : ~(<<m, n>> \in OpToRel(<, Nat))
  BY NatLessThanWellFounded, WFMin
<1> QED BY <1>1, <1>2

LEMMA Deltas ==
  ASSUME NEW q \in Seq(Delta)
  PROVE  /\ Len(q) \in Nat /\ DOMAIN q = 1..Len(q)
         /\ \A i \in 1..Len(q) : q[i] \in Delta /\ q[i].expires \in Nat /\ q[i].proc \in Sleeping
<1>1. Len(q) \in Nat /\ DOMAIN q = 1..Len(q)
  BY LenProperties
<1>2. ASSUME NEW i \in 1..Len(q) PROVE q[i] \in Delta
  BY ElementOfSeq
<1>3. ASSUME NEW x \in Delta PROVE x.expires \in Nat /\ x.proc \in Sleeping
  BY DEF Delta
<1> QED BY <1>1, <1>2, <1>3

LEMMA SumsExist ==
  ASSUME NEW q \in Seq(Delta), NEW n \in 0..Len(q)
  PROVE  Sums(q, n) # {}
<1>0. Len(q) \in Nat /\ \A i \in 1..Len(q) : q[i].expires \in Nat
  BY Deltas
<1> DEFINE Bad == {m \in 0..Len(q) : Sums(q, m) = {}}
<1> SUFFICES ASSUME Bad # {} PROVE FALSE
  OBVIOUS
<1>1. Bad \subseteq Nat
  BY <1>0
<1>2. PICK m \in Bad : \A k \in Bad : ~(k < m)
  <2> HIDE DEF Bad
  <2> QED BY <1>1, LeastNumber
<1>3. m \in 0..Len(q) /\ Sums(q, m) = {}
  OBVIOUS
<1>4. m # 0
  <2>1. [k \in 0..0 |-> 0] \in Sums(q, 0)
    BY DEF Sums
  <2> QED BY <1>3, <2>1
<1>5. m - 1 \in 0..Len(q) /\ m - 1 < m
  BY <1>0, <1>3, <1>4
<1>6. m - 1 \notin Bad
  <2> HIDE DEF Bad
  <2> QED BY <1>2, <1>5
<1>7. PICK e : e \in Sums(q, m - 1)
  BY <1>5, <1>6
<1>8. e \in [0..(m - 1) -> Nat] /\ e[0] = 0 /\ \A i \in 1..(m - 1) : e[i] = e[i - 1] + q[i].expires
  BY <1>7 DEF Sums
<1> DEFINE g == [k \in 0..m |-> IF k < m THEN e[k] ELSE e[m - 1] + q[m].expires]
<1>9. m \in 1..Len(q) /\ q[m].expires \in Nat /\ m \in Nat
  BY <1>0, <1>3, <1>4
<1>10. g \in [0..m -> Nat]
  BY <1>8, <1>9
<1>11. g[0] = 0
  BY <1>8, <1>9
<1>12. ASSUME NEW i \in 1..m PROVE g[i] = g[i - 1] + q[i].expires
  BY <1>8, <1>9
<1> HIDE DEF g
<1>13. g \in Sums(q, m)
  BY <1>10, <1>11, <1>12 DEF Sums
<1> QED BY <1>3, <1>13

LEMMA SumExists ==
  ASSUME NEW q \in Seq(Delta)
  PROVE  \E e : IsSum(e, q)
<1>1. Len(q) \in 0..Len(q)
  BY LenProperties
<1>2. PICK e : e \in Sums(q, Len(q))
  BY <1>1, SumsExist
<1>3. IsSum(e, q)
  BY <1>2 DEF Sums, IsSum
<1> QED BY <1>3

LEMMA SumUnique ==
  ASSUME NEW q \in Seq(Delta), NEW e, NEW f, IsSum(e, q), IsSum(f, q)
  PROVE  e = f
<1>0. Len(q) \in Nat
  BY LenProperties
<1>1. /\ e \in [0..Len(q) -> Nat] /\ e[0] = 0 /\ \A i \in 1..Len(q) : e[i] = e[i - 1] + q[i].expires
      /\ f \in [0..Len(q) -> Nat] /\ f[0] = 0 /\ \A i \in 1..Len(q) : f[i] = f[i - 1] + q[i].expires
  BY DEF IsSum
<1> DEFINE Bad == {n \in 0..Len(q) : e[n] # f[n]}
<1>2. Bad = {}
  <2> SUFFICES ASSUME Bad # {} PROVE FALSE
    OBVIOUS
  <2>1. Bad \subseteq Nat
    BY <1>0
  <2>2. PICK n \in Bad : \A m \in Bad : ~(m < n)
    <3> HIDE DEF Bad
    <3> QED BY <2>1, LeastNumber
  <2>3. n \in 1..Len(q) /\ e[n] # f[n]
    BY <1>0, <1>1
  <2>4. n - 1 \in 0..Len(q) /\ n - 1 < n
    BY <1>0, <2>3
  <2>5. n - 1 \notin Bad
    <3> HIDE DEF Bad
    <3> QED BY <2>2, <2>4
  <2>6. e[n - 1] = f[n - 1]
    BY <2>4, <2>5
  <2> QED BY <1>1, <2>3, <2>6
<1> QED BY <1>1, <1>2

\* Elapsed is that sum.
LEMMA ElapsedIs ==
  ASSUME NEW q \in Seq(Delta), NEW e, IsSum(e, q), NEW n \in 0..Len(q)
  PROVE  Elapsed(q, n) = e[n]
<1> DEFINE Rec(s) == [k \in 0..Len(q) |-> IF k = 0 THEN 0 ELSE s[k - 1] + q[k].expires]
           sum == CHOOSE s : s = Rec(s)
<1>0. Len(q) \in Nat /\ \A i \in 1..Len(q) : q[i].expires \in Nat
  BY Deltas
<1>1. e = Rec(e)
  BY <1>0 DEF IsSum
<1>2. sum = Rec(sum)
  BY <1>1
<1>3. Elapsed(q, n) = sum[n]
  BY DEF Elapsed
<1> HIDE DEF sum
<1>4. ASSUME NEW i \in 0..Len(q) PROVE sum[i] = IF i = 0 THEN 0 ELSE sum[i - 1] + q[i].expires
  BY <1>2
<1> DEFINE Bad == {m \in 0..Len(q) : sum[m] # e[m]}
<1>5. Bad = {}
  <2> SUFFICES ASSUME Bad # {} PROVE FALSE
    OBVIOUS
  <2>1. Bad \subseteq Nat
    BY <1>0
  <2>2. PICK m \in Bad : \A k \in Bad : ~(k < m)
    <3> HIDE DEF Bad
    <3> QED BY <2>1, LeastNumber
  <2>3. m # 0
    BY <1>0, <1>4 DEF IsSum
  <2>4. m \in 1..Len(q) /\ m - 1 \in 0..Len(q) /\ m - 1 < m
    BY <1>0, <2>3
  <2>5. m - 1 \notin Bad
    <3> HIDE DEF Bad
    <3> QED BY <2>2, <2>4
  <2>6. sum[m - 1] = e[m - 1]
    BY <2>4, <2>5
  <2>7. e[m] = e[m - 1] + q[m].expires /\ sum[m] = sum[m - 1] + q[m].expires
    BY <1>4, <2>3, <2>4 DEF IsSum
  <2> QED BY <2>6, <2>7
<1> QED BY <1>3, <1>5

\* Later nodes do not fire earlier.
LEMMA SumGrows ==
  ASSUME NEW q \in Seq(Delta), NEW e, IsSum(e, q), NEW i \in 0..Len(q), NEW j \in 0..Len(q), i <= j
  PROVE  e[i] <= e[j]
<1>0. Len(q) \in Nat /\ \A k \in 1..Len(q) : q[k].expires \in Nat
  BY Deltas
<1>1. e \in [0..Len(q) -> Nat] /\ \A k \in 1..Len(q) : e[k] = e[k - 1] + q[k].expires
  BY DEF IsSum
<1> DEFINE Bad == {k \in 0..Len(q) : i <= k /\ ~(e[i] <= e[k])}
<1> SUFFICES ASSUME Bad # {} PROVE FALSE
  OBVIOUS
<1>2. Bad \subseteq Nat
  BY <1>0
<1>3. PICK k \in Bad : \A m \in Bad : ~(m < k)
  <2> HIDE DEF Bad
  <2> QED BY <1>2, LeastNumber
<1>4. k \in 0..Len(q) /\ i <= k /\ ~(e[i] <= e[k]) /\ e[i] \in Nat /\ e[k] \in Nat
  BY <1>1
<1>5. k # i
  BY <1>4
<1>6. k \in 1..Len(q) /\ k - 1 \in 0..Len(q) /\ i <= k - 1 /\ k - 1 < k
  BY <1>0, <1>4, <1>5
<1>7. k - 1 \notin Bad
  <2> HIDE DEF Bad
  <2> QED BY <1>3, <1>6
<1>8. e[i] <= e[k - 1] /\ e[k - 1] \in Nat
  BY <1>1, <1>6, <1>7
<1>9. e[k] = e[k - 1] + q[k].expires /\ q[k].expires \in Nat
  BY <1>0, <1>1, <1>6
<1> QED BY <1>4, <1>8, <1>9

-----------------------------------------------------------------------------
(* What is left to the sleepers. *)

\* Each sleeper has at most one timer, and the first has not expired.
Distinct(q) == \A i, j \in 1..Len(q) : q[i].proc = q[j].proc => i = j

HeadRuns(q) == Len(q) > 0 => q[1].expires > 0

TimerInv ==
  /\ timer_list \in Seq(Delta)
  /\ Distinct(timer_list)
  /\ HeadRuns(timer_list)

\* r gives each sleeper the ticks that are left to it.
Left(r, q, e) ==
  /\ r \in [Sleeping -> Nat]
  /\ IsSum(e, q)
  /\ \A i \in 1..Len(q) : r[q[i].proc] = e[i]
  /\ \A p \in Sleeping : (\A i \in 1..Len(q) : q[i].proc # p) => r[p] = 0

Counts(r, q) == \E e : Left(r, q, e)

LEMMA CountsUnique ==
  ASSUME NEW q \in Seq(Delta), NEW r, NEW s, Counts(r, q), Counts(s, q)
  PROVE  r = s
<1>1. PICK e : Left(r, q, e)
  BY DEF Counts
<1>2. PICK f : Left(s, q, f)
  BY DEF Counts
<1>3. e = f
  BY <1>1, <1>2, SumUnique DEF Left
<1>4. r \in [Sleeping -> Nat] /\ s \in [Sleeping -> Nat]
  BY <1>1, <1>2 DEF Left
<1>5. ASSUME NEW p \in Sleeping PROVE r[p] = s[p]
  <2>1. CASE \A i \in 1..Len(q) : q[i].proc # p
    BY <1>1, <1>2, <2>1 DEF Left
  <2>2. CASE \E i \in 1..Len(q) : q[i].proc = p
    BY <1>1, <1>2, <1>3, <2>2 DEF Left
  <2> QED BY <2>1, <2>2
<1> QED BY <1>4, <1>5

\* The mapping computes them.
MapCounts == Counts(Remaining, timer_list)

LEMMA TimerInvMap == TimerInv => MapCounts
<1> SUFFICES ASSUME TimerInv PROVE MapCounts
  OBVIOUS
<1> DEFINE q == timer_list
<1>0. q \in Seq(Delta) /\ Len(q) \in Nat /\ DOMAIN q = 1..Len(q) /\ \A i \in 1..Len(q) : q[i].proc \in Sleeping
  BY Deltas DEF TimerInv
<1>1. PICK e : IsSum(e, q)
  BY <1>0, SumExists
<1>2. \A i \in 0..Len(q) : Elapsed(q, i) = e[i] /\ e[i] \in Nat
  BY <1>0, <1>1, ElapsedIs DEF IsSum
<1>3. \A p \in Sleeping : p \in Linked <=> \E i \in 1..Len(q) : q[i].proc = p
  BY <1>0 DEF Linked
<1>4. ASSUME NEW i \in 1..Len(q) PROVE IndexOf(q[i].proc) = i
  <2>1. IndexOf(q[i].proc) \in 1..Len(q) /\ q[IndexOf(q[i].proc)].proc = q[i].proc
    BY <1>0 DEF IndexOf
  <2> QED BY <2>1 DEF TimerInv, Distinct
<1>5. ASSUME NEW i \in 1..Len(q) PROVE Remaining[q[i].proc] = e[i] /\ e[i] \in Nat
  <2>1. i \in 0..Len(q)
    BY <1>0
  <2> QED BY <1>0, <1>2, <1>3, <1>4, <2>1 DEF Remaining
<1>6. ASSUME NEW p \in Sleeping, \A i \in 1..Len(q) : q[i].proc # p PROVE Remaining[p] = 0
  BY <1>3, <1>6 DEF Remaining
<1>7. ASSUME NEW p \in Sleeping PROVE Remaining[p] \in Nat
  BY <1>5, <1>6
<1>8. Remaining \in [Sleeping -> Nat]
  BY <1>7 DEF Remaining
<1>9. Left(Remaining, q, e)
  BY <1>1, <1>5, <1>6, <1>8 DEF Left
<1> QED BY <1>9 DEF MapCounts, Counts

-----------------------------------------------------------------------------
(* Insertion and removal. *)

\* The two parts of a list around position n.
LEMMA Parts ==
  ASSUME NEW S, NEW s \in Seq(S), NEW m \in 0..Len(s), NEW n \in 1..Len(s)+1
  PROVE  /\ SubSeq(s, 1, m) \in Seq(S) /\ Len(SubSeq(s, 1, m)) = m
         /\ \A k \in 1..m : SubSeq(s, 1, m)[k] = s[k]
         /\ SubSeq(s, n, Len(s)) \in Seq(S) /\ Len(SubSeq(s, n, Len(s))) = Len(s) - n + 1
         /\ \A k \in 1..Len(s)-n+1 : SubSeq(s, n, Len(s))[k] = s[n + k - 1]
<1>1. Len(s) \in Nat /\ m \in Int /\ n \in Int /\ m >= 0 /\ m <= Len(s) /\ n >= 1 /\ n <= Len(s) + 1
  BY LenProperties
<1>2. \A k \in 1..Len(s) : s[k] \in S
  BY ElementOfSeq
<1>3. /\ SubSeq(s, 1, m) \in Seq(S)
      /\ Len(SubSeq(s, 1, m)) = IF 1 <= m THEN m - 1 + 1 ELSE 0
      /\ \A k \in 1..m-1+1 : SubSeq(s, 1, m)[k] = s[1 + k - 1]
  BY <1>1, <1>2, SubSeqProperties
<1>4. /\ SubSeq(s, n, Len(s)) \in Seq(S)
      /\ Len(SubSeq(s, n, Len(s))) = IF n <= Len(s) THEN Len(s) - n + 1 ELSE 0
      /\ \A k \in 1..Len(s)-n+1 : SubSeq(s, n, Len(s))[k] = s[n + k - 1]
  BY <1>1, <1>2, SubSeqProperties
<1> QED BY <1>1, <1>3, <1>4

LEMMA InsertFacts ==
  ASSUME NEW S, NEW s \in Seq(S), NEW n \in 1..Len(s)+1, NEW x \in S
  PROVE  /\ InsertAt(s, n, x) \in Seq(S)
         /\ Len(InsertAt(s, n, x)) = Len(s) + 1
         /\ \A k \in 1..Len(s)+1 :
              InsertAt(s, n, x)[k] = IF k < n THEN s[k] ELSE IF k = n THEN x ELSE s[k - 1]
<1> DEFINE before == SubSeq(s, 1, n - 1)
           after  == SubSeq(s, n, Len(s))
           one == << x >>
           front == before \o one
           t == front \o after
<1>1. Len(s) \in Nat /\ n \in Int /\ n >= 1 /\ n <= Len(s) + 1 /\ n - 1 \in 0..Len(s)
  BY LenProperties
<1>2. /\ before \in Seq(S) /\ Len(before) = n - 1 /\ \A k \in 1..n-1 : before[k] = s[k]
      /\ after \in Seq(S) /\ Len(after) = Len(s) - n + 1 /\ \A k \in 1..Len(s)-n+1 : after[k] = s[n + k - 1]
  BY <1>1, Parts
<1>3. one \in Seq(S) /\ Len(one) = 1 /\ one[1] = x
  OBVIOUS
<1> HIDE DEF before, after, one
<1>4. /\ front \in Seq(S) /\ Len(front) = Len(before) + Len(one)
      /\ \A k \in 1..Len(before)+Len(one) : front[k] = IF k <= Len(before) THEN before[k] ELSE one[k - Len(before)]
  BY <1>2, <1>3, ConcatProperties
<1> HIDE DEF front
<1>5. /\ t \in Seq(S) /\ Len(t) = Len(front) + Len(after)
      /\ \A k \in 1..Len(front)+Len(after) : t[k] = IF k <= Len(front) THEN front[k] ELSE after[k - Len(front)]
  <2>1. front \in Seq(S) /\ after \in Seq(S)
    BY <1>2, <1>4
  <2> QED BY <2>1, ConcatProperties
<1>6. InsertAt(s, n, x) = t
  BY DEF InsertAt, before, after, one, front
<1> HIDE DEF t
<1>7. Len(front) = n
  BY <1>1, <1>2, <1>3, <1>4
<1>8. Len(t) = Len(s) + 1
  BY <1>1, <1>2, <1>5, <1>7
<1>9. ASSUME NEW k \in 1..Len(s)+1 PROVE t[k] = IF k < n THEN s[k] ELSE IF k = n THEN x ELSE s[k - 1]
  <2>0. t[k] = IF k <= n THEN front[k] ELSE after[k - n]
    BY <1>1, <1>2, <1>5, <1>7
  <2>1. CASE k < n
    <3>1. k \in 1..n-1 /\ k <= n /\ k <= n - 1 /\ k \in 1..(n - 1) + 1
      BY <1>1, <2>1
    <3>2. front[k] = before[k]
      BY <1>2, <1>3, <1>4, <3>1
    <3> QED BY <1>2, <2>0, <2>1, <3>1, <3>2
  <2>2. CASE k = n
    <3>1. k \in 1..(n - 1) + 1 /\ ~(k <= n - 1) /\ k - (n - 1) = 1 /\ k <= n /\ ~(k < n)
      BY <1>1, <2>2
    <3>2. front[k] = one[1]
      BY <1>2, <1>3, <1>4, <3>1
    <3> QED BY <1>3, <2>0, <2>2, <3>1, <3>2
  <2>3. CASE k > n
    <3>1. k - n \in 1..Len(s)-n+1 /\ n + (k - n) - 1 = k - 1 /\ ~(k <= n) /\ ~(k < n) /\ k # n
      BY <1>1, <2>3
    <3>2. after[k - n] = s[n + (k - n) - 1]
      BY <1>2, <3>1
    <3> QED BY <2>0, <3>1, <3>2
  <2> QED BY <1>1, <2>1, <2>2, <2>3
<1> QED BY <1>5, <1>6, <1>8, <1>9

LEMMA RemoveFacts ==
  ASSUME NEW S, NEW s \in Seq(S), NEW n \in 1..Len(s)
  PROVE  /\ RemoveAt(s, n) \in Seq(S)
         /\ Len(RemoveAt(s, n)) = Len(s) - 1
         /\ \A k \in 1..Len(s)-1 : RemoveAt(s, n)[k] = IF k < n THEN s[k] ELSE s[k + 1]
<1> DEFINE before == SubSeq(s, 1, n - 1)
           after  == SubSeq(s, n + 1, Len(s))
           t == before \o after
<1>1. Len(s) \in Nat /\ n \in Int /\ n >= 1 /\ n <= Len(s) /\ n - 1 \in 0..Len(s) /\ n + 1 \in 1..Len(s)+1
  BY LenProperties
<1>2. /\ before \in Seq(S) /\ Len(before) = n - 1 /\ \A k \in 1..n-1 : before[k] = s[k]
      /\ after \in Seq(S) /\ Len(after) = Len(s) - (n + 1) + 1
      /\ \A k \in 1..Len(s)-(n+1)+1 : after[k] = s[(n + 1) + k - 1]
  BY <1>1, Parts
<1> HIDE DEF before, after
<1>3. /\ t \in Seq(S) /\ Len(t) = Len(before) + Len(after)
      /\ \A k \in 1..Len(before)+Len(after) : t[k] = IF k <= Len(before) THEN before[k] ELSE after[k - Len(before)]
  BY <1>2, ConcatProperties
<1>4. RemoveAt(s, n) = t
  BY DEF RemoveAt, before, after
<1> HIDE DEF t
<1>5. Len(t) = Len(s) - 1
  BY <1>1, <1>2, <1>3
<1>6. ASSUME NEW k \in 1..Len(s)-1 PROVE t[k] = IF k < n THEN s[k] ELSE s[k + 1]
  <2>0. t[k] = IF k <= n - 1 THEN before[k] ELSE after[k - (n - 1)]
    <3>1. Len(before) = n - 1 /\ Len(before) + Len(after) = Len(s) - 1
      BY <1>1, <1>2
    <3>2. k \in 1..Len(before)+Len(after)
      BY <3>1
    <3>3. t[k] = IF k <= Len(before) THEN before[k] ELSE after[k - Len(before)]
      BY <1>3, <3>2
    <3> QED BY <3>1, <3>3
  <2>1. CASE k < n
    BY <1>1, <1>2, <2>0, <2>1
  <2>2. CASE ~(k < n)
    <3>1. k - (n - 1) \in 1..Len(s)-(n+1)+1 /\ (n + 1) + (k - (n - 1)) - 1 = k + 1 /\ ~(k <= n - 1)
      BY <1>1, <2>2
    <3>2. after[k - (n - 1)] = s[(n + 1) + (k - (n - 1)) - 1]
      BY <1>2, <3>1
    <3> QED BY <2>0, <2>2, <3>1, <3>2
  <2> QED BY <2>1, <2>2
<1> QED BY <1>3, <1>4, <1>5, <1>6

LEMMA ExceptAt ==
  ASSUME NEW S, NEW s \in Seq(S), NEW n \in 1..Len(s), NEW x \in S
  PROVE  /\ [s EXCEPT ![n] = x] \in Seq(S) /\ Len([s EXCEPT ![n] = x]) = Len(s)
         /\ \A i \in 1..Len(s) : [s EXCEPT ![n] = x][i] = IF i = n THEN x ELSE s[i]
OBVIOUS

-----------------------------------------------------------------------------
(* The steps. *)

\* add_timer stops behind the nodes that fire no later.
LEMMA PositionFacts ==
  ASSUME NEW q \in Seq(Delta), NEW e, IsSum(e, q), NEW t \in Nat
  PROVE  /\ Position(q, t) \in 1..Len(q)+1
         /\ e[Position(q, t) - 1] <= t
         /\ Position(q, t) <= Len(q) => t < e[Position(q, t)]
<1> DEFINE S == {i \in DOMAIN q : t < Elapsed(q, i)} \cup {Len(q) + 1}
           at == Min(S)
<1>0. Len(q) \in Nat /\ DOMAIN q = 1..Len(q) /\ e \in [0..Len(q) -> Nat] /\ e[0] = 0
  BY Deltas DEF IsSum
<1>1. \A i \in 1..Len(q) : Elapsed(q, i) = e[i]
  BY <1>0, ElapsedIs
<1>2. S \subseteq 1..Len(q)+1 /\ S # {} /\ S \subseteq Nat
  BY <1>0
<1>3. at \in S /\ \A i \in S : at <= i
  <2>0. S = {i \in DOMAIN q : t < Elapsed(q, i)} \cup {Len(q) + 1}
    OBVIOUS
  <2> HIDE DEF S
  <2>1. PICK n \in S : \A m \in S : ~(m < n)
    BY <1>2, LeastNumber
  <2>2. \A m \in S : n <= m
    BY <1>2, <2>1
  <2> QED BY <2>2 DEF Min
<1>4. Position(q, t) = at
  BY DEF Position
<1> HIDE DEF at
<1>5. at \in 1..Len(q)+1 /\ (at <= Len(q) => t < e[at])
  BY <1>0, <1>1, <1>2, <1>3
<1>6. e[at - 1] <= t
  <2>1. CASE at = 1
    BY <1>0, <2>1
  <2>2. CASE at # 1
    <3>1. at - 1 \in 1..Len(q) /\ ~(at <= at - 1) /\ e[at - 1] \in Nat
      BY <1>0, <1>5, <2>2
    <3>2. at - 1 \notin S
      BY <1>3, <3>1
    <3>3. ~(t < e[at - 1])
      BY <1>0, <1>1, <3>1, <3>2
    <3> QED BY <3>1, <3>3
  <2> QED BY <2>1, <2>2
<1> QED BY <1>4, <1>5, <1>6

LEMMA AddCounts ==
  ASSUME TimerInv, NEW r, Counts(r, timer_list), NEW p \in Sleeping, NEW t \in 1..MAX_TIME, add_timer(p, t)
  PROVE  TimerInv' /\ r[p] = 0 /\ Counts([r EXCEPT ![p] = t], timer_list')
<1> DEFINE q == timer_list
           at == Position(q, t)
           delta == t - Elapsed(q, at - 1)
           later == IF at \in DOMAIN q THEN [q EXCEPT ![at].expires = @ - delta] ELSE q
           new == [proc |-> p, expires |-> delta]
           z == timer_list'
<1>0. /\ q \in Seq(Delta) /\ Len(q) \in Nat /\ DOMAIN q = 1..Len(q) /\ t \in Nat /\ t > 0
      /\ \A i \in 1..Len(q) : q[i] \in Delta /\ q[i].expires \in Nat /\ q[i].proc \in Sleeping
  BY Deltas, TimerListAssumption DEF TimerInv
<1>1. PICK e : Left(r, q, e)
  BY DEF Counts
<1>2. /\ e \in [0..Len(q) -> Nat] /\ e[0] = 0 /\ \A i \in 1..Len(q) : e[i] = e[i - 1] + q[i].expires
      /\ IsSum(e, q) /\ r \in [Sleeping -> Nat] /\ \A i \in 1..Len(q) : r[q[i].proc] = e[i]
  BY <1>1 DEF Left, IsSum
<1>3. z = InsertAt(later, at, new) /\ p \notin Linked
  BY DEF add_timer
<1>4. \A i \in 1..Len(q) : q[i].proc # p
  BY <1>0, <1>3 DEF Linked
<1>5. at \in 1..Len(q)+1 /\ e[at - 1] <= t /\ (at <= Len(q) => t < e[at])
  BY <1>0, <1>2, PositionFacts
<1> HIDE DEF at
<1>6. at - 1 \in 0..Len(q) /\ Elapsed(q, at - 1) = e[at - 1] /\ e[at - 1] \in Nat
  BY <1>0, <1>2, <1>5, ElapsedIs
<1>7. delta = t - e[at - 1] /\ delta \in Nat
  BY <1>0, <1>5, <1>6
<1> HIDE DEF delta
<1>8. new \in Delta /\ new.proc = p /\ new.expires = delta
  BY <1>7 DEF Delta
<1>9. /\ later \in Seq(Delta) /\ Len(later) = Len(q)
      /\ \A i \in 1..Len(q) : later[i].proc = q[i].proc
      /\ \A i \in 1..Len(q) : later[i].expires = IF i = at THEN q[i].expires - delta ELSE q[i].expires
  <2>1. CASE at \in 1..Len(q)
    <3> DEFINE n == [q[at] EXCEPT !.expires = @ - delta]
    <3>1. q[at].expires - delta \in Nat
      <4>1. q[at].expires \in Nat /\ e[at] = e[at - 1] + q[at].expires /\ at <= Len(q)
        BY <1>0, <1>2, <2>1
      <4>2. t < e[at]
        BY <1>5, <4>1
      <4> QED BY <1>0, <1>6, <1>7, <4>1, <4>2
    <3>2. n \in Delta /\ n.proc = q[at].proc /\ n.expires = q[at].expires - delta
      BY <1>0, <2>1, <3>1 DEF Delta
    <3>3. later = [q EXCEPT ![at] = n]
      BY <1>0, <2>1
    <3> HIDE DEF n, later
    <3>4. later \in Seq(Delta) /\ Len(later) = Len(q) /\ \A i \in 1..Len(q) : later[i] = IF i = at THEN n ELSE q[i]
      BY <1>0, <2>1, <3>2, <3>3, ExceptAt
    <3> QED BY <2>1, <3>2, <3>4
  <2>2. CASE at \notin 1..Len(q)
    BY <1>0, <2>2
  <2> QED BY <2>1, <2>2
<1> HIDE DEF later, new
<1>10. /\ z \in Seq(Delta) /\ Len(z) = Len(q) + 1
       /\ \A k \in 1..Len(q)+1 : z[k] = IF k < at THEN later[k] ELSE IF k = at THEN new ELSE later[k - 1]
  <2>1. later \in Seq(Delta) /\ at \in 1..Len(later)+1 /\ new \in Delta /\ Len(later) = Len(q)
    BY <1>5, <1>8, <1>9
  <2>2. /\ InsertAt(later, at, new) \in Seq(Delta) /\ Len(InsertAt(later, at, new)) = Len(later) + 1
        /\ \A k \in 1..Len(later)+1 :
             InsertAt(later, at, new)[k] = IF k < at THEN later[k] ELSE IF k = at THEN new ELSE later[k - 1]
    BY <2>1, InsertFacts
  <2> QED BY <1>3, <2>1, <2>2
<1> HIDE DEF z
<1> DEFINE g == [i \in 0..Len(q)+1 |-> IF i < at THEN e[i] ELSE IF i = at THEN t ELSE e[i - 1]]
           s == [r EXCEPT ![p] = t]
<1>11. g \in [0..Len(z) -> Nat] /\ g[0] = 0
  BY <1>0, <1>2, <1>5, <1>10
<1>12. ASSUME NEW k \in 1..Len(q)+1
       PROVE  /\ g[k] = g[k - 1] + z[k].expires
              /\ z[k].proc = IF k < at THEN q[k].proc ELSE IF k = at THEN p ELSE q[k - 1].proc
  <2>1. CASE k < at
    <3>1. k \in 1..Len(q) /\ k - 1 < at /\ k # at /\ k - 1 \in 0..Len(q)+1
      BY <1>0, <1>5, <2>1
    <3>2. g[k] = e[k] /\ g[k - 1] = e[k - 1]
      BY <2>1, <3>1
    <3> HIDE DEF g
    <3>3. z[k] = later[k]
      BY <1>10, <2>1
    <3>4. later[k].proc = q[k].proc /\ later[k].expires = q[k].expires
      BY <1>9, <3>1
    <3>5. e[k] = e[k - 1] + q[k].expires
      BY <1>2, <3>1
    <3> QED BY <2>1, <3>2, <3>3, <3>4, <3>5
  <2>2. CASE k = at
    <3>1. g[k] = t /\ g[k - 1] = e[at - 1] /\ z[k] = new
      BY <1>0, <1>5, <1>10, <2>2
    <3> QED BY <1>0, <1>6, <1>7, <1>8, <2>2, <3>1
  <2>3. CASE k = at + 1
    <3>1. at \in 1..Len(q) /\ k - 1 = at /\ g[k] = e[at] /\ g[k - 1] = t /\ z[k] = later[at] /\ ~(k < at) /\ k # at
      <4>1. /\ at \in 1..Len(q) /\ k - 1 = at /\ ~(k < at) /\ k # at /\ ~(at < at)
            /\ k \in 0..Len(q)+1 /\ at \in 0..Len(q)+1
        BY <1>0, <1>5, <2>3
      <4>2. g[k] = e[at] /\ g[at] = t
        BY <4>1
      <4> QED BY <1>10, <4>1, <4>2
    <3>2. later[at].expires = q[at].expires - delta /\ later[at].proc = q[at].proc /\ e[at] = e[at - 1] + q[at].expires
      BY <1>2, <1>9, <3>1
    <3>3. q[at].expires \in Nat
      BY <1>0, <3>1
    <3> QED BY <1>0, <1>6, <1>7, <3>1, <3>2, <3>3
  <2>4. CASE k > at + 1
    <3>1. /\ k - 1 \in 1..Len(q) /\ k - 1 # at /\ ~(k < at) /\ k # at /\ (k - 1) - 1 \in 0..Len(q)
          /\ g[k] = e[k - 1] /\ g[k - 1] = e[(k - 1) - 1] /\ z[k] = later[k - 1]
      BY <1>0, <1>5, <1>10, <2>4
    <3> QED BY <1>2, <1>9, <3>1
  <2> QED BY <1>0, <1>5, <2>1, <2>2, <2>3, <2>4
<1> HIDE DEF g
<1>13. IsSum(g, z)
  BY <1>10, <1>11, <1>12 DEF IsSum
<1>14. s \in [Sleeping -> Nat] /\ \A x \in Sleeping : s[x] = IF x = p THEN t ELSE r[x]
  BY <1>0, <1>2
<1> HIDE DEF s
<1>15. ASSUME NEW k \in 1..Len(q)+1 PROVE s[z[k].proc] = g[k]
  <2>1. CASE k = at
    <3>1. z[k].proc = p /\ g[k] = t
      BY <1>0, <1>5, <1>12, <2>1 DEF g
    <3> QED BY <1>14, <3>1
  <2>2. CASE k < at
    <3>1. k \in 1..Len(q) /\ g[k] = e[k]
      BY <1>0, <1>5, <2>2 DEF g
    <3> QED BY <1>0, <1>2, <1>4, <1>12, <1>14, <2>2, <3>1
  <2>3. CASE k > at
    <3>1. k - 1 \in 1..Len(q) /\ g[k] = e[k - 1] /\ ~(k < at) /\ k # at
      BY <1>0, <1>5, <2>3 DEF g
    <3>2. z[k].proc = q[k - 1].proc
      BY <1>12, <3>1
    <3>3. q[k - 1].proc \in Sleeping /\ q[k - 1].proc # p /\ r[q[k - 1].proc] = e[k - 1]
      BY <1>0, <1>2, <1>4, <3>1
    <3> QED BY <1>14, <3>1, <3>2, <3>3
  <2> QED BY <1>0, <1>5, <2>1, <2>2, <2>3
<1>16. ASSUME NEW x \in Sleeping, \A k \in 1..Len(q)+1 : z[k].proc # x PROVE s[x] = 0
  <2>1. x # p
    BY <1>5, <1>12, <1>16
  <2>2. ASSUME NEW i \in 1..Len(q), q[i].proc = x PROVE FALSE
    <3>1. CASE i < at
      <4>1. i \in 1..Len(q)+1
        BY <1>0
      <4> QED BY <1>12, <1>16, <2>2, <3>1, <4>1
    <3>2. CASE ~(i < at)
      <4>1. i + 1 \in 1..Len(q)+1 /\ ~(i + 1 < at) /\ i + 1 # at /\ (i + 1) - 1 = i
        BY <1>0, <1>5, <3>2
      <4> QED BY <1>12, <1>16, <2>2, <4>1
    <3> QED BY <3>1, <3>2
  <2> QED BY <1>1, <1>14, <2>1, <2>2 DEF Left
<1>17. Left(s, z, g)
  BY <1>10, <1>13, <1>14, <1>15, <1>16 DEF Left
<1>18. r[p] = 0
  BY <1>1, <1>4 DEF Left
<1>19. Distinct(z)
  <2> SUFFICES ASSUME NEW i \in 1..Len(q)+1, NEW j \in 1..Len(q)+1, z[i].proc = z[j].proc, i < j PROVE FALSE
    BY <1>0, <1>10 DEF Distinct
  <2>1. (i < at => i \in 1..Len(q)) /\ (j < at => j \in 1..Len(q)) /\ (i > at => i - 1 \in 1..Len(q)) /\ (j > at => j - 1 \in 1..Len(q))
    BY <1>0, <1>5
  <2>2. Distinct(q)
    BY DEF TimerInv
  <2>3. i # at /\ j # at
    BY <1>0, <1>4, <1>5, <1>12, <2>1
  <2>4. CASE j < at
    BY <1>0, <1>5, <1>12, <2>1, <2>2, <2>4 DEF Distinct
  <2>5. CASE i > at
    BY <1>0, <1>5, <1>12, <2>1, <2>2, <2>5 DEF Distinct
  <2>6. CASE i < at /\ j > at
    <3>1. z[i].proc = q[i].proc /\ z[j].proc = q[j - 1].proc /\ i # j - 1
      BY <1>0, <1>5, <1>12, <2>6
    <3> QED BY <2>1, <2>2, <2>6, <3>1 DEF Distinct
  <2> QED BY <1>0, <1>5, <2>3, <2>4, <2>5, <2>6
<1>20. HeadRuns(z)
  <2>1. CASE at = 1
    BY <1>0, <1>2, <1>7, <1>8, <1>10, <2>1 DEF HeadRuns
  <2>2. CASE at # 1
    <3>1. 1 \in 1..Len(q) /\ 1 < at /\ 1 # at /\ Len(q) > 0 /\ 1 \in 1..Len(q)+1
      BY <1>0, <1>5, <2>2
    <3>2. z[1].expires = q[1].expires
      BY <1>9, <1>10, <3>1
    <3> QED BY <3>1, <3>2 DEF HeadRuns, TimerInv
  <2> QED BY <2>1, <2>2
<1>21. TimerInv'
  BY <1>10, <1>19, <1>20 DEF TimerInv, z, Distinct, HeadRuns
<1> QED BY <1>17, <1>18, <1>21 DEF Counts, z, s

LEMMA DelCounts ==
  ASSUME TimerInv, NEW r, Counts(r, timer_list), NEW p \in Sleeping, del_timer(p)
  PROVE  TimerInv' /\ Counts([r EXCEPT ![p] = 0], timer_list')
<1> DEFINE q == timer_list
           z == timer_list'
           s == [r EXCEPT ![p] = 0]
<1>0. /\ q \in Seq(Delta) /\ Len(q) \in Nat /\ DOMAIN q = 1..Len(q)
      /\ \A i \in 1..Len(q) : q[i] \in Delta /\ q[i].expires \in Nat /\ q[i].proc \in Sleeping
  BY Deltas DEF TimerInv
<1>1. PICK e : Left(r, q, e)
  BY DEF Counts
<1>2. /\ e \in [0..Len(q) -> Nat] /\ e[0] = 0 /\ \A i \in 1..Len(q) : e[i] = e[i - 1] + q[i].expires
      /\ r \in [Sleeping -> Nat] /\ \A i \in 1..Len(q) : r[q[i].proc] = e[i]
  BY <1>1 DEF Left, IsSum
<1>3. s \in [Sleeping -> Nat] /\ \A x \in Sleeping : s[x] = IF x = p THEN 0 ELSE r[x]
  BY <1>2
<1>4. CASE p \notin Linked
  <2>1. timer_list' = timer_list
    BY <1>4 DEF del_timer
  <2>2. \A i \in 1..Len(q) : q[i].proc # p
    BY <1>0, <1>4 DEF Linked
  <2>3. r[p] = 0
    BY <1>1, <2>2 DEF Left
  <2>4. s = r
    BY <1>2, <2>3
  <2> QED BY <2>1, <2>4 DEF TimerInv
<1>5. CASE p \in Linked
  <2> DEFINE i == IndexOf(p)
             y == IF i < Len(q) THEN [q EXCEPT ![i+1].expires = @ + q[i].expires] ELSE q
  <2>1. i \in 1..Len(q) /\ q[i].proc = p
    BY <1>0, <1>5 DEF Linked, IndexOf
  <2>2. z = RemoveAt(y, i)
    BY <1>5 DEF del_timer
  <2> HIDE DEF i
  <2>3. /\ y \in Seq(Delta) /\ Len(y) = Len(q)
        /\ \A k \in 1..Len(q) : y[k].proc = q[k].proc
        /\ \A k \in 1..Len(q) : y[k].expires = IF k = i + 1 THEN q[k].expires + q[i].expires ELSE q[k].expires
    <3>1. CASE i < Len(q)
      <4> DEFINE n == [q[i + 1] EXCEPT !.expires = @ + q[i].expires]
      <4>1. i + 1 \in 1..Len(q)
        BY <1>0, <2>1, <3>1
      <4>2. n \in Delta /\ n.proc = q[i + 1].proc /\ n.expires = q[i + 1].expires + q[i].expires
        BY <1>0, <2>1, <4>1 DEF Delta
      <4>3. y = [q EXCEPT ![i + 1] = n]
        BY <1>0, <3>1, <4>1
      <4> HIDE DEF n, y
      <4>4. y \in Seq(Delta) /\ Len(y) = Len(q) /\ \A k \in 1..Len(q) : y[k] = IF k = i + 1 THEN n ELSE q[k]
        BY <1>0, <4>1, <4>2, <4>3, ExceptAt
      <4> QED BY <4>1, <4>2, <4>4
    <3>2. CASE ~(i < Len(q))
      BY <1>0, <2>1, <3>2
    <3> QED BY <3>1, <3>2
  <2> HIDE DEF y
  <2>4. /\ z \in Seq(Delta) /\ Len(z) = Len(q) - 1
        /\ \A k \in 1..Len(q)-1 : z[k] = IF k < i THEN y[k] ELSE y[k + 1]
    <3>1. /\ RemoveAt(y, i) \in Seq(Delta) /\ Len(RemoveAt(y, i)) = Len(y) - 1
          /\ \A k \in 1..Len(y)-1 : RemoveAt(y, i)[k] = IF k < i THEN y[k] ELSE y[k + 1]
      BY <2>1, <2>3, RemoveFacts
    <3> QED BY <2>2, <2>3, <3>1
  <2> HIDE DEF z, s
  <2> DEFINE g == [k \in 0..Len(q)-1 |-> IF k < i THEN e[k] ELSE e[k + 1]]
  <2>5. g \in [0..Len(z) -> Nat] /\ g[0] = 0
    BY <1>0, <1>2, <2>1, <2>4
  <2>6. ASSUME NEW k \in 1..Len(q)-1
        PROVE  g[k] = g[k - 1] + z[k].expires /\ z[k].proc = IF k < i THEN q[k].proc ELSE q[k + 1].proc
    <3>1. CASE k < i
      <4>1. k \in 1..Len(q) /\ k - 1 < i /\ k # i + 1 /\ g[k] = e[k] /\ g[k - 1] = e[k - 1] /\ z[k] = y[k]
        <5>1. k \in 1..Len(q) /\ k - 1 < i /\ k # i + 1 /\ k \in 0..Len(q)-1 /\ k - 1 \in 0..Len(q)-1
          BY <1>0, <2>1, <3>1
        <5>2. g[k] = e[k] /\ g[k - 1] = e[k - 1]
          BY <3>1, <5>1
        <5>3. z[k] = y[k]
          BY <2>4, <3>1
        <5> QED BY <5>1, <5>2, <5>3
      <4> QED BY <1>2, <2>3, <3>1, <4>1
    <3>2. CASE k = i
      <4>1. k + 1 \in 1..Len(q) /\ (k + 1) - 1 = k /\ g[k] = e[k + 1] /\ g[k - 1] = e[k - 1] /\ z[k] = y[k + 1] /\ ~(k < i)
        BY <1>0, <2>1, <2>4, <3>2
      <4>2. e[k + 1] = e[k] + q[k + 1].expires /\ e[k] = e[k - 1] + q[k].expires
        BY <1>2, <2>1, <3>2, <4>1
      <4>3. y[k + 1].expires = q[k + 1].expires + q[k].expires /\ y[k + 1].proc = q[k + 1].proc
        BY <2>3, <3>2, <4>1
      <4>4. e[k - 1] \in Nat /\ q[k].expires \in Nat /\ q[k + 1].expires \in Nat
        <5>1. k \in 1..Len(q) /\ k - 1 \in 0..Len(q)
          BY <1>0, <2>1, <3>2
        <5> QED BY <1>0, <1>2, <4>1, <5>1
      <4> QED BY <4>1, <4>2, <4>3, <4>4
    <3>3. CASE k > i
      <4>1. /\ k + 1 \in 1..Len(q) /\ (k + 1) - 1 = k /\ k + 1 # i + 1 /\ g[k] = e[k + 1] /\ g[k - 1] = e[k]
            /\ z[k] = y[k + 1] /\ ~(k < i)
        <5>1. /\ k \in 0..Len(q)-1 /\ k - 1 \in 0..Len(q)-1 /\ ~(k < i) /\ ~(k - 1 < i) /\ (k - 1) + 1 = k
              /\ k + 1 \in 1..Len(q) /\ (k + 1) - 1 = k /\ k + 1 # i + 1
          BY <1>0, <2>1, <3>3
        <5>2. g[k - 1] = e[(k - 1) + 1] /\ g[k] = e[k + 1]
          BY <5>1
        <5> QED BY <2>4, <5>1, <5>2
      <4> QED BY <1>2, <2>3, <4>1
    <3> QED BY <1>0, <2>1, <3>1, <3>2, <3>3
  <2>7. IsSum(g, z)
    BY <2>4, <2>5, <2>6 DEF IsSum
  <2>8. Distinct(q)
    BY DEF TimerInv
  <2>9. ASSUME NEW k \in 1..Len(q), k # i PROVE q[k].proc # p
    BY <2>1, <2>8, <2>9 DEF Distinct
  <2>10. ASSUME NEW k \in 1..Len(q)-1 PROVE s[z[k].proc] = g[k]
    <3>1. CASE k < i
      <4>1. k \in 1..Len(q) /\ k # i /\ g[k] = e[k]
        BY <1>0, <2>1, <3>1
      <4>2. z[k].proc = q[k].proc /\ q[k].proc \in Sleeping /\ q[k].proc # p /\ r[q[k].proc] = e[k]
        BY <1>0, <1>2, <2>6, <2>9, <3>1, <4>1
      <4> QED BY <1>3, <4>1, <4>2
    <3>2. CASE ~(k < i)
      <4>1. k + 1 \in 1..Len(q) /\ k + 1 # i /\ g[k] = e[k + 1]
        BY <1>0, <2>1, <3>2
      <4>2. z[k].proc = q[k + 1].proc /\ q[k + 1].proc \in Sleeping /\ q[k + 1].proc # p /\ r[q[k + 1].proc] = e[k + 1]
        BY <1>0, <1>2, <2>6, <2>9, <3>2, <4>1
      <4> QED BY <1>3, <4>1, <4>2
    <3> QED BY <3>1, <3>2
  <2>11. ASSUME NEW x \in Sleeping, \A k \in 1..Len(q)-1 : z[k].proc # x PROVE s[x] = 0
    <3>1. CASE x = p
      BY <1>3, <3>1
    <3>2. CASE x # p
      <4>1. ASSUME NEW k \in 1..Len(q), q[k].proc = x PROVE FALSE
        <5>1. k # i
          BY <2>1, <3>2, <4>1
        <5>2. CASE k < i
          <6>1. k \in 1..Len(q)-1
            BY <1>0, <2>1, <5>2
          <6> QED BY <2>6, <2>11, <4>1, <5>2, <6>1
        <5>3. CASE k > i
          <6>1. k - 1 \in 1..Len(q)-1 /\ ~(k - 1 < i) /\ (k - 1) + 1 = k
            BY <1>0, <2>1, <5>3
          <6>2. z[k - 1].proc = q[(k - 1) + 1].proc
            BY <2>6, <6>1
          <6> QED BY <2>11, <4>1, <6>1, <6>2
        <5> QED BY <1>0, <2>1, <5>1, <5>2, <5>3
      <4> QED BY <1>1, <1>3, <3>2, <4>1 DEF Left
    <3> QED BY <3>1, <3>2
  <2>12. Left(s, z, g)
    <3> HIDE DEF g
    <3> QED BY <1>3, <2>4, <2>7, <2>10, <2>11 DEF Left
  <2>13. Distinct(z)
    <3> SUFFICES ASSUME NEW j \in 1..Len(q)-1, NEW k \in 1..Len(q)-1, z[j].proc = z[k].proc, j < k PROVE FALSE
      BY <1>0, <2>4 DEF Distinct
    <3>1. j \in 1..Len(q) /\ j + 1 \in 1..Len(q) /\ k \in 1..Len(q) /\ k + 1 \in 1..Len(q)
      BY <1>0
    <3>2. z[j].proc = (IF j < i THEN q[j].proc ELSE q[j + 1].proc) /\ z[k].proc = (IF k < i THEN q[k].proc ELSE q[k + 1].proc)
      BY <2>6
    <3>3. j # k /\ j # k + 1 /\ j + 1 # k + 1 /\ (j + 1 = k => ~(~(j < i) /\ k < i))
      BY <1>0, <2>1
    <3>4. CASE j < i /\ k < i
      BY <2>8, <3>1, <3>2, <3>3, <3>4 DEF Distinct
    <3>5. CASE j < i /\ ~(k < i)
      BY <2>8, <3>1, <3>2, <3>3, <3>5 DEF Distinct
    <3>6. CASE ~(j < i)
      <4>1. ~(k < i)
        BY <1>0, <2>1, <3>6
      <4> QED BY <2>8, <3>1, <3>2, <3>3, <3>6, <4>1 DEF Distinct
    <3> QED BY <3>4, <3>5, <3>6
  <2>14. HeadRuns(z)
    <3> SUFFICES ASSUME Len(z) > 0 PROVE z[1].expires > 0
      BY DEF HeadRuns
    <3>1. 1 \in 1..Len(q) /\ 2 \in 1..Len(q) /\ 1 \in 1..Len(q)-1 /\ Len(q) > 0
      BY <1>0, <2>4
    <3>2. q[1].expires > 0
      BY <3>1 DEF TimerInv, HeadRuns
    <3>3. CASE i = 1
      <4>1. z[1] = y[2] /\ y[2].expires = q[2].expires + q[1].expires
        BY <2>3, <2>4, <3>1, <3>3
      <4>2. q[2].expires \in Nat /\ q[1].expires \in Nat
        BY <1>0, <3>1
      <4> QED BY <3>2, <4>1, <4>2
    <3>4. CASE i # 1
      <4>1. 1 < i /\ 1 # i + 1
        BY <1>0, <2>1, <3>4
      <4>2. z[1] = y[1] /\ y[1].expires = q[1].expires
        BY <2>3, <2>4, <3>1, <4>1
      <4> QED BY <3>2, <4>2
    <3> QED BY <3>3, <3>4
  <2>15. TimerInv'
    BY <2>4, <2>13, <2>14 DEF TimerInv, z, Distinct, HeadRuns
  <2> QED BY <2>12, <2>15 DEF Counts, z, s
<1> QED BY <1>4, <1>5

LEMMA TickCounts ==
  ASSUME TimerInv, NEW r, Counts(r, timer_list), run_timer_list
  PROVE  /\ TimerInv'
         /\ Counts([p \in Sleeping |-> IF r[p] > 0 THEN r[p] - 1 ELSE 0], timer_list')
         /\ fired' = {p \in Sleeping : r[p] = 1}
<1> DEFINE q == timer_list
           z == timer_list'
           s == [p \in Sleeping |-> IF r[p] > 0 THEN r[p] - 1 ELSE 0]
<1>0. /\ q \in Seq(Delta) /\ Len(q) \in Nat /\ DOMAIN q = 1..Len(q)
      /\ \A i \in 1..Len(q) : q[i] \in Delta /\ q[i].expires \in Nat /\ q[i].proc \in Sleeping
  BY Deltas DEF TimerInv
<1>1. PICK e : Left(r, q, e)
  BY DEF Counts
<1>2. /\ e \in [0..Len(q) -> Nat] /\ e[0] = 0 /\ \A i \in 1..Len(q) : e[i] = e[i - 1] + q[i].expires
      /\ r \in [Sleeping -> Nat] /\ \A i \in 1..Len(q) : r[q[i].proc] = e[i] /\ IsSum(e, q)
      /\ \A p \in Sleeping : (\A i \in 1..Len(q) : q[i].proc # p) => r[p] = 0
  BY <1>1 DEF Left, IsSum
<1>3. s \in [Sleeping -> Nat] /\ \A p \in Sleeping : s[p] = IF r[p] > 0 THEN r[p] - 1 ELSE 0
  BY <1>2
<1>4. CASE q = <<>>
  <2>1. timer_list' = timer_list /\ fired' = {} /\ Len(q) = 0
    BY <1>4 DEF run_timer_list
  <2>2. \A p \in Sleeping : r[p] = 0
    BY <1>2, <2>1
  <2>3. s = r
    BY <1>2, <2>2
  <2>4. fired' = {p \in Sleeping : r[p] = 1}
    BY <2>1, <2>2
  <2> QED BY <2>1, <2>3, <2>4 DEF TimerInv
<1>5. CASE q # <<>>
  <2> DEFINE w == [q EXCEPT ![1].expires = @ - 1]
             Zeros == {n \in 0..Len(w) : \A i \in 1..n : w[i].expires = 0}
             x == Max(Zeros)
  <2>1. Len(q) > 0 /\ 1 \in 1..Len(q) /\ q[1].expires \in Nat /\ q[1].expires > 0
    <3>1. Len(q) # 0
      BY <1>0, <1>5, EmptySeq
    <3>2. Len(q) > 0 /\ 1 \in 1..Len(q)
      BY <1>0, <3>1
    <3> QED BY <1>0, <3>2 DEF TimerInv, HeadRuns
  <2>2. fired' = {w[i].proc : i \in 1..x} /\ z = SubSeq(w, x + 1, Len(w))
    BY <1>5 DEF run_timer_list
  <2>3. /\ w \in Seq(Delta) /\ Len(w) = Len(q)
        /\ \A k \in 1..Len(q) : w[k].proc = q[k].proc
        /\ \A k \in 1..Len(q) : w[k].expires = IF k = 1 THEN q[k].expires - 1 ELSE q[k].expires
    <3> DEFINE n == [q[1] EXCEPT !.expires = @ - 1]
    <3>1. q[1].expires - 1 \in Nat
      BY <2>1
    <3>2. n \in Delta /\ n.proc = q[1].proc /\ n.expires = q[1].expires - 1
      BY <1>0, <2>1, <3>1 DEF Delta
    <3>3. w = [q EXCEPT ![1] = n]
      BY <1>0, <2>1
    <3> HIDE DEF n, w
    <3>4. w \in Seq(Delta) /\ Len(w) = Len(q) /\ \A k \in 1..Len(q) : w[k] = IF k = 1 THEN n ELSE q[k]
      BY <1>0, <2>1, <3>2, <3>3, ExceptAt
    <3> QED BY <2>1, <3>2, <3>4
  <2> HIDE DEF w
  <2>4. x \in Zeros /\ \A n \in Zeros : n <= x
    <3>1. Zeros \subseteq 0..Len(q) /\ 0 \in Zeros
      BY <1>0, <2>3
    <3> HIDE DEF Zeros
    <3> DEFINE Gaps == {Len(q) - n : n \in Zeros}
    <3>2. Gaps \subseteq Nat /\ Gaps # {}
      BY <1>0, <3>1
    <3>3. PICK d \in Gaps : \A m \in Gaps : ~(m < d)
      <4> HIDE DEF Gaps
      <4> QED BY <3>2, LeastNumber
    <3>4. PICK n \in Zeros : d = Len(q) - n
      OBVIOUS
    <3>5. ASSUME NEW m \in Zeros PROVE n >= m
      <4>1. Len(q) - m \in Gaps
        OBVIOUS
      <4>2. ~(Len(q) - m < d) /\ m \in Int /\ n \in Int
        <5> HIDE DEF Gaps
        <5> QED BY <1>0, <3>1, <3>3, <4>1
      <4> QED BY <1>0, <3>4, <4>2
    <3>6. x \in Zeros /\ \A m \in Zeros : x >= m
      BY <3>5 DEF Max
    <3> HIDE DEF x
    <3>7. x \in Int /\ \A m \in Zeros : m \in Int
      BY <1>0, <3>1, <3>6
    <3> QED BY <3>6, <3>7
  <2> HIDE DEF x
  <2>5. /\ x \in 0..Len(q) /\ x \in Nat /\ \A i \in 1..x : w[i].expires = 0
        /\ x < Len(q) => w[x + 1].expires # 0
    <3>1. x \in 0..Len(q) /\ x \in Nat /\ \A i \in 1..x : w[i].expires = 0
      BY <1>0, <2>3, <2>4
    <3>2. ASSUME x < Len(q), w[x + 1].expires = 0 PROVE FALSE
      <4>1. x + 1 \in 0..Len(w) /\ ~(x + 1 <= x)
        BY <1>0, <2>3, <3>1, <3>2
      <4>2. \A i \in 1..x+1 : w[i].expires = 0
        BY <3>1, <3>2
      <4> QED BY <2>4, <4>1, <4>2
    <3> QED BY <3>1, <3>2
  <2> HIDE DEF Zeros
  \* The first x sums are 1, the others are greater.
  <2>6. \A i \in 1..Len(q) : e[i] \in Nat /\ e[i] >= 1
    <3> SUFFICES ASSUME NEW i \in 1..Len(q) PROVE e[i] \in Nat /\ e[i] >= 1
      OBVIOUS
    <3>1. i \in 0..Len(q) /\ 1 \in 0..Len(q) /\ 1 <= i
      BY <1>0, <2>1
    <3>2. e[1] <= e[i]
      BY <1>0, <1>2, <2>1, <3>1, SumGrows
    <3>3. e[1] = q[1].expires /\ e[i] \in Nat
      BY <1>2, <2>1, <3>1
    <3> QED BY <2>1, <3>2, <3>3
  <2>7. ASSUME NEW i \in 1..x PROVE e[i] = 1
    <3> DEFINE Bad == {k \in 1..x : e[k] # 1}
    <3> SUFFICES ASSUME Bad # {} PROVE FALSE
      OBVIOUS
    <3>1. Bad \subseteq Nat
      BY <2>5
    <3>2. PICK k \in Bad : \A m \in Bad : ~(m < k)
      <4> HIDE DEF Bad
      <4> QED BY <3>1, LeastNumber
    <3>3. k \in 1..x /\ k \in 1..Len(q) /\ e[k] # 1 /\ w[k].expires = 0
      BY <1>0, <2>5
    <3>4. k # 1
      <4> SUFFICES ASSUME k = 1 PROVE FALSE
        OBVIOUS
      <4>1. q[1].expires - 1 = 0
        BY <2>3, <3>3
      <4> QED BY <1>2, <2>1, <3>3, <4>1
    <3>5. k - 1 \in 1..x /\ k - 1 < k
      BY <2>5, <3>3, <3>4
    <3>6. k - 1 \notin Bad
      <4> HIDE DEF Bad
      <4> QED BY <3>2, <3>5
    <3>7. e[k - 1] = 1
      BY <3>5, <3>6
    <3>8. q[k].expires = 0
      BY <2>3, <3>3, <3>4
    <3> QED BY <1>2, <3>3, <3>7, <3>8
  <2>8. ASSUME NEW i \in 1..Len(q), i > x PROVE e[i] > 1
    <3>1. x + 1 \in 1..Len(q) /\ x + 1 \in 0..Len(q) /\ i \in 0..Len(q) /\ x + 1 <= i /\ x < Len(q)
      BY <1>0, <2>5, <2>8
    <3>2. e[x + 1] <= e[i] /\ e[i] \in Nat /\ e[x + 1] \in Nat
      BY <1>0, <1>2, <2>6, <3>1, SumGrows
    <3>3. e[x + 1] = e[(x + 1) - 1] + q[x + 1].expires /\ (x + 1) - 1 = x /\ w[x + 1].expires # 0
      BY <1>2, <2>5, <3>1
    <3>4. CASE x = 0
      <4>1. e[1] = q[1].expires /\ w[1].expires = q[1].expires - 1 /\ w[1].expires # 0
        BY <1>2, <2>1, <2>3, <3>3, <3>4
      <4> QED BY <2>1, <3>2, <3>4, <4>1
    <3>5. CASE x # 0
      <4>1. x \in 1..x /\ x + 1 # 1
        BY <2>5, <3>5
      <4>2. e[x] = 1 /\ w[x + 1].expires = q[x + 1].expires /\ q[x + 1].expires \in Nat
        BY <1>0, <2>3, <2>7, <3>1, <4>1
      <4>3. q[x + 1].expires > 0 /\ e[x + 1] = 1 + q[x + 1].expires
        BY <3>3, <4>2
      <4> QED BY <3>2, <4>2, <4>3
    <3> QED BY <3>4, <3>5
  <2>9. /\ z \in Seq(Delta) /\ Len(z) = Len(q) - x
        /\ \A k \in 1..Len(q)-x : z[k] = w[x + k]
    <3>1. x + 1 \in 1..Len(w)+1 /\ 0 \in 0..Len(w)
      BY <1>0, <2>3, <2>5
    <3>2. /\ SubSeq(w, x + 1, Len(w)) \in Seq(Delta) /\ Len(SubSeq(w, x + 1, Len(w))) = Len(w) - (x + 1) + 1
          /\ \A k \in 1..Len(w)-(x+1)+1 : SubSeq(w, x + 1, Len(w))[k] = w[(x + 1) + k - 1]
      BY <2>3, <3>1, Parts
    <3>3. Len(w) - (x + 1) + 1 = Len(q) - x
      BY <1>0, <2>3, <2>5
    <3>4. ASSUME NEW k \in 1..Len(q)-x PROVE (x + 1) + k - 1 = x + k
      BY <2>5
    <3> QED BY <2>2, <3>2, <3>3, <3>4
  <2> HIDE DEF z, s
  <2>10. ASSUME NEW k \in 1..Len(q)-x
         PROVE  x + k \in 1..Len(q) /\ x + k > x /\ z[k].proc = q[x + k].proc /\ z[k].expires = w[x + k].expires
    <3>1. x + k \in 1..Len(q) /\ x + k > x
      BY <1>0, <2>5
    <3> QED BY <2>3, <2>9, <3>1
  <2> DEFINE g == [k \in 0..Len(q)-x |-> IF k = 0 THEN 0 ELSE e[x + k] - 1]
  <2>11. g \in [0..Len(z) -> Nat] /\ g[0] = 0
    <3>1. ASSUME NEW k \in 0..Len(q)-x PROVE (IF k = 0 THEN 0 ELSE e[x + k] - 1) \in Nat
      <4>1. CASE k = 0
        BY <4>1
      <4>2. CASE k # 0
        <5>1. k \in 1..Len(q)-x
          BY <1>0, <2>5, <4>2
        <5>2. x + k \in 1..Len(q)
          BY <2>10, <5>1
        <5>3. e[x + k] \in Nat /\ e[x + k] >= 1
          BY <2>6, <5>2
        <5> QED BY <4>2, <5>3
      <4> QED BY <4>1, <4>2
    <3>2. 0 \in 0..Len(q)-x
      BY <1>0, <2>5
    <3> QED BY <2>9, <3>1, <3>2
  <2>12. ASSUME NEW k \in 1..Len(q)-x PROVE g[k] = e[x + k] - 1 /\ g[k] = g[k - 1] + z[k].expires
    <3>1. /\ k \in 0..Len(q)-x /\ k # 0 /\ k - 1 \in 0..Len(q)-x /\ x + (k - 1) = (x + k) - 1 /\ x + k \in 1..Len(q)
          /\ (x + k) - 1 \in 0..Len(q) /\ (x + k = 1 <=> (k = 1 /\ x = 0)) /\ (k - 1 = 0 <=> k = 1)
      <4>1. k \in Int /\ k >= 1 /\ k <= Len(q) - x /\ x >= 0 /\ x <= Len(q)
        BY <1>0, <2>5
      <4> QED BY <1>0, <2>5, <4>1
    <3>2. g[k] = e[x + k] - 1
      BY <3>1
    <3>3. g[k - 1] = IF k = 1 THEN 0 ELSE e[(x + k) - 1] - 1
      BY <3>1
    <3>4. e[x + k] = e[(x + k) - 1] + q[x + k].expires /\ e[(x + k) - 1] \in Nat /\ q[x + k].expires \in Nat
      BY <1>0, <1>2, <3>1
    <3>5. z[k].expires = IF x + k = 1 THEN q[x + k].expires - 1 ELSE q[x + k].expires
      BY <2>3, <2>10, <3>1
    <3> HIDE DEF g
    <3>6. CASE k # 1
      BY <3>1, <3>2, <3>3, <3>4, <3>5, <3>6
    <3>7. CASE k = 1 /\ x = 0
      <4>1. e[(x + k) - 1] = 0
        BY <1>2, <3>7
      <4> QED BY <3>1, <3>2, <3>3, <3>4, <3>5, <3>7, <4>1
    <3>8. CASE k = 1 /\ x # 0
      <4>1. (x + k) - 1 = x /\ x \in 1..x
        BY <2>5, <3>8
      <4>2. e[(x + k) - 1] = 1
        BY <2>7, <4>1
      <4> QED BY <3>1, <3>2, <3>3, <3>4, <3>5, <3>8, <4>2
    <3> QED BY <3>6, <3>7, <3>8
  <2> HIDE DEF g
  <2>13. IsSum(g, z)
    BY <2>9, <2>11, <2>12 DEF IsSum
  <2>14. ASSUME NEW k \in 1..Len(q)-x PROVE s[z[k].proc] = g[k]
    <3>1. x + k \in 1..Len(q) /\ z[k].proc = q[x + k].proc /\ g[k] = e[x + k] - 1
      BY <2>10, <2>12
    <3>2. q[x + k].proc \in Sleeping /\ r[q[x + k].proc] = e[x + k] /\ e[x + k] \in Nat /\ e[x + k] >= 1
      BY <1>0, <1>2, <2>6, <3>1
    <3> QED BY <1>3, <3>1, <3>2
  <2>15. ASSUME NEW p \in Sleeping, \A k \in 1..Len(q)-x : z[k].proc # p PROVE s[p] = 0
    <3>1. CASE \A i \in 1..Len(q) : q[i].proc # p
      <4>1. r[p] = 0
        BY <1>2, <3>1
      <4> QED BY <1>3, <4>1
    <3>2. ASSUME NEW i \in 1..Len(q), q[i].proc = p PROVE s[p] = 0
      <4>1. i <= x
        <5> SUFFICES ASSUME i > x PROVE FALSE
          BY <1>0, <2>5
        <5>1. i - x \in 1..Len(q)-x /\ x + (i - x) = i
          BY <1>0, <2>5
        <5>2. z[i - x].proc = q[x + (i - x)].proc
          BY <2>10, <5>1
        <5> QED BY <2>15, <3>2, <5>1, <5>2
      <4>2. i \in 1..x
        BY <1>0, <2>5, <4>1
      <4>3. r[p] = 1
        BY <1>2, <2>7, <3>2, <4>2
      <4> QED BY <1>3, <4>3
    <3> QED BY <3>1, <3>2
  <2>16. Left(s, z, g)
    BY <1>3, <2>9, <2>13, <2>14, <2>15 DEF Left
  <2>17. Distinct(z)
    <3> SUFFICES ASSUME NEW j \in 1..Len(q)-x, NEW k \in 1..Len(q)-x, z[j].proc = z[k].proc PROVE j = k
      BY <2>9 DEF Distinct
    <3>1. x + j \in 1..Len(q) /\ x + k \in 1..Len(q) /\ q[x + j].proc = q[x + k].proc
      BY <2>10
    <3>2. x + j = x + k
      BY <3>1 DEF TimerInv, Distinct
    <3> QED BY <2>5, <3>2
  <2>18. HeadRuns(z)
    <3> SUFFICES ASSUME Len(z) > 0 PROVE z[1].expires > 0
      BY DEF HeadRuns
    <3>1. 1 \in 1..Len(q)-x /\ x < Len(q)
      BY <1>0, <2>5, <2>9
    <3>2. z[1] \in Delta /\ z[1].expires = w[x + 1].expires
      BY <2>9, <2>10, <3>1, ElementOfSeq
    <3>3. z[1].expires \in Nat /\ z[1].expires # 0
      BY <2>5, <3>1, <3>2 DEF Delta
    <3> QED BY <3>3
  <2>19. TimerInv'
    BY <2>9, <2>17, <2>18 DEF TimerInv, z, Distinct, HeadRuns
  <2>20. fired' = {p \in Sleeping : r[p] = 1}
    <3>1. ASSUME NEW i \in 1..x PROVE w[i].proc \in Sleeping /\ r[w[i].proc] = 1
      <4>1. i \in 1..Len(q)
        BY <1>0, <2>5
      <4> QED BY <1>0, <1>2, <2>3, <2>7, <4>1
    <3>2. ASSUME NEW p \in Sleeping, r[p] = 1 PROVE \E i \in 1..x : w[i].proc = p
      <4>1. PICK i \in 1..Len(q) : q[i].proc = p
        BY <1>2, <3>2
      <4>2. e[i] = 1
        BY <1>2, <3>2, <4>1
      <4>3. ~(i > x)
        BY <2>8, <4>2
      <4>4. i \in 1..x
        BY <1>0, <2>5, <4>3
      <4> QED BY <2>3, <4>1, <4>4
    <3> QED BY <2>2, <3>1, <3>2
  <2> QED BY <2>16, <2>19, <2>20 DEF Counts, z, s
<1> QED BY <1>4, <1>5

-----------------------------------------------------------------------------
(* The delta list implements deadlines. *)

LEMMA TimersInit == TimerInit => TimerInv /\ (MapCounts => Due!Init)
<1> SUFFICES ASSUME TimerInit PROVE TimerInv /\ (MapCounts => Due!Init)
  OBVIOUS
<1>1. timer_list = <<>> /\ fired = {} /\ timer_list \in Seq(Delta) /\ Len(timer_list) = 0
  BY EmptySeq DEF TimerInit
<1>2. TimerInv
  BY <1>1 DEF TimerInv, Distinct, HeadRuns
<1>3. ASSUME MapCounts PROVE Remaining = [p \in Sleeping |-> 0]
  <2>1. PICK e : Left(Remaining, timer_list, e)
    BY <1>3 DEF MapCounts, Counts
  <2>2. Remaining \in [Sleeping -> Nat] /\ \A p \in Sleeping : Remaining[p] = 0
    BY <1>1, <2>1 DEF Left
  <2> QED BY <2>2
<1> QED BY <1>1, <1>2, <1>3 DEF Due!Init

\* A step of the list, with what it does to the ticks that are left.
LEMMA TimerStep ==
  ASSUME TimerInv, MapCounts, [TimerNext]_timervars
  PROVE  TimerInv' /\ (MapCounts' => [Due!Next]_<<Remaining, fired>>)
<1>0. Counts(Remaining, timer_list)
  BY DEF MapCounts
<1>1. ASSUME TimerInv', NEW s, Counts(s, timer_list'), MapCounts' PROVE Remaining' = s
  BY <1>1, CountsUnique DEF MapCounts, TimerInv
<1>2. CASE UNCHANGED timervars
  <2>1. timer_list' = timer_list /\ fired' = fired
    BY <1>2 DEF timervars
  <2>2. TimerInv'
    BY <2>1 DEF TimerInv
  <2> QED BY <1>0, <1>1, <2>1, <2>2
<1>3. ASSUME NEW p \in Sleeping, NEW t \in 1..MAX_TIME, add_timer(p, t)
      PROVE  TimerInv' /\ (MapCounts' => [Due!Next]_<<Remaining, fired>>)
  <2>1. TimerInv' /\ Remaining[p] = 0 /\ Counts([Remaining EXCEPT ![p] = t], timer_list')
    BY <1>0, <1>3, AddCounts
  <2>2. ASSUME MapCounts' PROVE Due!Add(p, t)
    <3>1. Remaining' = [Remaining EXCEPT ![p] = t]
      BY <1>1, <2>1, <2>2
    <3>2. p \notin Due!Armed
      BY <2>1 DEF Due!Armed
    <3> QED BY <1>3, <3>1, <3>2 DEF Due!Add, add_timer
  <2> QED BY <2>1, <2>2 DEF Due!Next
<1>4. ASSUME NEW p \in Sleeping, del_timer(p)
      PROVE  TimerInv' /\ (MapCounts' => [Due!Next]_<<Remaining, fired>>)
  <2>1. TimerInv' /\ Counts([Remaining EXCEPT ![p] = 0], timer_list')
    BY <1>0, <1>4, DelCounts
  <2>2. ASSUME MapCounts' PROVE Due!Del(p)
    <3>1. Remaining' = [Remaining EXCEPT ![p] = 0]
      BY <1>1, <2>1, <2>2
    <3> QED BY <1>4, <3>1 DEF Due!Del, del_timer
  <2> QED BY <2>1, <2>2 DEF Due!Next
<1>5. CASE run_timer_list
  <2>1. /\ TimerInv' /\ fired' = {p \in Sleeping : Remaining[p] = 1}
        /\ Counts([p \in Sleeping |-> IF Remaining[p] > 0 THEN Remaining[p] - 1 ELSE 0], timer_list')
    BY <1>0, <1>5, TickCounts
  <2>2. ASSUME MapCounts' PROVE Due!Tick
    <3>1. Remaining' = [p \in Sleeping |-> IF Remaining[p] > 0 THEN Remaining[p] - 1 ELSE 0]
      BY <1>1, <2>1, <2>2
    <3>2. [p \in Sleeping |-> IF Remaining[p] > 0 THEN Remaining[p] - 1 ELSE 0]
          = [p \in Sleeping |-> IF p \in Due!Armed THEN Remaining[p] - 1 ELSE 0]
      BY DEF Due!Armed
    <3> QED BY <2>1, <3>1, <3>2 DEF Due!Tick
  <2> QED BY <2>1, <2>2 DEF Due!Next
<1> QED BY <1>2, <1>3, <1>4, <1>5 DEF TimerNext

\* Every sleeper is woken by exactly the tick that it asked for, for any number of
\* sleepers and any times, whatever timers add_timer and del_timer link and unlink
\* in between: the delta list that run_timer_list counts down implements Deadlines.
THEOREM TimersAreExact == TimerSpec => ImplementsDeadlines
<1>1. TimerInit => TimerInv
  BY TimersInit
<1>2. TimerInit /\ MapCounts => Due!Init
  BY TimersInit
<1>3. TimerInv /\ MapCounts /\ [TimerNext]_timervars => TimerInv'
  BY TimerStep
<1>4. TimerInv /\ MapCounts /\ MapCounts' /\ [TimerNext]_timervars => [Due!Next]_<<Remaining, fired>>
  BY TimerStep
<1>5. [Due!Next]_<<Remaining, fired>> => [Due!Next]_(Due!vars)
  BY DEF Due!vars
<1> QED BY <1>1, <1>2, <1>3, <1>4, <1>5, TimerInvMap, PTL DEF TimerSpec, ImplementsDeadlines, Due!Spec

-----------------------------------------------------------------------------
(* The threads of the earlier kernel (module Threads).  They are in a ring, and *)
(* the search of schedule() goes around it: those up to the current one have   *)
(* had one turn more than those behind it.                                     *)

ThreadTypeOK ==
  /\ th_list \in Seq(Tids)
  /\ state \in [0..MAX_THREADS -> {PROC_RUNNABLE, PROC_SLEEPING, PROC_ZOMBIE, PROC_UNINIT}]
  /\ runs \in [0..MAX_THREADS -> Nat]

\* A thread is in the list once, from do_fork until it is reaped, with its stack.
ListSound ==
  /\ \A i, j \in 1..Len(th_list) : th_list[i] = th_list[j] => i = j
  /\ \A t \in Tids : state[t] = PROC_RUNNABLE => \E i \in 1..Len(th_list) : th_list[i] = t
  /\ \A i \in 1..Len(th_list) : state[th_list[i]] \in {PROC_RUNNABLE, PROC_ZOMBIE}
  /\ stacks = {th_list[i] : i \in 1..Len(th_list)} /\ th_nr_process = Len(th_list) + 1

\* proc_init makes the threads, and kern_init is about to let the first one run.
Starting ==
  /\ current = idle /\ (tpc = "init" \/ (tpc = "schedule" /\ Len(th_list) > 0))
  /\ \A i \in 1..Len(th_list) : th_list[i] = i /\ state[i] = PROC_RUNNABLE
  /\ \A t \in 0..MAX_THREADS : runs[t] = 0

\* It is the turn of the thread at k: those behind it have had one turn less.
TurnOf(k) ==
  /\ current = th_list[k] /\ state[current] = PROC_RUNNABLE /\ runs[idle] = 0 /\ tpc = "do_wait"
  /\ \A i \in 1..Len(th_list) : state[th_list[i]] = PROC_RUNNABLE =>
       runs[th_list[i]] = IF i <= k THEN runs[current] ELSE runs[current] - 1

\* All threads have exited and kern_init reaps them.
Reaping ==
  /\ current = idle /\ tpc \in {"schedule", "do_wait", "end"}
  /\ \A t \in Tids : state[t] # PROC_RUNNABLE
  /\ tpc = "end" => Len(th_list) = 0

ThreadInv ==
  /\ ThreadTypeOK /\ ListSound
  /\ wait_state = FALSE /\ tpanic = FALSE
  /\ Starting \/ (\E k \in 1..Len(th_list) : TurnOf(k)) \/ Reaping

-----------------------------------------------------------------------------
\* The first of some positions.
LEMMA FirstIs ==
  ASSUME NEW S, S \subseteq Nat, S # {}
  PROVE  Min(S) \in S /\ \A y \in S : Min(S) <= y
  <1>1. PICK n \in S : \A x \in S : ~(x < n) BY LeastNumber
  <1>2. \A x \in S : n <= x BY <1>1
  <1> QED BY <1>2 DEF Min

\* Once around the list, from behind position k.
LEMMA OrderIs ==
  ASSUME th_list \in Seq(Tids), \A i, j \in 1..Len(th_list) : th_list[i] = th_list[j] => i = j,
         NEW k \in 1..Len(th_list)
  PROVE  /\ Order(th_list[k]) \in Seq(Tids) /\ Len(Order(th_list[k])) = Len(th_list)
         /\ \A i \in 1..Len(th_list) : Order(th_list[k])[i] =
              IF i <= Len(th_list) - k THEN th_list[k + i] ELSE th_list[i - (Len(th_list) - k)]
  <1> DEFINE n == Len(th_list)
             a == SubSeq(th_list, k + 1, n)
             b == SubSeq(th_list, 1, k)
  <1>1. n \in Nat /\ k \in Nat /\ k >= 1 /\ k <= n /\ DOMAIN th_list = 1..n OBVIOUS
  <1>2. (CHOOSE i \in DOMAIN th_list : th_list[i] = th_list[k]) = k BY <1>1
  <1>3. th_list[k] \in Tids BY ElementOfSeq
  <1>4. th_list[k] # idle BY <1>3, ThreadsAssumption DEF Tids, idle
  <1>5. Order(th_list[k]) = a \o b BY <1>2, <1>4 DEF Order
  <1>6. /\ b \in Seq(Tids) /\ Len(b) = k /\ \A i \in 1..k : b[i] = th_list[i]
        /\ a \in Seq(Tids) /\ Len(a) = n - (k + 1) + 1
        /\ \A i \in 1..n-(k+1)+1 : a[i] = th_list[(k + 1) + i - 1]
    <2>1. k \in 0..Len(th_list) /\ k + 1 \in 1..Len(th_list)+1 BY <1>1
    <2> QED BY <2>1, Parts
  <1> HIDE DEF a, b, n
  <1>7. Len(a) = n - k /\ \A i \in 1..(n - k) : a[i] = th_list[k + i]
    <2>1. n - (k + 1) + 1 = n - k /\ \A i \in 1..(n - k) : (k + 1) + i - 1 = k + i BY <1>1
    <2> QED BY <1>6, <2>1
  <1>8. a \o b \in Seq(Tids) /\ Len(a \o b) = n
        /\ \A i \in 1..n : (a \o b)[i] = IF i <= n - k THEN a[i] ELSE b[i - (n - k)]
    <2>1. /\ a \o b \in Seq(Tids) /\ Len(a \o b) = Len(a) + Len(b)
          /\ \A i \in 1..Len(a)+Len(b) : (a \o b)[i] = IF i <= Len(a) THEN a[i] ELSE b[i - Len(a)]
      <3>1. a \in Seq(Tids) /\ b \in Seq(Tids) BY <1>6
      <3> QED BY <3>1, ConcatProperties
    <2>2. Len(a) + Len(b) = n BY <1>1, <1>6, <1>7
    <2> QED BY <1>7, <2>1, <2>2
  <1>9. \A i \in 1..n : i <= n - k => i \in 1..(n - k) BY <1>1
  <1>10. \A i \in 1..n : ~(i <= n - k) => i - (n - k) \in 1..k BY <1>1
  <1> QED BY <1>5, <1>6, <1>7, <1>8, <1>9, <1>10 DEF n

\* The thread that schedule() switches to.
Chosen(order, st) ==
  LET able == {i \in DOMAIN order : st[order[i]] = PROC_RUNNABLE}
  IN  IF able = {} THEN idle ELSE order[Min(able)]

\* x is the next position behind k, around the list, whose thread can run.
NextAble(k, x, st) ==
  /\ st[th_list[x]] = PROC_RUNNABLE
  /\ IF x > k THEN \A i \in 1..Len(th_list) : i > k /\ i < x => st[th_list[i]] # PROC_RUNNABLE
     ELSE \A i \in 1..Len(th_list) : i > k \/ i < x => st[th_list[i]] # PROC_RUNNABLE

NoneAble(st) == \A i \in 1..Len(th_list) : st[th_list[i]] # PROC_RUNNABLE

\* From the thread at k it goes on to the next one that can run, around the list.
LEMMA ChosenNext ==
  ASSUME th_list \in Seq(Tids), \A i, j \in 1..Len(th_list) : th_list[i] = th_list[j] => i = j,
         NEW k \in 1..Len(th_list), NEW st
  PROVE  \/ Chosen(Order(th_list[k]), st) = idle /\ NoneAble(st)
         \/ \E x \in 1..Len(th_list) : Chosen(Order(th_list[k]), st) = th_list[x] /\ NextAble(k, x, st)
  <1> DEFINE n == Len(th_list)
             o == Order(th_list[k])
             able == {i \in DOMAIN o : st[o[i]] = PROC_RUNNABLE}
  <1>1. n \in Nat /\ k \in Nat /\ k >= 1 /\ k <= n OBVIOUS
  <1>2. /\ o \in Seq(Tids) /\ Len(o) = n
        /\ \A i \in 1..n : o[i] = IF i <= n - k THEN th_list[k + i] ELSE th_list[i - (n - k)]
    BY OrderIs
  <1> HIDE DEF o
  <1>3. DOMAIN o = 1..n BY <1>2
  <1> HIDE DEF n
  \* Where the entries of the list are in o.
  <1>4. \A i \in 1..n : i > k => i - k \in 1..n /\ o[i - k] = th_list[i] BY <1>1, <1>2
  <1>5. \A i \in 1..n : i <= k => i + (n - k) \in 1..n /\ o[i + (n - k)] = th_list[i] BY <1>1, <1>2
  <1>6. CASE able = {}
    <2>1. \A i \in 1..n : st[o[i]] # PROC_RUNNABLE BY <1>3, <1>6
    <2>2. \A i \in 1..n : st[th_list[i]] # PROC_RUNNABLE 
      <3> SUFFICES ASSUME NEW i \in 1..n PROVE st[th_list[i]] # PROC_RUNNABLE OBVIOUS
      <3>1. CASE i > k BY <1>4, <2>1, <3>1
      <3>2. CASE i <= k BY <1>5, <2>1, <3>2
      <3> QED BY <1>1, <3>1, <3>2
    <2> QED BY <1>6, <2>2 DEF Chosen, o, n, NoneAble
  <1>7. CASE able # {}
    <2> DEFINE a == Min(able)
               x == IF a <= n - k THEN k + a ELSE a - (n - k)
    <2>1. able \subseteq Nat BY <1>1, <1>3
    <2>2. a \in able /\ \A y \in able : a <= y BY <1>7, <2>1, FirstIs
    <2>3. Chosen(o, st) = o[a] BY <1>7 DEF Chosen
    <2> HIDE DEF a
    <2>4. a \in 1..n /\ st[o[a]] = PROC_RUNNABLE BY <1>3, <2>2
    <2>5. \A y \in 1..n : y < a => st[o[y]] # PROC_RUNNABLE BY <1>1, <1>3, <2>2, <2>4
    <2> HIDE DEF able
    <2>6. x \in 1..n /\ o[a] = th_list[x] /\ (x > k <=> a <= n - k) BY <1>1, <1>2, <2>4
    <2>7. ASSUME NEW i \in 1..n, x > k, i > k, i < x PROVE st[th_list[i]] # PROC_RUNNABLE
      <3>1. i - k \in 1..n /\ i - k < a BY <1>1, <2>4, <2>6, <2>7
      <3> QED BY <1>4, <2>5, <2>7, <3>1
    <2>8. ASSUME NEW i \in 1..n, ~(x > k), i > k \/ i < x PROVE st[th_list[i]] # PROC_RUNNABLE
      <3>1. a > n - k /\ x = a - (n - k) BY <1>1, <2>4, <2>6, <2>8
      <3> HIDE DEF x
      <3>2. CASE i > k
        <4>1. i - k \in 1..n /\ i - k < a BY <1>1, <2>4, <3>1, <3>2
        <4> QED BY <1>4, <2>5, <3>2, <4>1
      <3>3. CASE i <= k
        <4>1. i + (n - k) \in 1..n /\ i + (n - k) < a BY <1>1, <2>4, <2>8, <3>1, <3>3
        <4> QED BY <1>5, <2>5, <3>3, <4>1
      <3> QED BY <1>1, <3>2, <3>3
    <2> HIDE DEF x
    <2>9. IF x > k THEN \A i \in 1..n : i > k /\ i < x => st[th_list[i]] # PROC_RUNNABLE
          ELSE \A i \in 1..n : i > k \/ i < x => st[th_list[i]] # PROC_RUNNABLE
      BY <2>7, <2>8
    <2>10. x \in 1..n /\ Chosen(o, st) = th_list[x] /\ st[th_list[x]] = PROC_RUNNABLE BY <2>3, <2>4, <2>6
    <2> QED BY <2>9, <2>10 DEF o, n, NextAble
  <1> QED BY <1>6, <1>7

\* schedule() switches to the chosen thread and counts its turn.
LEMMA ScheduleIs ==
  ASSUME NEW st, schedule(st)
  PROVE  /\ current' = Chosen(Order(current), st)
         /\ runs' = [runs EXCEPT ![Chosen(Order(current), st)] = @ + 1]
  BY DEF schedule, Chosen

\* A thread of the list is one of the threads, and not idleproc.
LEMMA Listed ==
  ASSUME th_list \in Seq(Tids), NEW i \in 1..Len(th_list)
  PROVE  th_list[i] \in Tids /\ th_list[i] \in 0..MAX_THREADS /\ th_list[i] # idle
  <1>1. th_list[i] \in Tids BY ElementOfSeq
  <1> QED BY <1>1, ThreadsAssumption DEF Tids, idle

\* The turn passes from the thread at k to the next one: the invariant of the turns.
LEMMA TurnGoesOn ==
  ASSUME ThreadTypeOK, ListSound, NEW k \in 1..Len(th_list), TurnOf(k), NEW st,
         \A t \in Tids : st[t] = PROC_RUNNABLE => state[t] = PROC_RUNNABLE,
         schedule(st)
  PROVE  /\ runs' \in [0..MAX_THREADS -> Nat]
         /\ \/ current' = idle /\ \A i \in 1..Len(th_list) : st[th_list[i]] # PROC_RUNNABLE
            \/ \E x \in 1..Len(th_list) :
                 /\ current' = th_list[x] /\ st[th_list[x]] = PROC_RUNNABLE /\ runs'[idle] = 0
                 /\ \A i \in 1..Len(th_list) : st[th_list[i]] = PROC_RUNNABLE =>
                      runs'[th_list[i]] = IF i <= x THEN runs'[th_list[x]] ELSE runs'[th_list[x]] - 1
  <1> DEFINE n == Len(th_list)
             c == Chosen(Order(current), st)
             r == runs[current]
  <1>1. n \in Nat /\ k \in Nat /\ 1 <= k /\ k <= n BY DEF ThreadTypeOK
  <1>2. /\ th_list \in Seq(Tids) /\ \A i, j \in 1..n : th_list[i] = th_list[j] => i = j
        /\ current = th_list[k] /\ runs \in [0..MAX_THREADS -> Nat] /\ runs[idle] = 0
        /\ \A i \in 1..n : state[th_list[i]] = PROC_RUNNABLE => runs[th_list[i]] = IF i <= k THEN r ELSE r - 1
    BY DEF ThreadTypeOK, ListSound, TurnOf
  <1>3. current' = c /\ runs' = [runs EXCEPT ![c] = @ + 1] BY ScheduleIs
  <1>4. idle \in 0..MAX_THREADS BY ThreadsAssumption DEF idle
  <1>5. r \in Nat BY <1>2, Listed
  <1>6. \/ c = idle /\ NoneAble(st)
        \/ \E x \in 1..n : c = th_list[x] /\ NextAble(k, x, st)
    <2>1. th_list \in Seq(Tids) /\ (\A i, j \in 1..Len(th_list) : th_list[i] = th_list[j] => i = j) BY <1>2
    <2>2. \/ Chosen(Order(th_list[k]), st) = idle /\ NoneAble(st)
          \/ \E x \in 1..Len(th_list) : Chosen(Order(th_list[k]), st) = th_list[x] /\ NextAble(k, x, st)
      BY <2>1, ChosenNext
    <2>3. c = Chosen(Order(th_list[k]), st) BY <1>2
    <2> HIDE DEF c
    <2> QED BY <2>2, <2>3
  <1> HIDE DEF c, r
  <1>7. CASE c = idle /\ NoneAble(st)
    <2>1. runs' \in [0..MAX_THREADS -> Nat] BY <1>2, <1>3, <1>4, <1>7
    <2> QED BY <1>3, <1>7, <2>1 DEF NoneAble
  <1>8. ASSUME NEW x \in 1..n, c = th_list[x], st[th_list[x]] = PROC_RUNNABLE,
               IF x > k THEN \A i \in 1..n : i > k /\ i < x => st[th_list[i]] # PROC_RUNNABLE
               ELSE \A i \in 1..n : i > k \/ i < x => st[th_list[i]] # PROC_RUNNABLE
        PROVE  /\ runs' \in [0..MAX_THREADS -> Nat] /\ runs'[idle] = 0
               /\ \A i \in 1..n : st[th_list[i]] = PROC_RUNNABLE =>
                    runs'[th_list[i]] = IF i <= x THEN runs'[th_list[x]] ELSE runs'[th_list[x]] - 1
    <2>1. \A i \in 1..n : th_list[i] \in Tids /\ th_list[i] \in 0..MAX_THREADS /\ th_list[i] # idle
      BY <1>2, Listed
    <2>2. runs' \in [0..MAX_THREADS -> Nat] /\ runs'[idle] = 0 BY <1>2, <1>3, <1>4, <1>8, <2>1
    <2>3. \A i \in 1..n : runs'[th_list[i]] = IF i = x THEN runs[th_list[x]] + 1 ELSE runs[th_list[i]]
      BY <1>2, <1>3, <1>8, <2>1
    <2>4. \A i \in 1..n : st[th_list[i]] = PROC_RUNNABLE => runs[th_list[i]] = IF i <= k THEN r ELSE r - 1
      BY <1>2, <2>1
    <2>5. ASSUME NEW i \in 1..n, st[th_list[i]] = PROC_RUNNABLE
          PROVE  runs'[th_list[i]] = IF i <= x THEN runs'[th_list[x]] ELSE runs'[th_list[x]] - 1
      <3>1. runs[th_list[x]] = IF x <= k THEN r ELSE r - 1 BY <1>8, <2>4
      <3>2. runs[th_list[i]] = IF i <= k THEN r ELSE r - 1 BY <2>4, <2>5
      <3>3. runs'[th_list[x]] = runs[th_list[x]] + 1 BY <2>3
      <3>4. runs'[th_list[i]] = IF i = x THEN runs[th_list[x]] + 1 ELSE runs[th_list[i]] BY <2>3
      <3>5. CASE x > k
        <4>1. ~(i > k /\ i < x) BY <1>8, <2>5, <3>5
        <4> QED BY <1>1, <1>5, <3>1, <3>2, <3>3, <3>4, <3>5, <4>1
      <3>6. CASE ~(x > k)
        <4>1. ~(i > k) /\ ~(i < x) BY <1>8, <2>5, <3>6
        <4> QED BY <1>1, <1>5, <3>1, <3>2, <3>3, <3>4, <3>6, <4>1
      <3> QED BY <3>5, <3>6
    <2> QED BY <2>2, <2>5
  <1> QED BY <1>3, <1>6, <1>7, <1>8 DEF NextAble

-----------------------------------------------------------------------------
LEMMA ThreadsStart == ThreadInit => ThreadInv
  <1> SUFFICES ASSUME ThreadInit PROVE ThreadInv OBVIOUS
  <1>1. th_list = <<>> /\ Len(th_list) = 0 /\ th_list \in Seq(Tids) BY DEF ThreadInit
  <1>2. ThreadTypeOK BY <1>1 DEF ThreadInit, ThreadTypeOK
  <1>3. \A t \in Tids : state[t] # PROC_RUNNABLE
    BY ThreadsAssumption DEF ThreadInit, Tids, idle, PROC_RUNNABLE, PROC_UNINIT
  <1>4. {th_list[i] : i \in 1..Len(th_list)} = {} BY <1>1
  <1>5. ListSound BY <1>1, <1>3, <1>4 DEF ThreadInit, ListSound
  <1>6. Starting BY <1>1 DEF ThreadInit, Starting
  <1> QED BY <1>2, <1>5, <1>6 DEF ThreadInv, ThreadInit

\* do_fork puts the next thread behind the others.
LEMMA ForkStep ==
  ASSUME ThreadInv, proc_init
  PROVE  ThreadInv'
  <1> DEFINE n == Len(th_list)
             t == n + 1
  <1>1. ThreadTypeOK /\ ListSound /\ wait_state' = FALSE /\ tpanic' = FALSE /\ UNCHANGED <<runs, current>>
    BY DEF ThreadInv, proc_init
  <1>2. Starting BY DEF ThreadInv, proc_init, TurnOf, Reaping
  <1>3. n \in Nat /\ th_list \in Seq(Tids) BY DEF ThreadInv, ThreadTypeOK
  <1>4. CASE th_list # <<>> /\ tpc' = "schedule" /\ UNCHANGED <<th_list, state, th_nr_process, stacks, todo>>
    <2>1. n > 0 BY <1>3, <1>4, EmptySeq
    <2>2. Starting' BY <1>1, <1>2, <1>4, <2>1 DEF Starting
    <2>3. ThreadTypeOK' /\ ListSound' BY <1>1, <1>4 DEF ThreadTypeOK, ListSound
    <2> QED BY <1>1, <2>2, <2>3 DEF ThreadInv
  <1>5. CASE n < MAX_THREADS /\ do_fork(t) /\ tpc' = tpc
    <2>1. t \in Tids /\ t \in 0..MAX_THREADS /\ t # idle BY <1>3, <1>5, ThreadsAssumption DEF Tids, idle
    <2>2. /\ th_list' \in Seq(Tids) /\ Len(th_list') = n + 1 /\ th_list'[t] = t
          /\ \A i \in 1..n : th_list'[i] = th_list[i]
      BY <1>3, <1>5, <2>1, AppendProperties DEF do_fork
    <2>3. \A i \in 1..n : th_list[i] = i /\ state[i] = PROC_RUNNABLE BY <1>2 DEF Starting
    <2>4. \A i \in 1..Len(th_list') : th_list'[i] = i
      <3> SUFFICES ASSUME NEW i \in 1..n+1 PROVE th_list'[i] = i BY <2>2
      <3>1. CASE i = t BY <2>2, <3>1
      <3>2. CASE i # t
        <4>1. i \in 1..n BY <1>3, <3>2
        <4> QED BY <2>2, <2>3, <4>1
      <3> QED BY <3>1, <3>2
    <2>5. /\ state' = [state EXCEPT ![t] = PROC_RUNNABLE] /\ th_nr_process' = th_nr_process + 1
          /\ stacks' = stacks \cup {t} /\ state \in [0..MAX_THREADS -> {PROC_RUNNABLE, PROC_SLEEPING, PROC_ZOMBIE, PROC_UNINIT}]
      BY <1>1, <1>5 DEF do_fork, ThreadTypeOK
    <2>6. ThreadTypeOK' BY <1>1, <2>1, <2>2, <2>5 DEF ThreadTypeOK
    <2>7. \A i \in 1..n+1 : state'[i] = PROC_RUNNABLE
      <3> SUFFICES ASSUME NEW i \in 1..n+1 PROVE state'[i] = PROC_RUNNABLE OBVIOUS
      <3>1. CASE i = t BY <2>1, <2>5, <3>1
      <3>2. CASE i # t
        <4>1. i \in 1..n /\ i \in 0..MAX_THREADS BY <1>3, <1>5, <3>2, ThreadsAssumption
        <4> QED BY <2>3, <2>5, <3>2, <4>1
      <3> QED BY <3>1, <3>2
    <2>8. Starting'
      <3>1. current' = idle /\ tpc' = "init" BY <1>1, <1>2, <1>5 DEF Starting, proc_init
      <3>2. \A u \in 0..MAX_THREADS : runs'[u] = 0 BY <1>1, <1>2 DEF Starting
      <3> QED BY <2>2, <2>4, <2>7, <3>1, <3>2 DEF Starting
    <2>9. ListSound'
      <3>1. \A u \in Tids : state'[u] = PROC_RUNNABLE => \E i \in 1..Len(th_list') : th_list'[i] = u
        <4> SUFFICES ASSUME NEW u \in Tids, state'[u] = PROC_RUNNABLE
                     PROVE  u \in 1..n+1 BY <2>2, <2>4
        <4>1. CASE u = t BY <1>3, <4>1
        <4>2. CASE u # t
          <5>1. u \in 0..MAX_THREADS BY ThreadsAssumption DEF Tids
          <5>2. state[u] = PROC_RUNNABLE BY <2>5, <4>2, <5>1
          <5>3. PICK i \in 1..n : th_list[i] = u BY <1>1, <5>2 DEF ListSound
          <5> QED BY <1>3, <2>3, <5>3
        <4> QED BY <4>1, <4>2
      <3>2. stacks = 1..n
        <4>1. stacks = {th_list[i] : i \in 1..n} BY <1>1 DEF ListSound
        <4> QED BY <2>3, <4>1
      <3>3. stacks' = {th_list'[i] : i \in 1..Len(th_list')}
        <4>1. {th_list'[i] : i \in 1..Len(th_list')} = 1..n+1 BY <2>2, <2>4
        <4>2. 1..n+1 = (1..n) \cup {n + 1} BY <1>3
        <4> QED BY <2>5, <3>2, <4>1, <4>2
      <3>4. th_nr_process' = Len(th_list') + 1 BY <1>1, <1>3, <2>2, <2>5 DEF ListSound
      <3> QED BY <2>2, <2>4, <2>7, <3>1, <3>3, <3>4 DEF ListSound
    <2> QED BY <1>1, <2>6, <2>8, <2>9 DEF ThreadInv
  <1> QED BY <1>4, <1>5 DEF proc_init

\* Only a thread of the list can be running when idleproc is not.
LEMMA SomeTurn ==
  ASSUME ThreadInv, current # idle
  PROVE  \E k \in 1..Len(th_list) : TurnOf(k)
  BY DEF ThreadInv, Starting, Reaping

\* A thread that yields.
LEMMA YieldStep ==
  ASSUME ThreadInv, init_main
  PROVE  ThreadInv'
  <1>1. PICK k \in 1..Len(th_list) : TurnOf(k) BY SomeTurn DEF init_main
  <1>2. /\ ThreadTypeOK /\ ListSound /\ wait_state' = FALSE /\ tpanic' = FALSE /\ schedule(state)
        /\ UNCHANGED <<th_list, state, th_nr_process, stacks, tpc>>
    BY DEF ThreadInv, init_main
  <1>3. state[th_list[k]] = PROC_RUNNABLE /\ tpc = "do_wait" BY <1>1 DEF TurnOf
  <1>4. PICK x \in 1..Len(th_list) :
          /\ current' = th_list[x] /\ state[th_list[x]] = PROC_RUNNABLE /\ runs'[idle] = 0
          /\ \A i \in 1..Len(th_list) : state[th_list[i]] = PROC_RUNNABLE =>
               runs'[th_list[i]] = IF i <= x THEN runs'[th_list[x]] ELSE runs'[th_list[x]] - 1
    BY <1>1, <1>2, <1>3, TurnGoesOn
  <1>5. runs' \in [0..MAX_THREADS -> Nat] BY <1>1, <1>2, TurnGoesOn
  <1>6. ThreadTypeOK' /\ ListSound' BY <1>2, <1>5 DEF ThreadTypeOK, ListSound
  <1>7. TurnOf(x)' BY <1>2, <1>3, <1>4 DEF TurnOf
  <1>8. \E y \in 1..Len(th_list') : TurnOf(y)' BY <1>2, <1>7
  <1> QED BY <1>2, <1>6, <1>8 DEF ThreadInv

\* A thread that exits: the last one leaves the processor to idleproc.
LEMMA ExitStep ==
  ASSUME ThreadInv, do_exit
  PROVE  ThreadInv'
  <1>1. PICK k \in 1..Len(th_list) : TurnOf(k) BY SomeTurn DEF do_exit
  <1>2. /\ ThreadTypeOK /\ ListSound /\ wait_state' = FALSE /\ tpanic' = FALSE /\ schedule(state')
        /\ state' = [state EXCEPT ![current] = PROC_ZOMBIE, ![idle] = state[idle]]
        /\ UNCHANGED <<th_list, th_nr_process, stacks, tpc>>
    BY DEF ThreadInv, do_exit
  <1>3. current = th_list[k] /\ tpc = "do_wait" BY <1>1 DEF TurnOf
  <1>4. /\ th_list \in Seq(Tids) /\ current \in Tids /\ current \in 0..MAX_THREADS /\ current # idle
        /\ idle \in 0..MAX_THREADS /\ Tids \subseteq 0..MAX_THREADS /\ idle \notin Tids
    BY <1>2, <1>3, Listed, ThreadsAssumption DEF ThreadTypeOK, Tids, idle
  <1>5. /\ state' \in [0..MAX_THREADS -> {PROC_RUNNABLE, PROC_SLEEPING, PROC_ZOMBIE, PROC_UNINIT}]
        /\ \A t \in Tids : state'[t] = IF t = current THEN PROC_ZOMBIE ELSE state[t]
    BY <1>2, <1>4 DEF ThreadTypeOK
  <1>6. \A t \in Tids : state'[t] = PROC_RUNNABLE => state[t] = PROC_RUNNABLE
    BY <1>5 DEF PROC_RUNNABLE, PROC_ZOMBIE
  <1>7. /\ runs' \in [0..MAX_THREADS -> Nat]
        /\ \/ current' = idle /\ \A i \in 1..Len(th_list) : state'[th_list[i]] # PROC_RUNNABLE
           \/ \E x \in 1..Len(th_list) :
                /\ current' = th_list[x] /\ state'[th_list[x]] = PROC_RUNNABLE /\ runs'[idle] = 0
                /\ \A i \in 1..Len(th_list) : state'[th_list[i]] = PROC_RUNNABLE =>
                     runs'[th_list[i]] = IF i <= x THEN runs'[th_list[x]] ELSE runs'[th_list[x]] - 1
    <2> DEFINE st == state'
    <2>1. (\A t \in Tids : st[t] = PROC_RUNNABLE => state[t] = PROC_RUNNABLE) /\ schedule(st) BY <1>2, <1>6
    <2>2. ThreadTypeOK /\ ListSound BY <1>2
    <2> HIDE DEF st
    <2>3. /\ runs' \in [0..MAX_THREADS -> Nat]
          /\ \/ current' = idle /\ \A i \in 1..Len(th_list) : st[th_list[i]] # PROC_RUNNABLE
             \/ \E x \in 1..Len(th_list) :
                  /\ current' = th_list[x] /\ st[th_list[x]] = PROC_RUNNABLE /\ runs'[idle] = 0
                  /\ \A i \in 1..Len(th_list) : st[th_list[i]] = PROC_RUNNABLE =>
                       runs'[th_list[i]] = IF i <= x THEN runs'[th_list[x]] ELSE runs'[th_list[x]] - 1
      BY <1>1, <2>1, <2>2, TurnGoesOn
    <2> QED BY <2>3 DEF st
  <1>8. ThreadTypeOK' BY <1>2, <1>4, <1>5, <1>7 DEF ThreadTypeOK
  <1>9. ListSound'
    <2>1. \A i \in 1..Len(th_list) : state'[th_list[i]] \in {PROC_RUNNABLE, PROC_ZOMBIE}
      BY <1>2, <1>4, <1>5, Listed DEF ListSound
    <2>2. \A t \in Tids : state'[t] = PROC_RUNNABLE => \E i \in 1..Len(th_list) : th_list[i] = t
      BY <1>2, <1>6 DEF ListSound
    <2>3. UNCHANGED <<th_list, th_nr_process, stacks>> BY <1>2
    <2>4. /\ \A i, j \in 1..Len(th_list') : th_list'[i] = th_list'[j] => i = j
          /\ stacks' = {th_list'[i] : i \in 1..Len(th_list')} /\ th_nr_process' = Len(th_list') + 1
      BY <1>2, <2>3 DEF ListSound
    <2>5. /\ \A i \in 1..Len(th_list') : state'[th_list'[i]] \in {PROC_RUNNABLE, PROC_ZOMBIE}
          /\ \A t \in Tids : state'[t] = PROC_RUNNABLE => \E i \in 1..Len(th_list') : th_list'[i] = t
      BY <2>1, <2>2, <2>3
    <2> QED BY <2>4, <2>5 DEF ListSound
  <1>10. CASE current' = idle /\ \A i \in 1..Len(th_list) : state'[th_list[i]] # PROC_RUNNABLE
    <2>1. \A t \in Tids : state'[t] # PROC_RUNNABLE 
      <3>1. \A t \in Tids : state'[t] = PROC_RUNNABLE => \E i \in 1..Len(th_list) : th_list[i] = t
        BY <1>2, <1>6 DEF ListSound
      <3> QED BY <1>10, <3>1
    <2>2. Reaping' BY <1>2, <1>3, <1>10, <2>1 DEF Reaping
    <2> QED BY <1>2, <1>8, <1>9, <2>2 DEF ThreadInv
  <1>11. ASSUME NEW x \in 1..Len(th_list), current' = th_list[x], state'[th_list[x]] = PROC_RUNNABLE, runs'[idle] = 0,
                \A i \in 1..Len(th_list) : state'[th_list[i]] = PROC_RUNNABLE =>
                  runs'[th_list[i]] = IF i <= x THEN runs'[th_list[x]] ELSE runs'[th_list[x]] - 1
         PROVE  ThreadInv'
    <2>1. TurnOf(x)' BY <1>2, <1>3, <1>11 DEF TurnOf
    <2>2. \E y \in 1..Len(th_list') : TurnOf(y)' BY <1>2, <2>1
    <2> QED BY <1>2, <1>8, <1>9, <2>2 DEF ThreadInv
  <1> QED BY <1>7, <1>10, <1>11

\* kern_init's schedule() starts the first thread, or finds nobody to run.
LEMMA LetRunStep ==
  ASSUME ThreadInv, kern_init
  PROVE  ThreadInv'
  <1> DEFINE n == Len(th_list)
             able == {i \in DOMAIN th_list : state[th_list[i]] = PROC_RUNNABLE}
             c == Chosen(th_list, state)
  <1>1. /\ ThreadTypeOK /\ ListSound /\ wait_state' = FALSE /\ tpanic' = FALSE /\ schedule(state)
        /\ current = idle /\ tpc = "schedule" /\ tpc' = "do_wait"
        /\ UNCHANGED <<th_list, state, th_nr_process, stacks>>
    BY DEF ThreadInv, kern_init
  <1>2. Starting \/ Reaping BY <1>1 DEF ThreadInv, TurnOf
  <1>3. n \in Nat /\ DOMAIN th_list = 1..n /\ th_list \in Seq(Tids) BY <1>1 DEF ThreadTypeOK
  <1>4. \A i \in 1..n : th_list[i] \in Tids /\ th_list[i] \in 0..MAX_THREADS /\ th_list[i] # idle BY <1>3, Listed
  <1>5. current' = c /\ runs' = [runs EXCEPT ![c] = @ + 1] BY <1>1, ScheduleIs DEF Order
  <1>6. c = IF able = {} THEN idle ELSE th_list[Min(able)] BY DEF Chosen
  <1>7. runs \in [0..MAX_THREADS -> Nat] /\ idle \in 0..MAX_THREADS BY <1>1, ThreadsAssumption DEF ThreadTypeOK, idle
  <1> HIDE DEF c
  <1>8. CASE Starting
    <2>1. n >= 1 /\ 1 \in 1..n BY <1>1, <1>3, <1>8 DEF Starting
    <2>2. able = 1..n BY <1>3, <1>8 DEF Starting
    <2>3. Min(able) = 1
      <3>1. able \subseteq Nat /\ able # {} BY <1>3, <2>1, <2>2
      <3> HIDE DEF able
      <3>2. Min(able) \in able /\ \A y \in able : Min(able) <= y BY <3>1, FirstIs
      <3> QED BY <2>1, <2>2, <3>2
    <2>4. c = th_list[1] /\ th_list[1] = 1 BY <1>6, <1>8, <2>1, <2>2, <2>3 DEF Starting
    <2>5. runs' \in [0..MAX_THREADS -> Nat] /\ runs'[idle] = 0
      BY <1>4, <1>5, <1>7, <1>8, <2>1, <2>4 DEF Starting
    <2>6. \A i \in 1..n : runs'[th_list[i]] = IF i <= 1 THEN 1 ELSE 0
      BY <1>4, <1>5, <1>7, <1>8, <2>1, <2>4 DEF Starting
    <2>7. TurnOf(1)'
      <3>1. current' = th_list[1] /\ state[th_list[1]] = PROC_RUNNABLE BY <1>5, <1>8, <2>1, <2>4 DEF Starting
      <3>2. runs'[th_list[1]] = 1 BY <2>1, <2>6
      <3> QED BY <1>1, <2>5, <2>6, <3>1, <3>2 DEF TurnOf
    <2>8. ThreadTypeOK' /\ ListSound' BY <1>1, <2>5 DEF ThreadTypeOK, ListSound
    <2>9. \E y \in 1..Len(th_list') : TurnOf(y)' BY <1>1, <2>1, <2>7
    <2> QED BY <1>1, <2>8, <2>9 DEF ThreadInv
  <1>9. CASE Reaping
    <2>1. able = {} BY <1>3, <1>4, <1>9 DEF Reaping
    <2>2. c = idle BY <1>6, <2>1
    <2>3. runs' \in [0..MAX_THREADS -> Nat] BY <1>5, <1>7, <2>2
    <2>4. Reaping' BY <1>1, <1>5, <1>9, <2>2 DEF Reaping
    <2>5. ThreadTypeOK' /\ ListSound' BY <1>1, <2>3 DEF ThreadTypeOK, ListSound
    <2> QED BY <1>1, <2>4, <2>5 DEF ThreadInv
  <1> QED BY <1>2, <1>8, <1>9

\* do_wait reaps the first dead thread: it never has to sleep, since all of them are dead.
LEMMA ReapStep ==
  ASSUME ThreadInv, do_wait
  PROVE  ThreadInv'
  <1> DEFINE n == Len(th_list)
             dead == {i \in DOMAIN th_list : state[th_list[i]] = PROC_ZOMBIE}
             m == Min(dead)
             f == th_list[m]
  <1>1. /\ ThreadTypeOK /\ ListSound /\ wait_state = FALSE /\ tpanic' = FALSE /\ current = idle /\ tpc = "do_wait"
    BY DEF ThreadInv, do_wait
  <1>2. Reaping
    <2>1. n \in Nat /\ th_list \in Seq(Tids) BY <1>1 DEF ThreadTypeOK
    <2>2. ASSUME NEW k \in 1..n, TurnOf(k) PROVE FALSE BY <1>1, <2>1, <2>2, Listed DEF TurnOf
    <2> QED BY <1>1, <2>2 DEF ThreadInv, Starting
  <1>3. n \in Nat /\ DOMAIN th_list = 1..n /\ th_list \in Seq(Tids) BY <1>1 DEF ThreadTypeOK
  <1>4. \A i \in 1..n : th_list[i] \in Tids /\ th_list[i] \in 0..MAX_THREADS /\ th_list[i] # idle BY <1>3, Listed
  <1>5. dead = 1..n BY <1>1, <1>2, <1>3, <1>4 DEF ListSound, Reaping
  <1>6. CASE dead # {}
    <2>1. m \in 1..n
      <3>1. dead \subseteq Nat BY <1>3
      <3>2. m \in dead BY <1>6, <3>1, FirstIs
      <3> QED BY <1>3, <3>2
    <2>2. /\ th_list' = RemoveAt(th_list, m) /\ th_nr_process' = th_nr_process - 1 /\ stacks' = stacks \ {f}
          /\ state' = [state EXCEPT ![f] = PROC_UNINIT] /\ tpc' = "schedule"
          /\ UNCHANGED <<current, runs, wait_state>>
      BY <1>6 DEF do_wait
    <2> HIDE DEF m, dead
    <2>3. /\ th_list' \in Seq(Tids) /\ Len(th_list') = n - 1
          /\ \A i \in 1..n-1 : th_list'[i] = IF i < m THEN th_list[i] ELSE th_list[i + 1]
      BY <1>3, <2>1, <2>2, RemoveFacts
    <2>4. f \in Tids /\ f \in 0..MAX_THREADS BY <1>4, <2>1
    <2>5. /\ state \in [0..MAX_THREADS -> {PROC_RUNNABLE, PROC_SLEEPING, PROC_ZOMBIE, PROC_UNINIT}]
          /\ \A i, j \in 1..n : th_list[i] = th_list[j] => i = j
          /\ \A i \in 1..n : state[th_list[i]] \in {PROC_RUNNABLE, PROC_ZOMBIE}
          /\ stacks = {th_list[i] : i \in 1..n} /\ th_nr_process = n + 1
      BY <1>1 DEF ThreadTypeOK, ListSound
    <2>6. ThreadTypeOK' BY <1>1, <2>2, <2>3, <2>4 DEF ThreadTypeOK
    <2>7. \A t \in Tids : state'[t] # PROC_RUNNABLE
      <3>1. Tids \subseteq 0..MAX_THREADS BY ThreadsAssumption DEF Tids
      <3> QED BY <1>2, <2>2, <2>4, <2>5, <3>1 DEF Reaping, PROC_UNINIT, PROC_RUNNABLE
    <2>8. Reaping' BY <1>1, <2>2, <2>7 DEF Reaping
    \* Where the entries of the new list were in the old one.
    <2> DEFINE at(i) == IF i < m THEN i ELSE i + 1
    <2>9. \A i \in 1..n-1 : at(i) \in 1..n /\ at(i) # m /\ th_list'[i] = th_list[at(i)] BY <1>3, <2>1, <2>3
    <2>10. \A i, j \in 1..n-1 : at(i) = at(j) => i = j BY <1>3, <2>1
    <2>11. \A x \in 1..n : x # m => \E i \in 1..n-1 : at(i) = x
      <3> SUFFICES ASSUME NEW x \in 1..n, x # m PROVE \E i \in 1..n-1 : at(i) = x OBVIOUS
      <3>1. CASE x < m
        <4>1. x \in 1..n-1 /\ at(x) = x BY <1>3, <2>1, <3>1
        <4> QED BY <4>1
      <3>2. CASE x > m
        <4>1. x - 1 \in 1..n-1 /\ at(x - 1) = x BY <1>3, <2>1, <3>2
        <4> QED BY <4>1
      <3> QED BY <2>1, <3>1, <3>2
    <2> HIDE DEF at
    <2>12. ListSound'
      <3>1. \A i, j \in 1..n-1 : th_list'[i] = th_list'[j] => i = j BY <2>5, <2>9, <2>10
      <3>2. \A i \in 1..n-1 : state'[th_list'[i]] \in {PROC_RUNNABLE, PROC_ZOMBIE}
        <4> SUFFICES ASSUME NEW i \in 1..n-1 PROVE state'[th_list'[i]] \in {PROC_RUNNABLE, PROC_ZOMBIE} OBVIOUS
        <4>1. th_list'[i] = th_list[at(i)] /\ at(i) \in 1..n /\ th_list[at(i)] # f BY <2>1, <2>5, <2>9
        <4>2. state'[th_list[at(i)]] = state[th_list[at(i)]] BY <1>4, <2>2, <2>4, <2>5, <4>1
        <4> QED BY <2>5, <4>1, <4>2
      <3>3. stacks' = {th_list'[i] : i \in 1..n-1}
        <4>1. ASSUME NEW s \in stacks' PROVE s \in {th_list'[i] : i \in 1..n-1}
          <5>1. PICK x \in 1..n : s = th_list[x] /\ s # f BY <2>2, <2>5, <4>1
          <5>2. PICK i \in 1..n-1 : at(i) = x BY <2>11, <5>1
          <5> QED BY <2>9, <5>1, <5>2
        <4>2. ASSUME NEW i \in 1..n-1 PROVE th_list'[i] \in stacks'
          BY <2>1, <2>2, <2>5, <2>9
        <4> QED BY <4>1, <4>2
      <3>4. th_nr_process' = Len(th_list') + 1 BY <1>3, <2>2, <2>3, <2>5
      <3> QED BY <2>3, <2>7, <3>1, <3>2, <3>3, <3>4 DEF ListSound
    <2> QED BY <1>1, <2>2, <2>6, <2>8, <2>12 DEF ThreadInv
  <1>7. CASE dead = {}
    <2>1. n = 0 BY <1>3, <1>5, <1>7
    <2>2. th_list = <<>> BY <1>3, <2>1, EmptySeq
    <2>3. tpc' = "end" /\ UNCHANGED <<th_list, state, current, wait_state, runs, th_nr_process, stacks>>
      BY <1>7, <2>2 DEF do_wait
    <2>4. ThreadTypeOK' /\ ListSound' BY <1>1, <2>3 DEF ThreadTypeOK, ListSound
    <2>5. Reaping' BY <1>2, <2>1, <2>3 DEF Reaping
    <2> QED BY <1>1, <2>3, <2>4, <2>5 DEF ThreadInv
  <1> QED BY <1>6, <1>7

LEMMA ThreadsGoOn == ThreadInv /\ [ThreadNext]_tvars => ThreadInv'
  <1> SUFFICES ASSUME ThreadInv, [ThreadNext]_tvars PROVE ThreadInv' OBVIOUS
  <1>1. CASE proc_init BY <1>1, ForkStep
  <1>2. CASE init_main BY <1>2, YieldStep
  <1>3. CASE do_exit BY <1>3, ExitStep
  <1>4. CASE kern_init BY <1>4, LetRunStep
  <1>5. CASE do_wait BY <1>5, ReapStep
  <1>6. CASE UNCHANGED tvars
    BY <1>6 DEF tvars, ThreadInv, ThreadTypeOK, ListSound, Starting, TurnOf, Reaping
  <1> QED BY <1>1, <1>2, <1>3, <1>4, <1>5, <1>6 DEF ThreadNext

LEMMA TurnsFollow == ThreadInv => TurnsAreFair /\ (tpc = "end" => Finished)
  <1> SUFFICES ASSUME ThreadInv PROVE TurnsAreFair /\ (tpc = "end" => Finished) OBVIOUS
  <1> DEFINE n == Len(th_list)
  <1>1. ThreadTypeOK /\ ListSound /\ tpanic = FALSE BY DEF ThreadInv
  <1>2. n \in Nat /\ DOMAIN th_list = 1..n /\ th_list \in Seq(Tids) /\ runs \in [0..MAX_THREADS -> Nat]
    BY <1>1 DEF ThreadTypeOK
  <1>3. \A i \in 1..n : th_list[i] \in Tids /\ th_list[i] \in 0..MAX_THREADS /\ th_list[i] # idle BY <1>2, Listed
  <1>4. ASSUME NEW i \in 1..n, NEW j \in 1..n, i < j,
               state[th_list[i]] = PROC_RUNNABLE, state[th_list[j]] = PROC_RUNNABLE
        PROVE  runs[th_list[i]] - runs[th_list[j]] \in {0, 1}
    <2>1. CASE Starting BY <1>3, <2>1 DEF Starting
    <2>2. ASSUME NEW k \in 1..n, TurnOf(k) PROVE runs[th_list[i]] - runs[th_list[j]] \in {0, 1}
      <3>1. current \in 0..MAX_THREADS BY <1>3, <2>2 DEF TurnOf
      <3>2. runs[current] \in Nat BY <1>2, <3>1
      <3>3. runs[th_list[i]] = IF i <= k THEN runs[current] ELSE runs[current] - 1 BY <1>4, <2>2 DEF TurnOf
      <3>4. runs[th_list[j]] = IF j <= k THEN runs[current] ELSE runs[current] - 1 BY <1>4, <2>2 DEF TurnOf
      <3> QED BY <1>2, <1>4, <3>2, <3>3, <3>4
    <2>3. CASE Reaping BY <1>3, <1>4, <2>3 DEF Reaping
    <2> QED BY <2>1, <2>2, <2>3 DEF ThreadInv
  <1>5. current = idle /\ tpc # "init" => runs[idle] = 0 \/ \A t \in Tids : state[t] # PROC_RUNNABLE
    <2>1. CASE Starting BY <2>1, ThreadsAssumption DEF Starting, idle
    <2>2. ASSUME NEW k \in 1..n, TurnOf(k) PROVE current # idle BY <1>3, <2>2 DEF TurnOf
    <2>3. CASE Reaping BY <2>3 DEF Reaping
    <2> QED BY <2>1, <2>2, <2>3 DEF ThreadInv
  <1>6. tpc = "end" => Finished
    <2> SUFFICES ASSUME tpc = "end" PROVE Finished OBVIOUS
    <2>1. n = 0 BY DEF ThreadInv, Starting, TurnOf, Reaping
    <2>2. th_list = <<>> BY <1>2, <2>1, EmptySeq
    <2>3. stacks = {} /\ th_nr_process = 1 BY <1>1, <2>1 DEF ListSound
    <2> QED BY <2>2, <2>3 DEF Finished
  <1> QED BY <1>1, <1>2, <1>4, <1>5, <1>6 DEF TurnsAreFair

\* Threads of the earlier kernel that give up the processor by calling schedule() get their
\* turns one after the other, however many there are and however often each yields; nobody
\* is woken twice, and when kern_init is over every thread has been reaped with its stack.
THEOREM ThreadsTakeTurns == ThreadSpec => [](TurnsAreFair /\ (tpc = "end" => Finished))
  <1>1. ThreadInit => ThreadInv BY ThreadsStart
  <1>2. ThreadInv /\ [ThreadNext]_tvars => ThreadInv' BY ThreadsGoOn
  <1>3. ThreadInv => TurnsAreFair /\ (tpc = "end" => Finished) BY TurnsFollow
  <1> QED BY <1>1, <1>2, <1>3, PTL DEF ThreadSpec
=============================================================================
