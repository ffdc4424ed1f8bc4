-------------------------------- MODULE Stdin --------------------------------
(* Keyboard input (kern/fs/devs/dev_stdin.c): the keyboard interrupt puts      *)
(* characters into a ring buffer, reading processes take them out and sleep in *)
(* a wait queue (kern/sync/wait.c) while it is empty; do_kill can end the      *)
(* sleep.                                                                      *)
(*                                                                             *)
(* The read loop runs with interrupts disabled and kernel code is not          *)
(* preempted, so an action is the loop up to the point where it returns or     *)
(* sleeps.  The k-th character typed is the number k.                          *)
EXTENDS Integers, Sequences

CONSTANTS Readers,
          STDIN_BUFSIZE,
          MAX_LEN,         \* bound on the length of a read
          MAX_KEYS         \* bound on the number of characters typed

ASSUME StdinAssumption ==
  /\ STDIN_BUFSIZE \in Nat \ {0} /\ MAX_LEN \in Nat \ {0} /\ MAX_KEYS \in Nat

VARIABLES stdin_buffer, p_rpos, p_wpos,
          wait_queue,
          pc,            \* user, asleep, woken (runnable again, still in the loop) or dead
          left,          \* characters a reader still wants, len - ret
          wakeup_flags,  \* of the reader's wait_t
          exiting,       \* readers with PF_EXITING
          typed,         \* number of characters typed
          delivered,     \* characters read, in the order in which they were
          overrun        \* has a character been typed into a full buffer?

stdinvars == <<stdin_buffer, p_rpos, p_wpos, wait_queue, pc, left, wakeup_flags, exiting,
               typed, delivered, overrun>>

Queued == {wait_queue[k] : k \in 1..Len(wait_queue)}

\* wait_current_del: unlink the wait_t of r from queue q if it is in it.
Without(q, r) ==
  IF \E k \in 1..Len(q) : q[k] = r
  THEN LET k == CHOOSE k \in 1..Len(q) : q[k] = r IN SubSeq(q, 1, k - 1) \o SubSeq(q, k + 1, Len(q))
  ELSE q

StdinInit ==
  /\ stdin_buffer = [k \in 0..STDIN_BUFSIZE-1 |-> 0]
  /\ p_rpos = 0 /\ p_wpos = 0
  /\ wait_queue = <<>>
  /\ pc = [r \in Readers |-> "user"]
  /\ left = [r \in Readers |-> 0]
  /\ wakeup_flags = [r \in Readers |-> "WT_INTERRUPTED"]
  /\ exiting = {}
  /\ typed = 0 /\ delivered = <<>> /\ overrun = FALSE

\* Faulty interrupt: wakes only the first waiter, and only when the buffer was
\* empty.
dev_stdin_write_WakesOne ==
  LET full == p_wpos - p_rpos >= STDIN_BUFSIZE
      woken == IF wait_queue # <<>> /\ p_wpos = p_rpos THEN {Head(wait_queue)} ELSE {} IN
  /\ typed < MAX_KEYS
  /\ typed' = typed + 1
  /\ stdin_buffer' = [stdin_buffer EXCEPT ![p_wpos % STDIN_BUFSIZE] = typed + 1]
  /\ p_wpos' = IF full THEN p_wpos ELSE p_wpos + 1
  /\ overrun' = (overrun \/ full)
  /\ wakeup_flags' = [r \in Readers |-> IF r \in woken THEN "WT_KBD" ELSE wakeup_flags[r]]
  /\ pc' = [r \in Readers |-> IF r \in woken THEN "woken" ELSE pc[r]]
  /\ wait_queue' = IF woken = {} THEN wait_queue ELSE Tail(wait_queue)
  /\ UNCHANGED <<p_rpos, left, exiting, delivered>>

\* The keyboard interrupt: store the character, in the slot of the oldest one if
\* the buffer is full, and wake all waiters.
dev_stdin_write ==
  LET full == p_wpos - p_rpos >= STDIN_BUFSIZE IN
  /\ typed < MAX_KEYS
  /\ typed' = typed + 1
  /\ stdin_buffer' = [stdin_buffer EXCEPT ![p_wpos % STDIN_BUFSIZE] = typed + 1]
  /\ p_wpos' = IF full THEN p_wpos ELSE p_wpos + 1
  /\ overrun' = (overrun \/ full)
  /\ wakeup_flags' = [r \in Readers |-> IF r \in Queued THEN "WT_KBD" ELSE wakeup_flags[r]]
  /\ pc' = [r \in Readers |-> IF r \in Queued THEN "woken" ELSE pc[r]]
  /\ wait_queue' = <<>>
  /\ UNCHANGED <<p_rpos, left, exiting, delivered>>

\* Back in trap(): a killed process exits.
Return(r) == pc' = [pc EXCEPT ![r] = IF r \in exiting THEN "dead" ELSE "user"]

\* The loop for len more characters, with wait queue q: take what is there, then
\* return if that is enough, else sleep.
ReadLoop(r, len, q) ==
  LET there == p_wpos - p_rpos
      n     == IF len < there THEN len ELSE there
  IN  /\ delivered' = delivered \o
                        [k \in 1..n |-> stdin_buffer[(p_rpos + k - 1) % STDIN_BUFSIZE]]
      /\ p_rpos' = p_rpos + n
      /\ left' = [left EXCEPT ![r] = len - n]
      /\ IF n = len
         THEN /\ Return(r)
              /\ wait_queue' = q
              /\ UNCHANGED wakeup_flags
         ELSE /\ pc' = [pc EXCEPT ![r] = "asleep"]
              /\ wait_queue' = Append(q, r)
              /\ wakeup_flags' = [wakeup_flags EXCEPT ![r] = "WT_INTERRUPTED"]
      /\ UNCHANGED <<stdin_buffer, p_wpos, exiting, typed, overrun>>

\* read() on stdin.
dev_stdin_read(r) ==
  /\ pc[r] = "user"
  /\ \E len \in 1..MAX_LEN : ReadLoop(r, len, wait_queue)

\* Faulty continuation: tries again whatever woke it up.
ReadWakes_TriesAgain(r) ==
  /\ pc[r] = "woken"
  /\ ReadLoop(r, left[r], Without(wait_queue, r))

\* After schedule(): leave the queue; if a character was the reason for waking
\* up try again, else the read is over.
ReadWakes(r) ==
  /\ pc[r] = "woken"
  /\ IF wakeup_flags[r] = "WT_KBD"
     THEN ReadLoop(r, left[r], Without(wait_queue, r))
     ELSE /\ Return(r)
          /\ wait_queue' = Without(wait_queue, r)
          /\ UNCHANGED <<stdin_buffer, p_rpos, p_wpos, left, wakeup_flags, exiting,
                         typed, delivered, overrun>>

\* do_kill by some other process: WT_KBD is an interruptible sleep.
do_kill(r) ==
  /\ pc[r] # "dead" /\ r \notin exiting
  /\ exiting' = exiting \cup {r}
  /\ pc' = [pc EXCEPT ![r] = IF @ = "asleep" THEN "woken" ELSE @]
  /\ UNCHANGED <<stdin_buffer, p_rpos, p_wpos, wait_queue, left, wakeup_flags, typed,
                 delivered, overrun>>

\* A process killed in user mode exits at its next trap.
TrapExit(r) ==
  /\ pc[r] = "user" /\ r \in exiting
  /\ pc' = [pc EXCEPT ![r] = "dead"]
  /\ UNCHANGED <<stdin_buffer, p_rpos, p_wpos, wait_queue, left, wakeup_flags, exiting,
                 typed, delivered, overrun>>

StdinNext ==
  \/ dev_stdin_write
  \/ \E r \in Readers : dev_stdin_read(r) \/ ReadWakes(r) \/ do_kill(r) \/ TrapExit(r)

StdinSpec == StdinInit /\ [][StdinNext]_stdinvars

-----------------------------------------------------------------------------
StdinTypeOK ==
  /\ stdin_buffer \in [0..STDIN_BUFSIZE-1 -> 0..MAX_KEYS]
  /\ p_rpos \in 0..MAX_KEYS /\ p_wpos \in 0..MAX_KEYS
  /\ wait_queue \in Seq(Readers)
  /\ pc \in [Readers -> {"user", "asleep", "woken", "dead"}]
  /\ left \in [Readers -> 0..MAX_LEN]
  /\ wakeup_flags \in [Readers -> {"WT_INTERRUPTED", "WT_KBD"}]
  /\ exiting \subseteq Readers
  /\ typed \in 0..MAX_KEYS
  /\ delivered \in Seq(0..MAX_KEYS)
  /\ overrun \in BOOLEAN

\* The two positions never get further apart than the ring, and what is between
\* them is what is in the ring.
RingBounded == p_rpos <= p_wpos /\ p_wpos - p_rpos <= STDIN_BUFSIZE

\* No lost wakeup: while there is input, nobody sleeps for it.
NobodySleepsOnInput == p_rpos < p_wpos => \A r \in Readers : pc[r] # "asleep"

\* Wait queue entries are on the stacks of the waiters: whoever is linked is
\* still in the read loop, and is linked once; whoever sleeps is linked.
QueueIsSound ==
  /\ \A r \in Readers : pc[r] = "asleep" => r \in Queued
  /\ \A r \in Queued : pc[r] \in {"asleep", "woken"}
  /\ \A j, k \in 1..Len(wait_queue) : wait_queue[j] = wait_queue[k] => j = k

\* As long as the buffer has not been overrun, the readers together get every
\* character once and in the order typed.
InOrder == ~overrun => \A k \in 1..Len(delivered) : delivered[k] = k

\* The readers of stdin (dev_stdin.c) together get every character once and in the order
\* typed, as long as the ring has not been overrun; no wakeup is lost: while there is
\* input, nobody sleeps for it; and nobody's wait_t stays linked once it has returned.
InputIsDelivered == RingBounded /\ NobodySleepsOnInput /\ QueueIsSound /\ InOrder

\* A killed and woken reader dies unless another character is typed before it gets the
\* CPU; a character overwrites the reason for which it was woken (dev_stdin.c).
KilledReaderDies ==
  \A r \in Readers :
    r \in exiting /\ pc[r] = "woken" /\ wakeup_flags[r] = "WT_INTERRUPTED"
      ~> pc[r] = "dead" \/ wakeup_flags[r] = "WT_KBD"
=============================================================================
