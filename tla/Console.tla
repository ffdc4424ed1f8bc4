------------------------------- MODULE Console -------------------------------
(* The console (kern/driver/console.c) and who uses it: the keyboard's scan    *)
(* codes become characters, which go with those of the serial port through a   *)
(* ring to dev_stdin or, after a panic, to the line editor of the kernel       *)
(* monitor (kern/libs/readline.c, kern/debug/kmonitor.c and panic.c), whose    *)
(* echo appears on the screen.  Scan codes and tables are those of the code,   *)
(* restricted to the keys that are modelled.                                   *)
EXTENDS Integers, Sequences, SequencesExt, TLC

CONSTANTS CONSBUFSIZE, CRT_ROWS, CRT_COLS, BUFSIZE,
          Budgets,       \* bounds of a behaviour: its keys, how often they are pressed, the serial
                         \* and screen characters, and whether the kernel may panic
          PENDING        \* bound on the bytes on their way from the keyboard

VARIABLES
  held,            \* keys that are down
  dib, com,        \* bytes on their way from the keyboard and in the serial port
  irq,             \* an interrupt is requested
  shift,
  cons,            \* the ring: buf, rpos, wpos
  is_panic,        \* the monitor polls the console, interrupts are disabled
  buf,             \* of readline
  crt_buf, crt_pos,
  budget,
  due, overrun,    \* characters that the ring should hold; has it held too many?
  passed,          \* the last character taken, and the one due
  decoded, meant,  \* characters decoded from the keyboard, and those that were typed
  twice            \* two keys of the same modifier have been down at once

convars == <<held, dib, com, irq, shift, cons, is_panic, buf, crt_buf, crt_pos,
             budget, due, overrun, passed, decoded, meant, twice>>

NO == "NO"
CRT_SIZE == CRT_ROWS * CRT_COLS

-----------------------------------------------------------------------------
\* shiftcode, togglecode, and the three tables of charcode.
shiftcode == (29 :> "CTL") @@ (42 :> "SHIFT") @@ (54 :> "SHIFT") @@ (56 :> "ALT") @@ (157 :> "CTL") @@ (184 :> "ALT")
togglecode == 58 :> "CAPSLOCK"
normalmap == (14 :> "BS") @@ (28 :> "NL") @@ (30 :> "a") @@ (55 :> "*") @@ (156 :> "NL") @@ (211 :> "DEL")
shiftmap == (14 :> "BS") @@ (28 :> "NL") @@ (30 :> "A") @@ (55 :> "*") @@ (156 :> "NL") @@ (211 :> "DEL")
ctlmap == (28 :> "CR") @@ (30 :> "^A") @@ (211 :> "DEL")
At(map, k) == IF k \in DOMAIN map THEN map[k] ELSE NO
charcode(s, k) == At(IF "CTL" \in s THEN ctlmap ELSE IF "SHIFT" \in s THEN shiftmap ELSE normalmap, k)
Swap(c) == CASE c = "a" -> "A" [] c = "A" -> "a" [] OTHER -> c

\* The code of a key that went down.
Code(s, data) == IF "E0ESC" \in s THEN data + 128 ELSE data

\* kbd_proc_data on one byte.
kbd_proc_data(st, data) ==
  IF data = 224 THEN [st EXCEPT !.shift = @ \cup {"E0ESC"}]
  ELSE IF data >= 128                                                     \* released
  THEN [st EXCEPT !.shift = @ \ {"E0ESC", At(shiftcode, IF "E0ESC" \in st.shift THEN data ELSE data % 128)}]
  ELSE LET k == Code(st.shift, data)
           s == SymDiff(((st.shift \ {"E0ESC"}) \cup {At(shiftcode, k)}) \ {NO}, {At(togglecode, k)} \ {NO})
           c == LET x == charcode(s, k) IN IF "CAPSLOCK" \in s THEN Swap(x) ELSE x
       IN  [shift |-> s, out |-> IF c = NO THEN st.out ELSE Append(st.out, c),
            reboot |-> st.reboot \/ ({"CTL", "ALT"} \subseteq s /\ c = "DEL")]

serial_proc_data(c) == IF c = "DEL127" THEN "BS" ELSE c

Wrap(p) == IF p = CONSBUFSIZE THEN 0 ELSE p

\* The loop of cons_intr for one character; nothing keeps it from filling the ring up.
cons_intr(r, c) == [r EXCEPT !.buf = (r.wpos :> c) @@ @, !.wpos = Wrap(@ + 1)]

\* What the first n bytes of the keyboard are decoded to.
Decoded(n) ==
  FoldLeft(LAMBDA st, byte : kbd_proc_data(st, byte), [shift |-> shift, out |-> <<>>, reboot |-> FALSE], SubSeq(dib, 1, n))

Oldest(chars) == IF chars = <<>> THEN NO ELSE Head(chars)

\* cons_getc: n bytes of the keyboard are there when it is polled, more may come later.
\* The serial port comes first; then the oldest character of the ring is taken.
cons_getc(n) ==
  \E kbd \in {Decoded(n)} :
    /\ ~kbd.reboot                        \* else the machine starts again
    /\ shift' = kbd.shift /\ decoded' = decoded \o kbd.out
    /\ dib' = SubSeq(dib, n + 1, Len(dib)) /\ com' = <<>>
    /\ \E new \in {[k \in DOMAIN com |-> serial_proc_data(com[k])] \o kbd.out} :
         \E ring \in {FoldLeft(cons_intr, cons, new)}, all \in {due \o new} :
           /\ overrun' = (overrun \/ Len(all) >= CONSBUFSIZE)
           /\ IF ring.rpos = ring.wpos THEN cons' = ring /\ due' = all /\ passed' = <<NO, Oldest(all)>>
              ELSE /\ cons' = [ring EXCEPT !.rpos = Wrap(@ + 1)]
                   /\ passed' = <<ring.buf[ring.rpos], Oldest(all)>>
                   /\ due' = IF all = <<>> THEN <<>> ELSE Tail(all)

-----------------------------------------------------------------------------
\* Faulty: the screen is moved up by one cell less than a row.
Scrolled_Short(scr) ==
  [b |-> [i \in 0..(CRT_SIZE - 1) |-> IF i < CRT_SIZE - CRT_COLS THEN scr.b[i + CRT_COLS - 1] ELSE " "], p |-> scr.p - CRT_COLS]

\* The screen moves up by one row.
Scrolled(scr) ==
  [b |-> [i \in 0..(CRT_SIZE - 1) |-> IF i < CRT_SIZE - CRT_COLS THEN scr.b[i + CRT_COLS] ELSE " "], p |-> scr.p - CRT_COLS]

cga_putc(scr, c) ==
  LET s == CASE c = "BS" -> IF scr.p > 0 THEN [b |-> [scr.b EXCEPT ![scr.p - 1] = " "], p |-> scr.p - 1] ELSE scr
             [] c = "NL" -> [scr EXCEPT !.p = (@ + CRT_COLS) - ((@ + CRT_COLS) % CRT_COLS)]
             [] c = "CR" -> [scr EXCEPT !.p = @ - (@ % CRT_COLS)]
             [] OTHER -> [b |-> [scr.b EXCEPT ![scr.p] = c], p |-> scr.p + 1]
  IN  IF s.p >= CRT_SIZE THEN Scrolled(s) ELSE s

cons_putc(cs) ==
  \E s \in {FoldLeft(cga_putc, [b |-> crt_buf, p |-> crt_pos], cs)} : crt_buf' = s.b /\ crt_pos' = s.p

Prompt == <<">">>
Message == <<"m", "NL">>

\* readline on the character just read, and runcmd and the next prompt when the line is
\* complete; no command of the monitor makes it return.
readline(c) ==
  CASE c \notin {"BS", "NL", "CR", "^A", NO} /\ Len(buf) < BUFSIZE - 1 -> buf' = Append(buf, c) /\ cons_putc(<<c>>)
    [] c = "BS" /\ Len(buf) > 0 -> buf' = SubSeq(buf, 1, Len(buf) - 1) /\ cons_putc(<<c>>)
    [] c \in {"NL", "CR"} -> buf' = <<>> /\ cons_putc(<<c>> \o (IF buf = <<>> THEN <<>> ELSE Message) \o Prompt)
    [] OTHER -> UNCHANGED <<buf, crt_buf, crt_pos>>

-----------------------------------------------------------------------------
\* The keys and the codes that they send: 224 before those of the extended keys; the
\* print key pretends that a shift key goes down with it.
Make ==
  [lshift |-> <<42>>, rshift |-> <<54>>, lctl |-> <<29>>, rctl |-> <<224, 29>>, ralt |-> <<224, 56>>, caps |-> <<58>>,
   a |-> <<30>>, enter |-> <<28>>, bs |-> <<14>>, del |-> <<224, 83>>, print |-> <<224, 42, 224, 55>>]
Break(k) == [i \in DOMAIN Make[k] |-> IF Make[k][i] = 224 THEN 224 ELSE Make[k][i] + 128]
Modifier == [lshift |-> "SHIFT", rshift |-> "SHIFT", lctl |-> "CTL", rctl |-> "CTL", ralt |-> "ALT"]
Down(f) == \E k \in held \cap DOMAIN Modifier : Modifier[k] = f

\* What somebody who presses a key means by it.
Means(k, caps) ==
  CASE k = "a" -> IF Down("CTL") THEN <<"^A">> ELSE IF Down("SHIFT") # caps THEN <<"A">> ELSE <<"a">>
    [] k = "enter" -> IF Down("CTL") THEN <<"CR">> ELSE <<"NL">>
    [] k = "bs" -> IF Down("CTL") THEN <<>> ELSE <<"BS">>
    [] k = "del" -> <<"DEL">>
    [] OTHER -> <<>>

press(k) ==
  /\ budget.presses > 0 /\ k \in budget.keys \ held /\ Len(dib) <= PENDING
  /\ budget' = [budget EXCEPT !.presses = @ - 1]
  /\ held' = held \cup {k} /\ dib' = dib \o Make[k] /\ irq' = TRUE
  /\ meant' = [meant EXCEPT !.caps = (@ # (k = "caps")), !.text = @ \o Means(k, meant.caps)]
  /\ twice' = (twice \/ (k \in DOMAIN Modifier /\ Down(Modifier[k])))
  /\ UNCHANGED <<com, shift, cons, is_panic, buf, crt_buf, crt_pos, due, overrun, passed, decoded>>

release(k) ==
  /\ k \in held /\ Len(dib) <= PENDING
  /\ held' = held \ {k} /\ dib' = dib \o Break(k) /\ irq' = TRUE
  /\ UNCHANGED <<com, shift, cons, is_panic, buf, crt_buf, crt_pos, budget, due, overrun, passed, decoded, meant, twice>>

serial_receive(c) ==
  /\ budget.chars > 0 /\ com = <<>>
  /\ budget' = [budget EXCEPT !.chars = @ - 1]
  /\ com' = <<c>> /\ irq' = TRUE
  /\ UNCHANGED <<held, dib, shift, cons, is_panic, buf, crt_buf, crt_pos, due, overrun, passed, decoded, meant, twice>>

\* IRQ_KBD and IRQ_COM1 in trap_dispatch: one character for dev_stdin_write.  Bytes that
\* come during the handler request one more interrupt.
trap_dispatch ==
  /\ irq /\ ~is_panic
  /\ \E n \in 0..Len(dib) : cons_getc(n)
  /\ irq' = (Len(dib) > 1)
  /\ UNCHANGED <<held, is_panic, buf, crt_buf, crt_pos, budget, meant, twice>>

\* A process writes to the console.
cputchar(c) ==
  /\ ~is_panic /\ budget.chars > 0
  /\ budget' = [budget EXCEPT !.chars = @ - 1]
  /\ cons_putc(<<c>>)
  /\ UNCHANGED <<held, dib, com, irq, shift, cons, is_panic, buf, due, overrun, passed, decoded, meant, twice>>

panic ==
  /\ ~is_panic /\ budget.panic /\ is_panic' = TRUE
  /\ cons_putc(Message \o Prompt)
  /\ UNCHANGED <<held, dib, com, irq, shift, cons, buf, budget, due, overrun, passed, decoded, meant, twice>>

\* kmonitor: getchar polls until there is a character.
kmonitor ==
  /\ is_panic
  /\ \E n \in 0..Len(dib) : cons_getc(n)
  /\ readline(passed'[1])
  /\ UNCHANGED <<held, irq, is_panic, budget, meant, twice>>

Init ==
  /\ held = {} /\ dib = <<>> /\ com = <<>> /\ irq = FALSE /\ shift = {}
  /\ cons = [buf |-> <<>>, rpos |-> 0, wpos |-> 0]
  /\ is_panic = FALSE /\ buf = <<>>
  /\ crt_buf = [i \in 0..(CRT_SIZE - 1) |-> " "] /\ crt_pos = 0
  /\ budget \in Budgets
  /\ due = <<>> /\ overrun = FALSE /\ passed = <<NO, NO>>
  /\ decoded = <<>> /\ meant = [caps |-> FALSE, text |-> <<>>] /\ twice = FALSE

Next ==
  \/ \E k \in DOMAIN Make : press(k) \/ release(k)
  \/ \E c \in {"a", "b", "DEL127", "CR"} : serial_receive(c)
  \/ \E c \in {"x", "NL"} : cputchar(c)
  \/ trap_dispatch \/ panic \/ kmonitor

Spec == Init /\ [][Next]_convars

-----------------------------------------------------------------------------
\* The keyboard says what was typed: the characters decoded are those meant, in order,
\* with shift, control and caps lock as they were when the key went down (unless two
\* keys of one modifier were down together: releasing either ends it for both); and no
\* modifier stays on in shift once its keys are up and their codes read, not even the
\* one that the print key sends.
KeysAreDecoded ==
  /\ ~twice => IsPrefix(decoded, meant.text)
  /\ dib = <<>> => \A f \in shift \ {"CAPSLOCK"} : Down(f)

\* The ring passes every character on once and in order, to dev_stdin or the monitor, as
\* long as there were never CONSBUFSIZE characters in it.
RingKeepsOrder == ~overrun => passed[1] = passed[2]

\* The monitor's line is what one sees: the characters before the cursor are those in
\* the buffer, whatever wrapped at the end of a row, scrolled, or was rubbed out.
LineIsOnScreen ==
  is_panic => /\ crt_pos \in Len(buf)..(CRT_SIZE - 1)
              /\ \A i \in 1..Len(buf) : crt_buf[crt_pos - Len(buf) + i - 1] = buf[i]
=============================================================================
