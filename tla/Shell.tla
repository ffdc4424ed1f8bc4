-------------------------------- MODULE Shell --------------------------------
(* The shell (user/sh.c): a line is edited, cut into tokens in place, and run  *)
(* by forked copies of the shell, which share nothing with it but the files    *)
(* that were open.  Only the innermost process runs, the others wait for it.   *)
(* A program starts in umain (user/libs/umain.c), which opens its descriptors  *)
(* 0 and 1 again.  Pipes are left out: the call of pipe() is commented out in  *)
(* the code.                                                                   *)
EXTENDS Integers, Sequences, SequencesExt, FiniteSets

CONSTANTS Typed,               \* what may be typed before the second line
          Files,               \* names (sequences of characters) of files, which are programs
                               \* too; none has a blank or a symbol in it
          BUFSIZE, EXEC_MAX_ARG_NUM

VARIABLES
  keys,          \* lines still to be typed
  line,          \* the line being run
  procs,         \* the shell and its forked copies, the innermost last
  log,           \* the programs that ran: argv, and what descriptors 0 and 1 were
  intact,        \* the files that have not been emptied
  had,           \* intact, when the line was read
  panicked

shvars == <<keys, line, procs, log, intact, had, panicked>>

White == {" "}
Symbols == {"<", ">", ";", "&"}
NUL == "NUL"
Stdin == <<"stdin:">>
Stdout == <<"stdout:">>
Script == <<"script">>         \* a file of commands that the shell was given
Closed == <<"closed">>
NOWHERE == 0
MinOf(S) == CHOOSE x \in S : \A y \in S : x <= y

-----------------------------------------------------------------------------
\* readline: NUL is what an interrupted line (control-C) becomes.
readline(typed) ==
  LET end == {i \in DOMAIN typed : typed[i] = "^C"}
      Key(b, c) == IF c = "BS" THEN (IF b = <<>> THEN b ELSE SubSeq(b, 1, Len(b) - 1))
                   ELSE IF Len(b) < BUFSIZE - 1 THEN Append(b, c) ELSE b
  IN  IF end = {} THEN FoldLeft(Key, <<>>, typed) ELSE <<NUL>>

\* The string that begins at t.
String(s, t) == SubSeq(s, t, MinOf({i \in t..Len(s) : s[i] = NUL}) - 1)

\* Faulty: blanks are passed over and stay where they are.
Cut_Keeps(s, from, to) == s

\* The characters from..to-1 are overwritten.
Cut(s, from, to) == [i \in DOMAIN s |-> IF i \in from..(to - 1) THEN NUL ELSE s[i]]

Quotes(s, from, to) == Cardinality({i \in from..(to - 1) : s[i] = "\""})

\* gettoken: the kind of the next token ("end" behind the last), where it begins, the line with
\* the separators before it overwritten, and where to go on.  The character behind a
\* word is overwritten only by the next call.
gettoken(s, p1) ==
  LET b == MinOf({i \in p1..Len(s) : s[i] \notin White})
      s1 == Cut(s, p1, b)
      word == MinOf({i \in b..Len(s) : s[i] = NUL \/ (s[i] \in White \cup Symbols /\ Quotes(s, b, i) % 2 = 0)})
      Next(e) == IF s[e] = NUL THEN NOWHERE ELSE e
  IN  IF p1 = NOWHERE THEN [token |-> "end", t |-> 0, s |-> s, p1 |-> NOWHERE]
      ELSE IF s[b] = NUL THEN [token |-> "end", t |-> 0, s |-> s1, p1 |-> p1]
      ELSE IF s[b] \in Symbols THEN [token |-> s[b], t |-> b, s |-> Cut(s1, b, b + 1), p1 |-> Next(b + 1)]
      ELSE [token |-> "w", t |-> b, p1 |-> Next(word),
            s |-> [i \in DOMAIN s1 |-> IF i \in b..(word - 1) /\ s1[i] = "\"" THEN " " ELSE s1[i]]]

\* reopen: close, and open, which takes the lowest free descriptor.
reopen(fds, fd2, name) ==
  LET fd1 == MinOf({k \in 0..2 : k = fd2 \/ fds[k] = Closed})
      closed == [fds EXCEPT ![fd2] = Closed]
  IN  IF fd1 = fd2 THEN [closed EXCEPT ![fd2] = name] ELSE [closed EXCEPT ![fd2] = name, ![fd1] = Closed]

\* initfd of a program: it opens the device before it closes what was there.
initfd(fds, fd2, path) ==
  LET fd1 == MinOf({k \in 0..2 : fds[k] = Closed})
      opened == [fds EXCEPT ![fd1] = path]
  IN  IF fd1 = fd2 THEN opened ELSE [opened EXCEPT ![fd2] = opened[fd1], ![fd1] = Closed]

\* umain, after exec has closed all descriptors but 0 and 1.
umain(fds) == initfd(initfd([fds EXCEPT ![2] = Closed], 0, Stdin), 1, Stdout)

-----------------------------------------------------------------------------
Me == procs[Len(procs)]
Become(p) == procs' = [procs EXCEPT ![Len(procs)] = p]
Exit == procs' = SubSeq(procs, 1, Len(procs) - 1)
Run(pc) == ~panicked /\ procs # <<>> /\ Me.pc = pc

\* main: read a line and fork; the copy runs it.
main ==
  /\ Run("main") /\ keys # <<>> /\ keys' = Tail(keys)
  /\ LET l == readline(Head(keys))
     IN  IF l = <<NUL>> THEN Exit /\ line' = <<>>
         ELSE /\ line' = l
              /\ procs' = Append(procs, [pc |-> "runcmd", s |-> Append(l, NUL), p1 |-> 1, argv |-> <<>>, fds |-> Me.fds])
  /\ log' = <<>> /\ had' = intact /\ UNCHANGED <<intact, panicked>>

\* readline returns NULL at the end of a file of commands.
main_end ==
  /\ Run("main") /\ keys = <<>> /\ Me.fds[0] = Script
  /\ Exit /\ UNCHANGED <<keys, line, log, intact, had, panicked>>

\* runcmd, case 'w'.
runcmd_word ==
  LET g == gettoken(Me.s, Me.p1)
  IN  /\ Run("runcmd") /\ g.token = "w"
      /\ IF Len(Me.argv) = EXEC_MAX_ARG_NUM THEN Exit
         ELSE Become([Me EXCEPT !.s = g.s, !.p1 = g.p1, !.argv = Append(@, g.t)])
      /\ UNCHANGED <<keys, line, log, intact, had, panicked>>

\* Cases '<' and '>': the next token names the file.  '>' opens it with O_TRUNC and O_CREAT:
\* it is emptied, and one that is not there ends in a panic of the kernel.
runcmd_redirect ==
  LET g == gettoken(Me.s, Me.p1)
      h == gettoken(g.s, g.p1)
      name == String(h.s, h.t)
  IN  /\ Run("runcmd") /\ g.token \in {"<", ">"}
      /\ IF h.token # "w" THEN Exit /\ UNCHANGED <<intact, panicked>>
         ELSE IF name \in Files
         THEN /\ Become([Me EXCEPT !.s = h.s, !.p1 = h.p1, !.fds = reopen(@, IF g.token = "<" THEN 0 ELSE 1, name)])
              /\ intact' = IF g.token = ">" THEN intact \ {name} ELSE intact
              /\ UNCHANGED panicked
         ELSE IF g.token = "<" THEN Exit /\ UNCHANGED <<intact, panicked>>
         ELSE panicked' = TRUE /\ UNCHANGED <<procs, intact>>
      /\ UNCHANGED <<keys, line, log, had>>

\* Case ';': a copy runs the command so far, and after waitpid the rest of the line.
runcmd_semicolon ==
  LET g == gettoken(Me.s, Me.p1)
      me == [Me EXCEPT !.s = g.s, !.p1 = g.p1]
  IN  /\ Run("runcmd") /\ g.token = ";"
      /\ procs' = Append([procs EXCEPT ![Len(procs)] = [me EXCEPT !.argv = <<>>]], [me EXCEPT !.pc = "runit"])
      /\ UNCHANGED <<keys, line, log, intact, had, panicked>>

runcmd_other ==
  LET g == gettoken(Me.s, Me.p1)
  IN  /\ Run("runcmd") /\ g.token \in {"end", "&"}
      /\ IF g.token = "end" THEN Become([Me EXCEPT !.s = g.s, !.p1 = g.p1, !.pc = "runit"]) ELSE Exit
      /\ UNCHANGED <<keys, line, log, intact, had, panicked>>

\* runit: cd changes a variable of the copy, which ends.  testfile finds a file that was
\* emptied, but load_icode fails and the copy ends in exec; a program that is not there is
\* not found under /name either.
Builtin == <<"c", "d">>
runit ==
  LET argv == [k \in DOMAIN Me.argv |-> String(Me.s, Me.argv[k])]
      fds == umain(Me.fds)
      starts == argv # <<>> /\ argv[1] # Builtin /\ argv[1] \in intact
  IN  /\ Run("runit") /\ Exit
      /\ log' = IF starts THEN Append(log, <<argv, fds[0], fds[1]>>) ELSE log
      /\ UNCHANGED <<keys, line, intact, had, panicked>>

\* What umain gave the shell itself, and the file of commands if main got one.
StdFds == [k \in 0..2 |-> IF k = 0 THEN Stdin ELSE IF k = 1 THEN Stdout ELSE Closed]
MainFds == {StdFds, reopen(StdFds, 0, Script)}

Init ==
  /\ \E t \in Typed : keys = <<t, <<"a">>>>
  /\ \E fds \in MainFds :
       procs = <<[pc |-> "main", s |-> <<NUL>>, p1 |-> NOWHERE, argv |-> <<>>, fds |-> fds]>>
  /\ line = <<>> /\ log = <<>> /\ panicked = FALSE
  /\ intact = Files /\ had = Files

Next ==
  \/ main \/ main_end \/ runcmd_word \/ runcmd_redirect \/ runcmd_semicolon \/ runcmd_other
  \/ runit

Spec == Init /\ [][Next]_shvars

-----------------------------------------------------------------------------
\* The tokens of a line, as intervals: the maximal runs of characters that are neither
\* blank nor symbol or stand in quotes, and the symbols.
InWord(i) == line[i] \notin White \cup Symbols \/ Quotes(line, 1, i) % 2 = 1
Tokens ==
  {<<b, e>> \in (DOMAIN line) \X (DOMAIN line) :
     \/ /\ b <= e /\ \A i \in b..e : InWord(i)
        /\ b > 1 => ~InWord(b - 1)
        /\ e < Len(line) => ~InWord(e + 1)
     \/ b = e /\ ~InWord(b) /\ line[b] \in Symbols}
Text(t) == [i \in 1..(t[2] - t[1] + 1) |-> IF line[t[1] + i - 1] = "\"" THEN " " ELSE line[t[1] + i - 1]]
IsWord(t) == InWord(t[1])
Before(t) == {u \in Tokens : u[2] < t[1]}
Redirected(t) ==                   \* the word after < or >
  IsWord(t) /\ \E u \in Before(t) : ~IsWord(u) /\ line[u[1]] \in {"<", ">"} /\ \A v \in Before(t) : v[1] <= u[1]

\* The commands of a line: the words between two semicolons.
Ends == {t[1] : t \in {u \in Tokens : ~IsWord(u) /\ line[u[1]] = ";"}} \cup {Len(line) + 1}
Words(from, to) == SetToSortSeq({t \in Tokens : IsWord(t) /\ ~Redirected(t) /\ t[1] > from /\ t[1] < to}, LAMBDA x, y : x[1] < y[1])
Argv(from, to) == [k \in DOMAIN Words(from, to) |-> Text(Words(from, to)[k])]
\* The words behind >, which are emptied.
Targets == {Text(t) : t \in {u \in Tokens : Redirected(u) /\ \E v \in Before(u) :
                                 line[v[1]] = ">" /\ \A w \in Before(u) : w[1] <= v[1]}}

\* A redirection counts only when it comes last: it empties its file before the last
\* command runs.
Commands ==
  LET ends == SetToSortSeq(Ends, LAMBDA x, y : x < y)
      From(k) == IF k = 1 THEN 0 ELSE ends[k - 1]
      there(k) == IF k = Len(ends) THEN had \ Targets ELSE had
      runs(k) == LET argv == Argv(From(k), ends[k])
                 IN  argv # <<>> /\ argv[1] # Builtin /\ argv[1] \in there(k)
      which == SelectSeq([k \in DOMAIN ends |-> k], runs)
  IN  [i \in DOMAIN which |-> <<Argv(From(which[i]), ends[which[i]]), Stdin, Stdout>>]

\* Lines that the shell is good for: a redirection comes last, with nothing behind the
\* name of its file, and its file is there; no command has too many arguments.
Plain ==
  /\ \A t \in Tokens : ~IsWord(t) /\ line[t[1]] # ";" =>
       /\ line[t[1]] \in {"<", ">"}
       /\ \E u \in Tokens : {v \in Tokens : v[1] > t[1]} = {u} /\ IsWord(u) /\ u[2] = Len(line) /\ Text(u) \in Files
  /\ \A e \in Ends : Len(Words(IF \E x \in Ends : x < e THEN CHOOSE x \in Ends : x < e /\ \A y \in Ends : y < e => y <= x ELSE 0, e)) <= EXEC_MAX_ARG_NUM

\* The programs that run are those of the line, in order, each with its own words as
\* arguments and with the console (umain undoes a redirection), and none that was not
\* asked for, whatever an earlier line or command did; the files emptied are words behind
\* ">", and only a line with ">" makes the kernel panic.  A plain line runs completely, but
\* for programs that were emptied, and its redirection is done.  (The shell opens the rest
\* of the line, not the name, when a redirection is not the last thing.)
RunsWhatWasTyped ==
  procs # <<>> /\ line # <<>> =>
    /\ IsPrefix(log, Commands)
    /\ had \ intact \subseteq Targets
    /\ panicked => \E t \in Tokens : ~IsWord(t) /\ line[t[1]] = ">"
    /\ Plain => /\ ~panicked
                /\ Len(procs) = 1 => log = Commands /\ intact = had \ Targets
=============================================================================
