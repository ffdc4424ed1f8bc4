---------------------------- MODULE Traps_proof -----------------------------
(* Proof that the results of system calls reach their callers, whatever nested *)
(* traps come between (Traps).  The invariant speaks of one process at a time: *)
(* it is new, outside the kernel, in one trap, or in an interrupt or a page    *)
(* fault inside a call, and in each case tf and the saved otf form the chain   *)
(* that begins at the top of the kernel stack.  A step changes the record of   *)
(* the process that runs, and fork that of a child.                            *)
(* The second part proves that the boot loader and kern_init start the kernel  *)
(* in the right order (Boot).                                                  *)
EXTENDS Traps, Boot, SequenceTheorems, TLAPS

-----------------------------------------------------------------------------
StubNames == {"exit", "fork", "wait", "exec", "yield", "sleep", "kill", "gettime", "getpid", "putc", "pgdir", "open",
              "close", "read", "write", "seek", "fstat", "fsync", "getcwd", "getdirentry", "dup", "lab6_set_priority"}

\* A tuple of at most three different names.
Named(s) == /\ Len(s) \in 0..3 /\ DOMAIN s = 1..Len(s)
            /\ \A i, j \in 1..Len(s) : s[i] = s[j] => i = j

\* The stubs of the user library.
LEMMA StubDomain == DOMAIN stubs = StubNames
  BY DEF stubs, StubNames

\* The number that a stub passes is that of the function of the same name, which takes the
\* parameters in the order of the registers (user/libs/syscall.c, kern/syscall/syscall.c).
LEMMA TablesAgree ==
  ASSUME NEW c \in DOMAIN stubs
  PROVE  /\ stubs[c][1] \in DOMAIN syscalls
         /\ syscalls[stubs[c][1]] = << c, stubs[c][2] >>
  <1>1. CASE c = "exit" BY <1>1 DEF stubs, syscalls
  <1>2. CASE c = "fork" BY <1>2 DEF stubs, syscalls
  <1>3. CASE c = "wait" BY <1>3 DEF stubs, syscalls
  <1>4. CASE c = "exec" BY <1>4 DEF stubs, syscalls
  <1>5. CASE c = "yield" BY <1>5 DEF stubs, syscalls
  <1>6. CASE c = "sleep" BY <1>6 DEF stubs, syscalls
  <1>7. CASE c = "kill" BY <1>7 DEF stubs, syscalls
  <1>8. CASE c = "gettime" BY <1>8 DEF stubs, syscalls
  <1>9. CASE c = "getpid" BY <1>9 DEF stubs, syscalls
  <1>10. CASE c = "putc" BY <1>10 DEF stubs, syscalls
  <1>11. CASE c = "pgdir" BY <1>11 DEF stubs, syscalls
  <1>12. CASE c = "open" BY <1>12 DEF stubs, syscalls
  <1>13. CASE c = "close" BY <1>13 DEF stubs, syscalls
  <1>14. CASE c = "read" BY <1>14 DEF stubs, syscalls
  <1>15. CASE c = "write" BY <1>15 DEF stubs, syscalls
  <1>16. CASE c = "seek" BY <1>16 DEF stubs, syscalls
  <1>17. CASE c = "fstat" BY <1>17 DEF stubs, syscalls
  <1>18. CASE c = "fsync" BY <1>18 DEF stubs, syscalls
  <1>19. CASE c = "getcwd" BY <1>19 DEF stubs, syscalls
  <1>20. CASE c = "getdirentry" BY <1>20 DEF stubs, syscalls
  <1>21. CASE c = "dup" BY <1>21 DEF stubs, syscalls
  <1>22. CASE c = "lab6_set_priority" BY <1>22 DEF stubs, syscalls
  <1> QED BY StubDomain, <1>1, <1>2, <1>3, <1>4, <1>5, <1>6, <1>7, <1>8, <1>9, <1>10, <1>11, <1>12, <1>13, <1>14, <1>15, <1>16, <1>17, <1>18, <1>19, <1>20, <1>21, <1>22 DEF StubNames

\* The parameters of a stub have different names, one for each register in use.
LEMMA StubNamed ==
  ASSUME NEW c \in DOMAIN stubs
  PROVE  Named(stubs[c][2])
  <1>1. CASE c \in {"fork", "yield", "gettime", "getpid", "pgdir"}
    <2>1. stubs[c][2] = << >> BY <1>1 DEF stubs
    <2> QED BY <2>1 DEF Named
  <1>2. CASE c \in {"exit"}
    <2>1. stubs[c][2] = << "error_code" >> BY <1>2 DEF stubs
    <2> QED BY <2>1 DEF Named
  <1>3. CASE c \in {"wait"}
    <2>1. stubs[c][2] = << "pid", "store" >> BY <1>3 DEF stubs
    <2> QED BY <2>1 DEF Named
  <1>4. CASE c \in {"exec"}
    <2>1. stubs[c][2] = << "name", "argc", "argv" >> BY <1>4 DEF stubs
    <2> QED BY <2>1 DEF Named
  <1>5. CASE c \in {"sleep"}
    <2>1. stubs[c][2] = << "time" >> BY <1>5 DEF stubs
    <2> QED BY <2>1 DEF Named
  <1>6. CASE c \in {"kill"}
    <2>1. stubs[c][2] = << "pid" >> BY <1>6 DEF stubs
    <2> QED BY <2>1 DEF Named
  <1>7. CASE c \in {"putc"}
    <2>1. stubs[c][2] = << "c" >> BY <1>7 DEF stubs
    <2> QED BY <2>1 DEF Named
  <1>8. CASE c \in {"open"}
    <2>1. stubs[c][2] = << "path", "open_flags" >> BY <1>8 DEF stubs
    <2> QED BY <2>1 DEF Named
  <1>9. CASE c \in {"close", "fsync"}
    <2>1. stubs[c][2] = << "fd" >> BY <1>9 DEF stubs
    <2> QED BY <2>1 DEF Named
  <1>10. CASE c \in {"read", "write"}
    <2>1. stubs[c][2] = << "fd", "base", "len" >> BY <1>10 DEF stubs
    <2> QED BY <2>1 DEF Named
  <1>11. CASE c \in {"seek"}
    <2>1. stubs[c][2] = << "fd", "pos", "whence" >> BY <1>11 DEF stubs
    <2> QED BY <2>1 DEF Named
  <1>12. CASE c \in {"fstat"}
    <2>1. stubs[c][2] = << "fd", "stat" >> BY <1>12 DEF stubs
    <2> QED BY <2>1 DEF Named
  <1>13. CASE c \in {"getcwd"}
    <2>1. stubs[c][2] = << "buf", "len" >> BY <1>13 DEF stubs
    <2> QED BY <2>1 DEF Named
  <1>14. CASE c \in {"getdirentry"}
    <2>1. stubs[c][2] = << "fd", "direntp" >> BY <1>14 DEF stubs
    <2> QED BY <2>1 DEF Named
  <1>15. CASE c \in {"dup"}
    <2>1. stubs[c][2] = << "fd1", "fd2" >> BY <1>15 DEF stubs
    <2> QED BY <2>1 DEF Named
  <1>16. CASE c \in {"lab6_set_priority"}
    <2>1. stubs[c][2] = << "priority" >> BY <1>16 DEF stubs
    <2> QED BY <2>1 DEF Named
  <1> QED BY StubDomain, <1>1, <1>2, <1>3, <1>4, <1>5, <1>6, <1>7, <1>8, <1>9, <1>10, <1>11, <1>12, <1>13, <1>14, <1>15, <1>16 DEF StubNames

\* syscall() calls the function that the program meant, each argument in its place.
LEMMA CallIsMeant ==
  ASSUME NEW c \in DOMAIN stubs, NEW f, f.eax = stubs[c][1], f.regs = user_syscall(c).regs
  PROVE  Called(f) = Meant(c)
  <1> DEFINE s == stubs[c][2]
             N == {s[i] : i \in DOMAIN s}
             at(n) == CHOOSE i \in DOMAIN s : s[i] = n
  <1>1. Named(s) BY StubNamed
  <1>2. syscalls[f.eax] = <<c, s>> BY TablesAgree
  <1>3. Called(f) = <<c, [n \in N |-> arg(f.regs, at(n))]>> BY <1>2 DEF Called
  <1>4. ASSUME NEW n \in N PROVE arg(f.regs, at(n)) = n
    <2>1. at(n) \in DOMAIN s /\ s[at(n)] = n OBVIOUS
    <2> DEFINE k == at(n)
    <2>2. k \in 1..3 /\ k <= Len(s) BY <2>1, <1>1 DEF Named
    <2> HIDE DEF k
    <2>3. Registers[k] \in {"edx", "ecx", "ebx"} BY <2>2 DEF Registers
    <2>4. \A j \in 1..3 : Registers[j] = Registers[k] => j = k BY <2>2 DEF Registers
    <2>5. (CHOOSE j \in 1..3 : Registers[j] = Registers[k]) = k BY <2>2, <2>4
    <2> DEFINE index(r) == CHOOSE j \in 1..3 : Registers[j] = r
               held(r) == IF index(r) <= Len(s) THEN s[index(r)] ELSE "any"
    <2>6. f.regs = [r \in {"edx", "ecx", "ebx"} |-> held(r)] BY DEF user_syscall
    <2>7. f.regs[Registers[k]] = held(Registers[k])
      <3> HIDE DEF held
      <3> QED BY <2>3, <2>6
    <2>8. held(Registers[k]) = s[k] BY <2>2, <2>5
    <2> QED BY <2>1, <2>7, <2>8 DEF arg, k
  <1>5. Meant(c) = <<c, [n \in N |-> n]>> BY DEF Meant
  <1> HIDE DEF N, at
  <1> QED BY <1>3, <1>4, <1>5
-----------------------------------------------------------------------------
ProcFields == {"state", "own", "frames", "tf", "asked", "got"}
FrameFields == {"kind", "eax", "regs", "user", "otf", "in_kernel", "stage", "tf"}

\* What the program has found in eax, if anything, answers what it asked for.
Answered(P) == P.got # None => P.got \in Answers(P.asked)

\* The frame f of the call that a process is in: until the function has run it holds the
\* call as the stub made it, afterwards the answer.
CallFrame(P, f) ==
  /\ f.kind = "syscall" /\ f.otf = 1 /\ P.got = None
  /\ \/ /\ f.stage \in {"entered", "running"}
        /\ f.stage = "running" => f.tf = P.own + 1
        /\ \E c \in DOMAIN stubs :
             /\ P.asked = <<c>> /\ f.eax = stubs[c][1] /\ f.regs = user_syscall(c).regs
             /\ \/ f.in_kernel = FALSE /\ f.user = TRUE /\ P.state = "user"
                \/ f.in_kernel = TRUE /\ P.state = "kernel" /\ c = "exec"
     \/ /\ f.stage \in {"done", "restored"}
        /\ P.state = "user" /\ f.user = TRUE /\ f.eax \in Answers(P.asked)

\* The frame f of an interrupt or of a page fault; outer is what current->tf led to.
InnerFrame(f, outer) ==
  /\ f.kind \in {"irq", "fault"} /\ f.stage \in {"entered", "restored"} /\ f.otf = outer

\* Where current->tf leads to while f, at address k, is the innermost frame.
LeadsTo(f, k) == IF f.stage = "restored" THEN f.otf ELSE k

\* The program, or a kernel thread before its first program.
InUser(P) == P.state = "user" /\ P.own = 0 /\ Answered(P)
InThread(P) == P.state = "kernel" /\ P.own = 1 /\ P.got = None

Fields(P) ==
  /\ DOMAIN P = ProcFields /\ P.own \in {0, 1}
  /\ \A k \in DOMAIN P.frames : DOMAIN P.frames[k] = FrameFields

\* A process that has not run yet: its frame is that of a call of fork or of kernel_thread.
NewFrame(P, f) ==
  /\ P.state = "new" /\ P.own = 0 /\ P.tf = 1 /\ P.got = None /\ f.stage = "copied"
  /\ \/ f.kind = "syscall" /\ f.user = TRUE /\ f.eax \in Answers(P.asked)
     \/ f.kind = "thread" /\ f.user = FALSE

IsNew(P) ==
  LET f == P.frames[1] IN P.frames = <<f>> /\ NewFrame(P, f)

\* A process outside any trap, in a trap, or in a trap inside a call.
Outside(P) ==
  /\ P.frames = <<>>
  /\ \/ P.state = "free"
     \/ P.tf = 1 /\ (InUser(P) \/ InThread(P))

\* The frame of an interrupt or a page fault that no call surrounds.
OuterFrame(P, f) ==
  InnerFrame(f, 1) /\ ((InUser(P) /\ f.user = TRUE) \/ (InThread(P) /\ f.user = FALSE))

InTrap(P) ==
  LET f == P.frames[1] IN
  /\ P.frames = <<f>> /\ P.tf = LeadsTo(f, P.own + 1)
  /\ (CallFrame(P, f) \/ OuterFrame(P, f))

InNestedTrap(P) ==
  LET f == P.frames[1]
      g == P.frames[2]
  IN  /\ P.frames = <<f, g>> /\ P.tf = LeadsTo(g, P.own + 2)
      /\ CallFrame(P, f) /\ InnerFrame(g, LeadsTo(f, P.own + 1)) /\ g.user = FALSE

ProcOK(P) ==
  /\ Fields(P)
  /\ \/ Outside(P)
     \/ Len(P.frames) = 1 /\ (IsNew(P) \/ InTrap(P))
     \/ Len(P.frames) = 2 /\ InNestedTrap(P)

\* The inductive invariant.
TrapInv ==
  /\ current \in Procs /\ DOMAIN proc = Procs /\ panicked \in BOOLEAN
  /\ \A p \in Procs : ProcOK(proc[p])

-----------------------------------------------------------------------------
\* Sequences of at most two frames.
LEMMA Sequences12 ==
  /\ \A f : Append(<<>>, f) = <<f>>
  /\ \A f, g : Append(<<f>>, g) = <<f, g>>
  /\ \A f : SubSeq(<<f>>, 1, 0) = <<>>
  /\ \A f, g : SubSeq(<<f, g>>, 1, 1) = <<f>>
  /\ \A f : Len(<<f>>) = 1
  /\ \A f, g : Len(<<f, g>>) = 2
  <1>1. \A f : Append(<<>>, f) = <<f>> OBVIOUS
  <1>2. ASSUME NEW f, NEW g PROVE Append(<<f>>, g) = <<f, g>>
    <2> DEFINE s == <<f>>
               t == <<f, g>>
               S == {f, g}
    <2>1. s \in Seq(S) /\ t \in Seq(S) /\ Len(s) = 1 /\ Len(t) = 2 /\ s[1] = f /\ t[1] = f /\ t[2] = g /\ g \in S
      OBVIOUS
    <2> HIDE DEF s, t, S
    <2>a. Append(s, g) \in Seq(S) /\ Len(Append(s, g)) = Len(s) + 1 BY <2>1, AppendProperties
    <2>b. \A i \in 1..Len(s) : Append(s, g)[i] = s[i] BY <2>1, AppendProperties
    <2>c. Append(s, g)[Len(s) + 1] = g BY <2>1, AppendProperties
    <2>2. /\ Append(s, g) \in Seq(S) /\ Len(Append(s, g)) = 2 /\ Append(s, g)[1] = f /\ Append(s, g)[2] = g
      BY <2>1, <2>a, <2>b, <2>c
    <2>3. Append(s, g) = t BY <2>1, <2>2, SeqEqual
    <2> QED BY <2>3 DEF s, t
  <1>3. ASSUME NEW f PROVE SubSeq(<<f>>, 1, 0) = <<>> OBVIOUS
  <1>4. ASSUME NEW f, NEW g PROVE SubSeq(<<f, g>>, 1, 1) = <<f>>
    <2> DEFINE s == <<f>>
               t == <<f, g>>
               S == {f, g}
    <2>1. s \in Seq(S) /\ t \in Seq(S) /\ Len(s) = 1 /\ Len(t) = 2 /\ s[1] = f /\ t[1] = f
      OBVIOUS
    <2> HIDE DEF s, t, S
    <2>2. /\ SubSeq(t, 1, 1) \in Seq(S) /\ Len(SubSeq(t, 1, 1)) = 1 /\ SubSeq(t, 1, 1)[1] = f
      BY <2>1
    <2>3. SubSeq(t, 1, 1) = s BY <2>1, <2>2, SeqEqual
    <2> QED BY <2>3 DEF s, t
  <1>5. \A f : Len(<<f>>) = 1 OBVIOUS
  <1>6. \A f, g : Len(<<f, g>>) = 2 OBVIOUS
  <1> QED BY <1>1, <1>2, <1>3, <1>4, <1>5, <1>6

\* The shapes of a process.
LEMMA ZeroOK ==
  ASSUME NEW P, DOMAIN P = ProcFields, P.own \in {0, 1}, Outside(P)
  PROVE  ProcOK(P)
  BY DEF ProcOK, Fields, Outside

LEMMA NewOK ==
  ASSUME NEW P, DOMAIN P = ProcFields, NEW f, DOMAIN f = FrameFields, P.frames = <<f>>, NewFrame(P, f)
  PROVE  ProcOK(P)
  <1>1. P.frames[1] = f /\ Len(P.frames) = 1 /\ DOMAIN P.frames = {1} OBVIOUS
  <1>2. Fields(P) BY <1>1 DEF Fields, NewFrame
  <1>3. IsNew(P) BY <1>1 DEF IsNew
  <1> QED BY <1>1, <1>2, <1>3 DEF ProcOK

LEMMA OneOK ==
  ASSUME NEW P, DOMAIN P = ProcFields, P.own \in {0, 1}, NEW f, DOMAIN f = FrameFields, P.frames = <<f>>,
         P.tf = LeadsTo(f, P.own + 1), CallFrame(P, f) \/ OuterFrame(P, f)
  PROVE  ProcOK(P)
  <1>1. P.frames[1] = f /\ Len(P.frames) = 1 /\ DOMAIN P.frames = {1} OBVIOUS
  <1>2. Fields(P) BY <1>1 DEF Fields
  <1>3. InTrap(P) BY <1>1 DEF InTrap
  <1> QED BY <1>1, <1>2, <1>3 DEF ProcOK

LEMMA TwoOK ==
  ASSUME NEW P, DOMAIN P = ProcFields, P.own \in {0, 1}, NEW f, DOMAIN f = FrameFields, NEW g, DOMAIN g = FrameFields,
         P.frames = <<f, g>>, P.tf = LeadsTo(g, P.own + 2), CallFrame(P, f), InnerFrame(g, LeadsTo(f, P.own + 1)),
         g.user = FALSE
  PROVE  ProcOK(P)
  <1>1. P.frames[1] = f /\ P.frames[2] = g /\ Len(P.frames) = 2 /\ DOMAIN P.frames = {1, 2} OBVIOUS
  <1>2. Fields(P) BY <1>1 DEF Fields
  <1>3. InNestedTrap(P) BY <1>1 DEF InNestedTrap
  <1> QED BY <1>1, <1>2, <1>3 DEF ProcOK

\* What the invariant says of the process that runs.
LEMMA WhereItIs ==
  ASSUME NEW P, ProcOK(P)
  PROVE  /\ DOMAIN P = ProcFields /\ P.own \in {0, 1}
         /\ \/ Len(P.frames) = 0 /\ Outside(P)
            \/ Len(P.frames) = 1 /\ (IsNew(P) \/ InTrap(P)) /\ DOMAIN P.frames[1] = FrameFields
            \/ /\ Len(P.frames) = 2 /\ InNestedTrap(P)
               /\ DOMAIN P.frames[1] = FrameFields /\ DOMAIN P.frames[2] = FrameFields
  <1>1. CASE Outside(P) BY <1>1 DEF ProcOK, Fields, Outside
  <1>2. CASE Len(P.frames) = 1 /\ (IsNew(P) \/ InTrap(P))
    <2>1. 1 \in DOMAIN P.frames BY <1>2 DEF InTrap, IsNew
    <2> QED BY <1>2, <2>1 DEF ProcOK, Fields
  <1>3. CASE Len(P.frames) = 2 /\ InNestedTrap(P)
    <2>1. 1 \in DOMAIN P.frames /\ 2 \in DOMAIN P.frames BY <1>3 DEF InNestedTrap
    <2> QED BY <1>3, <2>1 DEF ProcOK, Fields
  <1> QED BY <1>1, <1>2, <1>3 DEF ProcOK

\* A step that changes the process that runs and no other.
LEMMA ReplaceProc ==
  ASSUME TrapInv, NEW X, ProcOK(X), proc' = [proc EXCEPT ![current] = X],
         current' \in Procs, panicked' \in BOOLEAN
  PROVE  TrapInv'
  BY DEF TrapInv

\* What trap() leaves when it begins.
LEMMA TrapRecord ==
  ASSUME NEW p, DOMAIN proc[p] = ProcFields, NEW kind, NEW regs, NEW in_kernel \in BOOLEAN
  PROVE  LET T == Trap(p, kind, regs, in_kernel) IN
         /\ DOMAIN T = ProcFields /\ T.tf = proc[p].own + Len(proc[p].frames) + 1 /\ T.own = proc[p].own
         /\ T.state = proc[p].state /\ T.got = proc[p].got /\ T.asked = proc[p].asked
         /\ \E f : /\ T.frames = Append(proc[p].frames, f)
                  /\ DOMAIN f = FrameFields /\ f.kind = kind /\ f.eax = regs.eax /\ f.regs = regs.regs
                  /\ f.otf = proc[p].tf /\ f.stage = "entered" /\ f.in_kernel = in_kernel /\ f.user = ~in_kernel
  <1> DEFINE T == Trap(p, kind, regs, in_kernel)
             f == [kind |-> kind, eax |-> regs.eax, regs |-> regs.regs, user |-> ~in_kernel,
                   otf |-> proc[p].tf, in_kernel |-> in_kernel, stage |-> "entered", tf |-> 0]
  <1>1. /\ DOMAIN T = ProcFields /\ T.frames = Append(proc[p].frames, f) /\ T.own = proc[p].own
        /\ T.tf = proc[p].own + Len(proc[p].frames) + 1
        /\ T.state = proc[p].state /\ T.got = proc[p].got /\ T.asked = proc[p].asked
    BY DEF Trap, Top, ProcFields
  <1>2. /\ DOMAIN f = FrameFields /\ f.kind = kind /\ f.eax = regs.eax /\ f.regs = regs.regs
        /\ f.otf = proc[p].tf /\ f.stage = "entered" /\ f.in_kernel = in_kernel /\ f.user = ~in_kernel
    BY DEF FrameFields
  <1> HIDE DEF T, f
  <1> QED BY <1>1, <1>2 DEF T

\* One lemma for each action.
LEMMA CallOK ==
  ASSUME TrapInv, NEW c \in Calls, user_call(c)
  PROVE  TrapInv'
  <1> DEFINE P == proc[current]
             b == FALSE
             T == Trap(current, "syscall", user_syscall(c), b)
             X == [T EXCEPT !.asked = <<c>>, !.got = None]
  <1>1. ProcOK(P) /\ P.state = "user" /\ Len(P.frames) = 0 BY DEF TrapInv, user_call, User, Top
  <1>2. DOMAIN P = ProcFields /\ P.frames = <<>> /\ P.tf = 1 /\ P.own = 0
    BY <1>1, WhereItIs DEF Outside, InUser, InThread
  <1>b. b \in BOOLEAN OBVIOUS
  <1> HIDE DEF b
  <1>3. PICK f :
          /\ T.frames = Append(P.frames, f) /\ DOMAIN f = FrameFields /\ f.kind = "syscall"
          /\ f.eax = user_syscall(c).eax /\ f.regs = user_syscall(c).regs
          /\ f.otf = P.tf /\ f.stage = "entered" /\ f.in_kernel = b /\ f.user = ~b
    BY <1>2, <1>b, TrapRecord
  <1>4. DOMAIN T = ProcFields /\ T.tf = P.own + Len(P.frames) + 1 /\ T.state = P.state /\ T.own = P.own
    BY <1>2, <1>b, TrapRecord
  <1> HIDE DEF T
  <1>5. /\ DOMAIN X = ProcFields /\ X.frames = T.frames /\ X.tf = T.tf /\ X.asked = <<c>> /\ X.got = None
        /\ X.state = T.state /\ X.own = T.own
    BY <1>4 DEF ProcFields
  <1>6. X.frames = <<f>> BY <1>2, <1>3, <1>5, Sequences12
  <1>7. CallFrame(X, f)
    <2>1. c \in DOMAIN stubs /\ f.eax = stubs[c][1] BY <1>3, CallsAssumption DEF user_syscall
    <2> HIDE DEF X
    <2> QED BY <1>1, <1>2, <1>3, <1>4, <1>5, <2>1 DEF CallFrame, b
  <1>8. X.tf = LeadsTo(f, X.own + 1) BY <1>1, <1>2, <1>3, <1>4, <1>5 DEF LeadsTo
  <1>9. ProcOK(X)
    <2> HIDE DEF X
    <2> QED BY <1>2, <1>3, <1>4, <1>5, <1>6, <1>7, <1>8, OneOK
  <1>10. proc' = [proc EXCEPT ![current] = X] /\ current' \in Procs /\ panicked' \in BOOLEAN
    BY DEF user_call, TrapInv, T, b
  <1> HIDE DEF X
  <1> QED BY <1>9, <1>10, ReplaceProc

LEMMA ExecveOK ==
  ASSUME TrapInv, kernel_execve
  PROVE  TrapInv'
  <1> DEFINE P == proc[current]
             b == TRUE
             T == Trap(current, "syscall", user_syscall("exec"), b)
             X == [T EXCEPT !.asked = <<"exec">>]
  <1>1. ProcOK(P) /\ P.state = "kernel" /\ Len(P.frames) = 0 BY DEF TrapInv, kernel_execve, Thread, Top
  <1>2. DOMAIN P = ProcFields /\ P.frames = <<>> /\ P.tf = 1 /\ P.got = None /\ P.own = 1
    BY <1>1, WhereItIs DEF Outside, InUser, InThread
  <1>b. b \in BOOLEAN OBVIOUS
  <1> HIDE DEF b
  <1>3. PICK f :
          /\ T.frames = Append(P.frames, f) /\ DOMAIN f = FrameFields /\ f.kind = "syscall"
          /\ f.eax = user_syscall("exec").eax /\ f.regs = user_syscall("exec").regs
          /\ f.otf = P.tf /\ f.stage = "entered" /\ f.in_kernel = b
    BY <1>2, <1>b, TrapRecord
  <1>4. /\ DOMAIN T = ProcFields /\ T.tf = P.own + Len(P.frames) + 1 /\ T.state = P.state /\ T.got = P.got
        /\ T.own = P.own
    BY <1>2, <1>b, TrapRecord
  <1> HIDE DEF T
  <1>5. /\ DOMAIN X = ProcFields /\ X.frames = T.frames /\ X.tf = T.tf /\ X.asked = <<"exec">> /\ X.got = T.got
        /\ X.state = T.state /\ X.own = T.own
    BY <1>4 DEF ProcFields
  <1>6. X.frames = <<f>> BY <1>2, <1>3, <1>5, Sequences12
  <1>7. CallFrame(X, f)
    <2>1. "exec" \in DOMAIN stubs /\ f.eax = stubs["exec"][1] BY <1>3, StubDomain DEF user_syscall, StubNames
    <2> HIDE DEF X
    <2> QED BY <1>1, <1>2, <1>3, <1>4, <1>5, <2>1 DEF CallFrame, b
  <1>8. X.tf = LeadsTo(f, X.own + 1) BY <1>1, <1>2, <1>3, <1>4, <1>5 DEF LeadsTo
  <1>9. ProcOK(X)
    <2> HIDE DEF X
    <2> QED BY <1>2, <1>3, <1>4, <1>5, <1>6, <1>7, <1>8, OneOK
  <1>10. proc' = [proc EXCEPT ![current] = X] /\ current' \in Procs /\ panicked' \in BOOLEAN
    BY DEF kernel_execve, TrapInv, T, b
  <1> HIDE DEF X
  <1> QED BY <1>9, <1>10, ReplaceProc

\* An interrupt or a page fault, in user mode, in a kernel thread or in a call.
LEMMA InnerOK ==
  ASSUME TrapInv, NEW kind \in {"irq", "fault"},
         User(current) \/ Thread(current) \/ Calling(current),
         NEW in_kernel \in BOOLEAN, in_kernel <=> ~User(current),
         proc' = [proc EXCEPT ![current] = Trap(current, kind, [eax |-> "any", regs |-> Zeros], in_kernel)],
         current' \in Procs, panicked' \in BOOLEAN
  PROVE  TrapInv'
  <1> DEFINE P == proc[current]
             X == Trap(current, kind, [eax |-> "any", regs |-> Zeros], in_kernel)
  <1>1. ProcOK(P) BY DEF TrapInv
  <1>2. DOMAIN P = ProcFields /\ P.own \in {0, 1} BY <1>1, WhereItIs
  <1>3. PICK g :
          /\ X.frames = Append(P.frames, g) /\ DOMAIN g = FrameFields /\ g.kind = kind /\ g.stage = "entered"
          /\ g.otf = P.tf /\ g.user = ~in_kernel
    BY <1>2, TrapRecord
  <1>4. /\ DOMAIN X = ProcFields /\ X.tf = P.own + Len(P.frames) + 1 /\ X.own = P.own
        /\ X.asked = P.asked /\ X.got = P.got /\ X.state = P.state
    BY <1>2, TrapRecord
  <1> HIDE DEF X
  <1>5. CASE User(current) \/ Thread(current)
    <2>0. Len(P.frames) = 0 /\ P.state # "free" BY <1>5 DEF User, Thread, Top
    <2>1. P.frames = <<>> /\ P.tf = 1 /\ (InUser(P) \/ InThread(P)) BY <1>1, <2>0, WhereItIs DEF Outside
    <2>2. X.frames = <<g>> /\ X.tf = X.own + 1 BY <1>2, <1>3, <1>4, <2>0, <2>1, Sequences12
    <2>3. InnerFrame(g, 1) /\ LeadsTo(g, X.own + 1) = X.own + 1 BY <1>3, <2>1 DEF InnerFrame, LeadsTo
    <2>4. CASE InUser(P)
      <3>1. g.user = TRUE BY <1>3, <2>0, <2>4 DEF InUser, User, Top
      <3>2. InUser(X) BY <1>4, <2>4 DEF InUser, Answered
      <3>3. OuterFrame(X, g) BY <2>3, <3>1, <3>2 DEF OuterFrame
      <3> QED BY <1>2, <1>3, <1>4, <2>2, <2>3, <3>3, OneOK, ReplaceProc DEF X
    <2>5. CASE InThread(P)
      <3>1. g.user = FALSE BY <1>3, <2>0, <2>5 DEF InThread, User, Top
      <3>2. InThread(X) BY <1>4, <2>5 DEF InThread
      <3>3. OuterFrame(X, g) BY <2>3, <3>1, <3>2 DEF OuterFrame
      <3> QED BY <1>2, <1>3, <1>4, <2>2, <2>3, <3>3, OneOK, ReplaceProc DEF X
    <2> QED BY <2>1, <2>4, <2>5
  <1>6. CASE Calling(current)
    <2> DEFINE f == P.frames[1]
    <2>1. ~(Len(P.frames) = 2 /\ InNestedTrap(P))
      BY <1>6 DEF InNestedTrap, InnerFrame, Calling, Frame, Top
    <2>b. Len(P.frames) > 0 /\ P.frames[Len(P.frames)].stage # "copied" BY <1>6 DEF Calling, Frame, Top
    <2>c. ~(Len(P.frames) = 1 /\ IsNew(P)) BY <2>b DEF IsNew, NewFrame
    <2>2. Len(P.frames) = 1 /\ InTrap(P) /\ DOMAIN f = FrameFields
      <3> HIDE DEF P
      <3> QED BY <1>1, <2>1, <2>b, <2>c, WhereItIs
    <2>3. CallFrame(P, f) /\ P.frames = <<f>> /\ P.tf = LeadsTo(f, P.own + 1)
      BY <1>6, <2>2 DEF InTrap, OuterFrame, InnerFrame, Calling, Frame, Top
    <2>d. ~User(current) BY <2>2 DEF User, Top
    <2>a. g.user = FALSE BY <1>3, <2>d
    <2> HIDE DEF f
    <2>4. X.frames = <<f, g>> /\ X.tf = X.own + 2 BY <1>2, <1>3, <1>4, <2>2, <2>3, Sequences12
    <2>5. InnerFrame(g, LeadsTo(f, X.own + 1)) /\ LeadsTo(g, X.own + 2) = X.own + 2
      BY <1>3, <1>4, <2>3 DEF InnerFrame, LeadsTo
    <2>6. CallFrame(X, f) BY <1>3, <1>4, <2>3 DEF CallFrame
    <2> QED BY <1>2, <1>3, <1>4, <2>2, <2>a, <2>4, <2>5, <2>6, TwoOK, ReplaceProc DEF X
  <1> QED BY <1>5, <1>6

LEMMA InterruptOK ==
  ASSUME TrapInv, interrupt
  PROVE  TrapInv'
  <1> DEFINE b == ~User(current)
  <1>1. b \in BOOLEAN BY DEF User
  <1>2. proc' = [proc EXCEPT ![current] = Trap(current, "irq", [eax |-> "any", regs |-> Zeros], b)]
    BY DEF interrupt
  <1>3. User(current) \/ Thread(current) \/ Calling(current) BY DEF interrupt
  <1>4. current' \in Procs /\ panicked' \in BOOLEAN BY DEF interrupt, TrapInv
  <1>5. b <=> ~User(current) OBVIOUS
  <1> HIDE DEF b
  <1> QED BY <1>1, <1>2, <1>3, <1>4, <1>5, InnerOK

LEMMA PageFaultOK ==
  ASSUME TrapInv, page_fault
  PROVE  TrapInv'
  <1>1. CASE panicked' = TRUE /\ UNCHANGED proc
    BY <1>1 DEF page_fault, TrapInv
  <1>2. CASE /\ proc' = [proc EXCEPT ![current] = Trap(current, "fault", [eax |-> "any", regs |-> Zeros], ~User(current))]
             /\ UNCHANGED panicked
    <2> DEFINE b == ~User(current)
    <2>1. b \in BOOLEAN BY DEF User
    <2>2. proc' = [proc EXCEPT ![current] = Trap(current, "fault", [eax |-> "any", regs |-> Zeros], b)]
      BY <1>2
    <2>3. User(current) \/ Thread(current) \/ Calling(current) BY DEF page_fault
    <2>4. current' \in Procs /\ panicked' \in BOOLEAN BY <1>2 DEF page_fault, TrapInv
    <2>5. b <=> ~User(current) OBVIOUS
    <2> HIDE DEF b
    <2> QED BY <2>1, <2>2, <2>3, <2>4, <2>5, InnerOK
  <1> QED BY <1>1, <1>2 DEF page_fault

\* A process whose innermost frame is that of a call has no other frame.
LEMMA InCall ==
  ASSUME TrapInv, Calling(current)
  PROVE  LET P == proc[current]
             f == P.frames[1]
         IN  /\ Top(current) = 1 /\ Frame(current) = f /\ P.frames = <<f>> /\ P.tf = LeadsTo(f, P.own + 1)
             /\ DOMAIN P = ProcFields /\ P.own \in {0, 1} /\ DOMAIN f = FrameFields /\ CallFrame(P, f)
  <1> DEFINE P == proc[current]
             f == P.frames[1]
  <1>1. ProcOK(P) BY DEF TrapInv
  <1>2. ~(Len(P.frames) = 2 /\ InNestedTrap(P)) BY DEF InNestedTrap, InnerFrame, Calling, Frame, Top
  <1>a. Len(P.frames) > 0 /\ P.frames[Len(P.frames)].stage # "copied" BY DEF Calling, Frame, Top
  <1>b. ~(Len(P.frames) = 1 /\ IsNew(P)) BY <1>a DEF IsNew, NewFrame
  <1>3. Len(P.frames) = 1 /\ InTrap(P) /\ DOMAIN f = FrameFields /\ DOMAIN P = ProcFields /\ P.own \in {0, 1}
    <2> HIDE DEF P
    <2> QED BY <1>1, <1>2, <1>a, <1>b, WhereItIs
  <1> QED BY <1>3 DEF InTrap, OuterFrame, InnerFrame, Calling, Frame, Top

\* While the function of a call runs it is the one that the program asked for.
LEMMA WhichCall ==
  ASSUME TrapInv, Now("running")
  PROVE  LET P == proc[current]
             f == P.frames[1]
         IN  /\ Top(current) = 1 /\ Frame(current) = f /\ P.frames = <<f>>
             /\ P.tf = P.own + 1 /\ f.tf = P.own + 1 /\ Slot(current, P.tf) = 1 /\ Slot(current, f.tf) = 1
             /\ At(current, P.tf) = f /\ At(current, f.tf) = f
             /\ f.kind = "syscall" /\ f.otf = 1 /\ P.got = None
             /\ DOMAIN P = ProcFields /\ P.own \in {0, 1} /\ DOMAIN f = FrameFields
             /\ \E c \in DOMAIN stubs :
                  /\ P.asked = <<c>> /\ Called(f) = Meant(c)
                  /\ \/ f.in_kernel = FALSE /\ f.user = TRUE /\ P.state = "user"
                     \/ f.in_kernel = TRUE /\ P.state = "kernel" /\ c = "exec"
  <1> DEFINE P == proc[current]
             f == P.frames[1]
  <1>1. Calling(current) /\ Frame(current).stage = "running" BY DEF Now, Calling
  <1>2. /\ Top(current) = 1 /\ Frame(current) = f /\ P.frames = <<f>> /\ P.tf = LeadsTo(f, P.own + 1)
        /\ DOMAIN P = ProcFields /\ P.own \in {0, 1} /\ DOMAIN f = FrameFields /\ CallFrame(P, f)
    BY <1>1, InCall
  <1>3. f.stage = "running" BY <1>1, <1>2
  <1> HIDE DEF P, f
  <1>4. PICK c \in DOMAIN stubs :
          /\ P.asked = <<c>> /\ f.eax = stubs[c][1] /\ f.regs = user_syscall(c).regs
          /\ \/ f.in_kernel = FALSE /\ f.user = TRUE /\ P.state = "user"
             \/ f.in_kernel = TRUE /\ P.state = "kernel" /\ c = "exec"
    BY <1>2, <1>3 DEF CallFrame
  <1>5. Called(f) = Meant(c) BY <1>4, CallIsMeant
  <1>6. P.tf = P.own + 1 /\ f.tf = P.own + 1 /\ f.kind = "syscall" /\ f.otf = 1 /\ P.got = None
    BY <1>2, <1>3 DEF CallFrame, LeadsTo
  <1>7. Slot(current, P.tf) = 1 /\ Slot(current, f.tf) = 1 BY <1>2, <1>6 DEF Slot, P
  <1>8. At(current, P.tf) = f /\ At(current, f.tf) = f BY <1>7 DEF At, P, f
  <1> QED BY <1>2, <1>4, <1>5, <1>6, <1>7, <1>8 DEF P, f

\* What a program may find in eax after each call.
LEMMA AnswersOf ==
  /\ \A c \in DOMAIN stubs : c # "fork" => Answers(<<c>>) = {Meant(c)}
  /\ Answers(<<"fork">>) = {<<"parent">>, <<"child">>}
  /\ Answers(<<"program">>) = {<<"start">>}
  /\ \A c \in DOMAIN stubs : Meant(c)[1] = c
  <1>1. ASSUME NEW c \in DOMAIN stubs, c # "fork" PROVE Answers(<<c>>) = {Meant(c)}
    <2>1. <<c>> # <<"program">> /\ <<c>> # <<"fork">> /\ <<c>>[1] = c BY <1>1, StubDomain DEF StubNames
    <2> DEFINE a == <<c>>
    <2>2. a # <<"program">> /\ a # <<"fork">> /\ a[1] = c BY <2>1
    <2> HIDE DEF a
    <2>3. Answers(a) = {Meant(a[1])} BY <2>2, Zenon DEF Answers
    <2> QED BY <2>2, <2>3 DEF a
  <1>2. Answers(<<"program">>) = {<<"start">>}
    <2>1. <<"fork">> # <<"program">> OBVIOUS
    <2> QED BY <2>1, Zenon DEF Answers
  <1>3. Answers(<<"fork">>) = {<<"parent">>, <<"child">>}
    <2>1. <<"fork">> # <<"program">> OBVIOUS
    <2> QED BY <2>1, Zenon DEF Answers
  <1>4. \A c \in DOMAIN stubs : Meant(c)[1] = c BY DEF Meant
  <1> QED BY <1>1, <1>2, <1>3, <1>4

\* Replacing a frame.
LEMMA OneExcept == \A f, g : [<<f>> EXCEPT ![1] = g] = <<g>>
  OBVIOUS

\* A call whose frame becomes g.
LEMMA ChangedFrame ==
  ASSUME TrapInv, NEW g, DOMAIN g = FrameFields, NEW X, DOMAIN X = ProcFields, X.own \in {0, 1},
         X.frames = <<g>>, X.tf = LeadsTo(g, X.own + 1), CallFrame(X, g),
         proc' = [proc EXCEPT ![current] = X], current' \in Procs, panicked' \in BOOLEAN
  PROVE  TrapInv'
  BY OneOK, ReplaceProc

LEMMA SyscallOK ==
  ASSUME TrapInv, syscall
  PROVE  TrapInv'
  <1> DEFINE P == proc[current]
             f == P.frames[1]
             t == P.tf
  <1>1. Calling(current) /\ Frame(current).stage = "entered" BY DEF syscall, Now, Calling
  <1>2. /\ Top(current) = 1 /\ Frame(current) = f /\ P.frames = <<f>> /\ P.tf = LeadsTo(f, P.own + 1)
        /\ DOMAIN P = ProcFields /\ P.own \in {0, 1} /\ DOMAIN f = FrameFields /\ CallFrame(P, f)
    BY <1>1, InCall
  <1>3. current' \in Procs /\ current \in Procs /\ DOMAIN proc = Procs BY DEF syscall, TrapInv
  <1>4. CASE panicked' = TRUE /\ UNCHANGED proc
    BY <1>3, <1>4 DEF TrapInv
  <1>5. CASE /\ proc' = [proc EXCEPT ![current].frames[Top(current)] = [@ EXCEPT !.tf = t, !.stage = "running"]]
             /\ UNCHANGED panicked
    <2> DEFINE g == [f EXCEPT !.tf = t, !.stage = "running"]
               X == [P EXCEPT !.frames = [@ EXCEPT ![1] = g]]
    <2>1. proc' = [proc EXCEPT ![current] = X] BY <1>2, <1>3, <1>5, Zenon
    <2>2. t = P.own + 1 BY <1>1, <1>2 DEF LeadsTo
    <2>3. /\ DOMAIN g = FrameFields /\ g.tf = P.own + 1 /\ g.stage = "running" /\ g.kind = f.kind /\ g.otf = f.otf
          /\ g.eax = f.eax /\ g.regs = f.regs /\ g.user = f.user /\ g.in_kernel = f.in_kernel
      BY <1>2, <2>2 DEF FrameFields
    <2> HIDE DEF g
    <2>4. /\ DOMAIN X = ProcFields /\ X.frames = [P.frames EXCEPT ![1] = g] /\ X.tf = P.tf /\ X.asked = P.asked
          /\ X.got = P.got /\ X.state = P.state /\ X.own = P.own
      BY <1>2 DEF ProcFields
    <2> HIDE DEF X
    <2>5. X.frames = <<g>> BY <1>2, <2>4, OneExcept
    <2>6. X.tf = LeadsTo(g, X.own + 1) BY <2>2, <2>3, <2>4 DEF LeadsTo
    <2>7. CallFrame(X, g)
      <3> HIDE DEF P, f
      <3> QED BY <1>1, <1>2, <2>3, <2>4 DEF CallFrame
    <2> QED BY <1>3, <1>5, <1>2, <2>1, <2>3, <2>4, <2>5, <2>6, <2>7, ChangedFrame DEF TrapInv
  <1> QED BY <1>4, <1>5 DEF syscall

\* A call of a program has run, with the result v.
LEMMA FinishedOK ==
  ASSUME TrapInv, Now("running"), proc[current].state = "user", proc[current].frames[1].user = TRUE,
         NEW v \in Answers(proc[current].asked), NEW F,
         \/ F = [[proc[current].frames EXCEPT ![1].eax = v] EXCEPT ![1].stage = "done"]
         \/ F = [[proc[current].frames EXCEPT ![1].stage = "done"] EXCEPT ![1].eax = v]
  PROVE  ProcOK([proc[current] EXCEPT !.frames = F])
  <1> DEFINE P == proc[current]
             f == P.frames[1]
             g == F[1]
             X == [P EXCEPT !.frames = F]
  <1>1. /\ P.frames = <<f>> /\ P.tf = P.own + 1 /\ f.kind = "syscall" /\ f.otf = 1 /\ P.got = None
        /\ DOMAIN P = ProcFields /\ P.own \in {0, 1} /\ DOMAIN f = FrameFields
    BY WhichCall
  <1>2. /\ DOMAIN g = FrameFields /\ g.stage = "done" /\ g.eax = v /\ g.kind = "syscall" /\ g.otf = 1 /\ g.user = TRUE
        /\ F = <<g>>
    <2> DEFINE s == <<f>>
               fe == [f EXCEPT !.eax = v]
               fs == [f EXCEPT !.stage = "done"]
               ge == [fe EXCEPT !.stage = "done"]
               gs == [fs EXCEPT !.eax = v]
    <2>1. F = <<ge>> \/ F = <<gs>>
      <3>1. P.frames = s /\ s[1] = f /\ DOMAIN s = {1} BY <1>1
      <3>2. [s EXCEPT ![1].eax = v] = <<fe>> OBVIOUS
      <3>3. [s EXCEPT ![1].stage = "done"] = <<fs>> OBVIOUS
      <3> HIDE DEF s, fe, fs
      <3>4. [<<fe>> EXCEPT ![1].stage = "done"] = <<[fe EXCEPT !.stage = "done"]>> OBVIOUS
      <3>5. [<<fs>> EXCEPT ![1].eax = v] = <<[fs EXCEPT !.eax = v]>> OBVIOUS
      <3> QED BY <3>1, <3>2, <3>3, <3>4, <3>5
    <2>2. /\ DOMAIN ge = FrameFields /\ ge.stage = "done" /\ ge.eax = v /\ ge.kind = f.kind /\ ge.otf = f.otf
          /\ ge.user = f.user
      BY <1>1 DEF FrameFields
    <2>3. /\ DOMAIN gs = FrameFields /\ gs.stage = "done" /\ gs.eax = v /\ gs.kind = f.kind /\ gs.otf = f.otf
          /\ gs.user = f.user
      BY <1>1 DEF FrameFields
    <2> HIDE DEF ge, gs
    <2>4. g = ge \/ g = gs BY <2>1
    <2> QED BY <1>1, <2>1, <2>2, <2>3, <2>4
  <1> HIDE DEF g
  <1>3. /\ DOMAIN X = ProcFields /\ X.frames = F /\ X.tf = P.tf /\ X.asked = P.asked /\ X.got = P.got /\ X.state = P.state
        /\ X.own = P.own
    BY <1>1 DEF ProcFields
  <1> HIDE DEF X
  <1>4. CallFrame(X, g) BY <1>1, <1>2, <1>3 DEF CallFrame
  <1>5. X.tf = LeadsTo(g, X.own + 1) BY <1>1, <1>2, <1>3 DEF LeadsTo
  <1>6. ProcOK(X) BY <1>1, <1>2, <1>3, <1>4, <1>5, OneOK
  <1> QED BY <1>6 DEF X

LEMMA ReturnOK ==
  ASSUME TrapInv, sys_return
  PROVE  TrapInv'
  <1> DEFINE P == proc[current]
             f == P.frames[1]
             v == Called(f)
             F == [[P.frames EXCEPT ![1].eax = v] EXCEPT ![1].stage = "done"]
             X == [P EXCEPT !.frames = F]
  <1>1. Now("running") BY DEF sys_return
  <1>2. /\ Top(current) = 1 /\ Frame(current) = f /\ Slot(current, f.tf) = 1 /\ At(current, f.tf) = f
        /\ DOMAIN P = ProcFields
    BY <1>1, WhichCall
  <1>3. PICK c \in DOMAIN stubs :
          /\ P.asked = <<c>> /\ v = Meant(c)
          /\ \/ f.user = TRUE /\ P.state = "user"
             \/ c = "exec"
    BY <1>1, WhichCall
  <1>4. Returns(v) /\ proc' = [proc EXCEPT ![current] = X]
    BY <1>2 DEF sys_return, Stored
  <1> HIDE DEF v
  <1>5. c \notin {"exit", "fork", "exec"} BY <1>3, <1>4, AnswersOf DEF Returns
  <1>6. v \in Answers(P.asked) BY <1>3, <1>5, AnswersOf
  <1>7. ProcOK(X) BY <1>1, <1>3, <1>5, <1>6, FinishedOK
  <1>8. current' \in Procs /\ panicked' \in BOOLEAN BY DEF sys_return, TrapInv
  <1> HIDE DEF X
  <1> QED BY <1>4, <1>7, <1>8, ReplaceProc

\* The process that forks, and its child.
LEMMA ForkParent ==
  ASSUME TrapInv, Now("running"), Called(At(current, Frame(current).tf))[1] = "fork"
  PROVE  LET P == proc[current]
             f == P.frames[1]
         IN  /\ Top(current) = 1 /\ At(current, P.tf) = f
             /\ DOMAIN f = FrameFields /\ f.kind = "syscall" /\ f.user = TRUE /\ P.asked = <<"fork">>
             /\ P.state = "user"
             /\ ProcOK(Stored(<<"parent">>))
  <1> DEFINE P == proc[current]
             f == P.frames[1]
  <1>1. /\ Top(current) = 1 /\ Frame(current) = f /\ Slot(current, f.tf) = 1 /\ At(current, f.tf) = f
        /\ At(current, P.tf) = f /\ DOMAIN f = FrameFields /\ f.kind = "syscall"
    BY WhichCall
  <1>2. PICK c \in DOMAIN stubs :
          /\ P.asked = <<c>> /\ Called(f) = Meant(c)
          /\ \/ f.user = TRUE /\ P.state = "user"
             \/ c = "exec"
    BY WhichCall
  <1>3. c = "fork" BY <1>1, <1>2, AnswersOf
  <1>4. <<"parent">> \in Answers(P.asked) BY <1>2, <1>3, AnswersOf
  <1> DEFINE F == [[P.frames EXCEPT ![1].eax = <<"parent">>] EXCEPT ![1].stage = "done"]
  <1>5. ProcOK([P EXCEPT !.frames = F]) BY <1>2, <1>3, <1>4, FinishedOK
  <1>6. Stored(<<"parent">>) = [P EXCEPT !.frames = F] BY <1>1 DEF Stored
  <1> HIDE DEF F
  <1> QED BY <1>1, <1>2, <1>3, <1>5, <1>6

LEMMA ForkOK ==
  ASSUME TrapInv, sys_fork
  PROVE  TrapInv'
  <1> DEFINE P == proc[current]
             f == P.frames[1]
             X == Stored(<<"parent">>)
             g == [f EXCEPT !.eax = <<"child">>, !.stage = "copied"]
             Y == [Dead EXCEPT !.state = "new", !.tf = 1, !.asked = <<"fork">>, !.frames = <<g>>]
  <1>1. Now("running") /\ Called(At(current, Frame(current).tf))[1] = "fork" BY DEF sys_fork
  <1>2. /\ Top(current) = 1 /\ At(current, P.tf) = f
        /\ DOMAIN f = FrameFields /\ f.kind = "syscall" /\ f.user = TRUE /\ ProcOK(X) /\ P.state = "user"
    BY <1>1, ForkParent
  <1>3. PICK q \in Procs :
          /\ proc[q].state = "free"
          /\ proc' = [proc EXCEPT ![q] = Y, ![current] = X]
    BY <1>2 DEF sys_fork
  <1>4. DOMAIN g = FrameFields /\ g.eax = <<"child">> /\ g.stage = "copied" /\ g.kind = "syscall" /\ g.user = TRUE
    BY <1>2 DEF FrameFields
  <1> HIDE DEF g
  <1>5. /\ DOMAIN Y = ProcFields /\ Y.state = "new" /\ Y.frames = <<g>> /\ Y.asked = <<"fork">> /\ Y.tf = 1
        /\ Y.got = None /\ Y.own = 0
    BY DEF Dead, ProcFields
  <1> HIDE DEF Y
  <1>6. ProcOK(Y)
    <2>1. NewFrame(Y, g) BY <1>4, <1>5, AnswersOf DEF NewFrame
    <2> QED BY <1>4, <1>5, <2>1, NewOK
  <1> HIDE DEF X
  <1>8. current \in Procs /\ DOMAIN proc = Procs /\ current' \in Procs /\ panicked' \in BOOLEAN
    BY DEF TrapInv, sys_fork
  <1> QED BY <1>2, <1>3, <1>6, <1>8 DEF TrapInv

LEMMA ForkFailsOK ==
  ASSUME TrapInv, sys_fork_fails
  PROVE  TrapInv'
  <1> DEFINE P == proc[current]
             X == Stored(<<"parent">>)
  <1>1. Now("running") /\ Called(At(current, Frame(current).tf))[1] = "fork" BY DEF sys_fork_fails
  <1>2. Top(current) = 1 /\ ProcOK(X) BY <1>1, ForkParent
  <1>4. proc' = [proc EXCEPT ![current] = X] BY DEF sys_fork_fails
  <1>5. current' \in Procs /\ panicked' \in BOOLEAN BY DEF sys_fork_fails, TrapInv
  <1> HIDE DEF X
  <1> QED BY <1>2, <1>4, <1>5, ReplaceProc

LEMMA ExecOK ==
  ASSUME TrapInv, sys_exec
  PROVE  TrapInv'
  <1> DEFINE P == proc[current]
             f == P.frames[1]
             v == Called(f)
             done == [P.frames EXCEPT ![1].stage = "done"]
  <1>1. Now("running") BY DEF sys_exec
  <1>2. /\ Top(current) = 1 /\ Frame(current) = f /\ Slot(current, f.tf) = 1 /\ Slot(current, P.tf) = 1
        /\ At(current, f.tf) = f /\ DOMAIN P = ProcFields /\ P.own \in {0, 1} /\ P.tf = P.own + 1 /\ P.frames = <<f>>
        /\ DOMAIN f = FrameFields /\ f.kind = "syscall" /\ f.otf = 1 /\ P.got = None
    BY <1>1, WhichCall
  <1>3. PICK c \in DOMAIN stubs :
          /\ P.asked = <<c>> /\ v = Meant(c)
          /\ \/ f.in_kernel = FALSE /\ f.user = TRUE /\ P.state = "user"
             \/ f.in_kernel = TRUE
    BY <1>1, WhichCall
  <1>4. /\ v[1] = "exec"
        /\ \/ proc' = [proc EXCEPT ![current] =
                 [@ EXCEPT !.state = "user", !.asked = <<"program">>,
                           !.frames = [[done EXCEPT ![1] = [@ EXCEPT !.regs = Zeros, !.user = TRUE]] EXCEPT ![1].eax = <<"start">>]]]
           \/ ~f.in_kernel /\ proc' = [proc EXCEPT ![current].frames = [done EXCEPT ![1].eax = v]]
    BY <1>2 DEF sys_exec
  <1>5. c = "exec" BY <1>3, <1>4, AnswersOf
  <1>6. current' \in Procs /\ panicked' \in BOOLEAN BY DEF sys_exec, TrapInv
  <1>7. CASE ~f.in_kernel /\ proc' = [proc EXCEPT ![current].frames = [done EXCEPT ![1].eax = v]]
    <2>1. v \in Answers(P.asked) BY <1>3, <1>5, AnswersOf
    <2>2. f.user = TRUE /\ P.state = "user" BY <1>3, <1>7
    <2> HIDE DEF v
    <2> DEFINE F == [done EXCEPT ![1].eax = v]
               X == [P EXCEPT !.frames = F]
    <2>3. ProcOK(X) BY <1>1, <2>1, <2>2, FinishedOK
    <2>4. proc' = [proc EXCEPT ![current] = X] BY <1>7, Zenon
    <2> HIDE DEF X
    <2> QED BY <1>6, <2>3, <2>4, ReplaceProc
  <1>8. CASE proc' = [proc EXCEPT ![current] =
                 [@ EXCEPT !.state = "user", !.asked = <<"program">>,
                           !.frames = [[done EXCEPT ![1] = [@ EXCEPT !.regs = Zeros, !.user = TRUE]] EXCEPT ![1].eax = <<"start">>]]]
    <2> DEFINE f1 == [f EXCEPT !.stage = "done"]
               f2 == [f1 EXCEPT !.regs = Zeros, !.user = TRUE]
               g == [f2 EXCEPT !.eax = <<"start">>]
               F == [[done EXCEPT ![1] = [@ EXCEPT !.regs = Zeros, !.user = TRUE]] EXCEPT ![1].eax = <<"start">>]
               X == [P EXCEPT !.state = "user", !.asked = <<"program">>, !.frames = F]
    <2>1. F = <<g>>
      <3>1. done = <<f1>>
        <4> DEFINE s == <<f>>
        <4>1. P.frames = s BY <1>2
        <4>2. [s EXCEPT ![1].stage = "done"] = <<f1>> OBVIOUS
        <4> HIDE DEF s
        <4> QED BY <4>1, <4>2
      <3> HIDE DEF done, f1
      <3>2. [<<f1>> EXCEPT ![1] = [@ EXCEPT !.regs = Zeros, !.user = TRUE]] = <<f2>> BY Zenon, OneExcept
      <3> HIDE DEF f2
      <3>3. [<<f2>> EXCEPT ![1].eax = <<"start">>] = <<g>> OBVIOUS
      <3> QED BY <3>1, <3>2, <3>3
    <2>2. /\ DOMAIN g = FrameFields /\ g.stage = "done" /\ g.eax = <<"start">> /\ g.kind = "syscall" /\ g.otf = 1
          /\ g.user = TRUE
      <3>1. DOMAIN f1 = FrameFields /\ f1.stage = "done" /\ f1.kind = "syscall" /\ f1.otf = 1 BY <1>2 DEF FrameFields
      <3> HIDE DEF f1
      <3>2. DOMAIN f2 = FrameFields /\ f2.stage = "done" /\ f2.kind = "syscall" /\ f2.otf = 1 /\ f2.user = TRUE
        BY <3>1 DEF FrameFields
      <3> HIDE DEF f2
      <3> QED BY <3>2 DEF FrameFields
    <2> HIDE DEF g, F
    <2>3. /\ DOMAIN X = ProcFields /\ X.frames = F /\ X.tf = P.tf /\ X.asked = <<"program">> /\ X.got = P.got
          /\ X.state = "user" /\ X.own = P.own
      BY <1>2 DEF ProcFields
    <2>4. proc' = [proc EXCEPT ![current] = X] BY <1>8, Zenon DEF F
    <2> HIDE DEF X
    <2>5. CallFrame(X, g) BY <1>2, <2>2, <2>3, AnswersOf DEF CallFrame
    <2>6. X.tf = LeadsTo(g, X.own + 1) BY <1>2, <2>2, <2>3 DEF LeadsTo
    <2> QED BY <1>2, <1>6, <2>1, <2>2, <2>3, <2>4, <2>5, <2>6, ChangedFrame
  <1> QED BY <1>4, <1>7, <1>8

LEMMA ExitOK ==
  ASSUME TrapInv, do_exit
  PROVE  TrapInv'
  <1>1. ProcOK(Dead)
    <2>1. DOMAIN Dead = ProcFields /\ Dead.own = 0 BY DEF Dead, ProcFields
    <2>2. Outside(Dead) BY DEF Dead, Outside
    <2> QED BY <2>1, <2>2, ZeroOK
  <1>2. proc' = [proc EXCEPT ![current] = Dead] /\ current' \in Procs /\ panicked' \in BOOLEAN
    BY DEF do_exit, TrapInv, Others
  <1> QED BY <1>1, <1>2, ReplaceProc

LEMMA ScheduleOK ==
  ASSUME TrapInv, schedule
  PROVE  TrapInv'
  BY DEF TrapInv, schedule, Others

LEMMA HaltOK ==
  ASSUME TrapInv, UNCHANGED trapvars
  PROVE  TrapInv'
  BY DEF TrapInv, trapvars

LEMMA TwoExcept == \A f, g, h : [<<f, g>> EXCEPT ![2] = h] = <<f, h>>
  OBVIOUS

\* The end of trap(): the outer frame is the one that current->tf leads to again.
LEMMA TrapEndOK ==
  ASSUME TrapInv, trap_end
  PROVE  TrapInv'
  <1> DEFINE P == proc[current]
             n == Top(current)
             h == P.frames[n]
             r == [h EXCEPT !["stage"] = "restored"]
             I == [P EXCEPT !.frames[n] = [@ EXCEPT !["stage"] = "restored"]]
             X == Restored(current)
  <1>1. ProcOK(P) /\ n = Len(P.frames) /\ n > 0 /\ h = Frame(current) BY DEF TrapInv, trap_end, Top, Frame
  <1>2. IF h.kind = "syscall" THEN h.stage = "done" ELSE h.stage = "entered" BY <1>1 DEF trap_end
  <1>3. proc' = [proc EXCEPT ![current] = X] /\ current' \in Procs /\ panicked' \in BOOLEAN BY DEF trap_end, TrapInv
  <1>4. DOMAIN P = ProcFields /\ P.own \in {0, 1} BY <1>1, WhereItIs
  <1>5. /\ DOMAIN X = ProcFields /\ X.frames = [P.frames EXCEPT ![n] = r] /\ X.tf = h.otf /\ X.own = P.own
        /\ X.asked = P.asked /\ X.got = P.got /\ X.state = P.state
    <2>1. /\ DOMAIN I = ProcFields /\ I.frames = [P.frames EXCEPT ![n] = [@ EXCEPT !["stage"] = "restored"]]
          /\ I.own = P.own /\ I.asked = P.asked /\ I.got = P.got /\ I.state = P.state
      BY <1>4 DEF ProcFields
    <2>2. X = [I EXCEPT !.tf = h.otf] BY DEF Restored, InFrame, Frame
    <2>3. I.frames = [P.frames EXCEPT ![n] = r] BY <2>1
    <2> HIDE DEF I, X, r
    <2> QED BY <2>1, <2>2, <2>3 DEF ProcFields
  <1> HIDE DEF X
  <1>6. ASSUME DOMAIN h = FrameFields
        PROVE  /\ DOMAIN r = FrameFields /\ r.stage = "restored" /\ r.kind = h.kind /\ r.otf = h.otf
               /\ r.user = h.user /\ r.eax = h.eax
    BY <1>6 DEF FrameFields
  <1>7. CASE n = 1
    <2>0. Len(P.frames) = 1 BY <1>1, <1>7
    <2>a. (IsNew(P) \/ InTrap(P)) /\ DOMAIN P.frames[1] = FrameFields
      <3> HIDE DEF P
      <3> QED BY <1>1, <2>0, WhereItIs
    <2>1. InTrap(P) /\ DOMAIN h = FrameFields BY <1>2, <2>a, <1>7 DEF IsNew, NewFrame
    <2>2. P.frames = <<h>> BY <2>1, <1>7 DEF InTrap
    <2>3. CallFrame(P, h) \/ OuterFrame(P, h) BY <2>1, <1>7 DEF InTrap
    <2>4. /\ DOMAIN r = FrameFields /\ r.stage = "restored" /\ r.kind = h.kind /\ r.otf = h.otf
          /\ r.user = h.user /\ r.eax = h.eax
      BY <2>1, <1>6
    <2> HIDE DEF r, h, P, n
    <2>5. X.frames = <<r>> BY <1>5, <1>7, <2>2, OneExcept
    <2>6. X.tf = LeadsTo(r, X.own + 1) BY <1>5, <2>4 DEF LeadsTo
    <2>7. CASE CallFrame(P, h)
      <3>1. CallFrame(X, r) BY <1>2, <1>5, <2>4, <2>7 DEF CallFrame
      <3> QED BY <1>3, <1>5, <1>4, <2>4, <2>5, <2>6, <3>1, ChangedFrame
    <2>8. CASE OuterFrame(P, h)
      <3>1. OuterFrame(X, r) BY <1>5, <2>4, <2>8 DEF OuterFrame, InnerFrame, InUser, InThread, Answered
      <3> QED BY <1>3, <1>4, <1>5, <2>4, <2>5, <2>6, <3>1, OneOK, ReplaceProc
    <2> QED BY <2>3, <2>7, <2>8
  <1>8. CASE n = 2
    <2> DEFINE f == P.frames[1]
    <2>0. Len(P.frames) = 2 BY <1>1, <1>8
    <2>a. InNestedTrap(P) /\ DOMAIN P.frames[1] = FrameFields /\ DOMAIN P.frames[2] = FrameFields
      <3> HIDE DEF P
      <3> QED BY <1>1, <2>0, WhereItIs
    <2>1. InNestedTrap(P) /\ DOMAIN h = FrameFields /\ DOMAIN f = FrameFields BY <2>a, <1>8
    <2>2. P.frames = <<f, h>> /\ CallFrame(P, f) /\ InnerFrame(h, LeadsTo(f, P.own + 1)) /\ h.user = FALSE
      BY <2>1, <1>8 DEF InNestedTrap
    <2>3. /\ DOMAIN r = FrameFields /\ r.stage = "restored" /\ r.kind = h.kind /\ r.otf = h.otf /\ r.user = h.user
      BY <2>1, <1>6
    <2> HIDE DEF r, h, P, n, f
    <2>4. X.frames = <<f, r>> BY <1>5, <1>8, <2>2, TwoExcept
    <2>5. X.tf = LeadsTo(r, X.own + 2) BY <1>5, <2>3 DEF LeadsTo
    <2>6. CallFrame(X, f) BY <1>5, <2>2 DEF CallFrame
    <2>7. InnerFrame(r, LeadsTo(f, X.own + 1)) /\ r.user = FALSE BY <1>5, <2>2, <2>3 DEF InnerFrame
    <2> QED BY <1>3, <1>4, <1>5, <2>1, <2>3, <2>4, <2>5, <2>6, <2>7, TwoOK, ReplaceProc
  <1>9. n = 1 \/ n = 2 BY <1>1, WhereItIs
  <1> QED BY <1>7, <1>8, <1>9

\* __trapret: the frame is left; of a call, the program finds its answer in eax.
LEMMA TrapretOK ==
  ASSUME TrapInv, trapret
  PROVE  TrapInv'
  <1> DEFINE P == proc[current]
             n == Top(current)
             h == P.frames[n]
             v == IF h.user /\ h.kind = "syscall" THEN h.eax ELSE P.got
             X == Left(current)
  <1>1. ProcOK(P) /\ n = Len(P.frames) /\ n > 0 /\ h.stage = "restored" BY DEF TrapInv, trapret, Top, Frame
  <1>2. proc' = [proc EXCEPT ![current] = X] BY DEF trapret
  <1>3. current' \in Procs /\ panicked' \in BOOLEAN BY DEF trapret, TrapInv
  <1>4. DOMAIN P = ProcFields /\ P.own \in {0, 1} BY <1>1, WhereItIs
  <1>5. /\ DOMAIN X = ProcFields /\ X.frames = (IF h.user THEN <<>> ELSE SubSeq(P.frames, 1, n - 1))
        /\ X.own = (IF h.user THEN 0 ELSE P.own) /\ X.got = v /\ X.tf = P.tf
        /\ X.asked = P.asked /\ X.state = P.state
    BY <1>4 DEF ProcFields, Left, Frame
  <1> HIDE DEF X
  <1>6. CASE n = 1
    <2>0. Len(P.frames) = 1 BY <1>1, <1>6
    <2>a. IsNew(P) \/ InTrap(P)
      <3> HIDE DEF P
      <3> QED BY <1>1, <2>0, WhereItIs
    <2>1. InTrap(P) BY <1>1, <1>6, <2>a DEF IsNew, NewFrame
    <2>2. P.frames = <<h>> /\ P.tf = LeadsTo(h, P.own + 1) BY <2>1, <1>6 DEF InTrap
    <2>3. CallFrame(P, h) \/ OuterFrame(P, h) BY <2>1, <1>6 DEF InTrap
    <2> HIDE DEF h, P, n
    <2>4. h.otf = 1 BY <1>1, <2>3 DEF CallFrame, OuterFrame, InnerFrame
    <2>5. X.frames = <<>> /\ X.tf = 1
      <3>1. SubSeq(P.frames, 1, n - 1) = <<>> BY <1>6, <2>2, Sequences12
      <3> QED BY <1>1, <1>5, <2>2, <2>4, <3>1 DEF LeadsTo
    <2>6. CASE CallFrame(P, h)
      <3>1. h.user = TRUE /\ h.kind = "syscall" /\ h.eax \in Answers(P.asked) /\ P.state = "user"
        BY <1>1, <2>6 DEF CallFrame
      <3>2. v = h.eax /\ X.own = 0 BY <1>5, <3>1
      <3>3. InUser(X) BY <1>5, <3>1, <3>2 DEF InUser, Answered
      <3>4. Outside(X) BY <2>5, <3>3 DEF Outside
      <3> QED BY <1>2, <1>3, <1>5, <3>2, <3>4, ZeroOK, ReplaceProc DEF P
    <2>7. CASE OuterFrame(P, h)
      <3>1. h.kind # "syscall" BY <2>7 DEF OuterFrame, InnerFrame
      <3>2. v = P.got BY <3>1
      <3>3. CASE InUser(P) /\ h.user = TRUE
        <4>1. InUser(X) BY <1>5, <3>2, <3>3 DEF InUser, Answered
        <4>2. Outside(X) BY <2>5, <4>1 DEF Outside
        <4> QED BY <1>2, <1>3, <1>5, <3>3, <4>2, ZeroOK, ReplaceProc DEF P
      <3>4. CASE InThread(P) /\ h.user = FALSE
        <4>1. InThread(X) BY <1>5, <3>2, <3>4 DEF InThread
        <4>2. Outside(X) BY <2>5, <4>1 DEF Outside
        <4> QED BY <1>2, <1>3, <1>4, <1>5, <3>4, <4>2, ZeroOK, ReplaceProc DEF P
      <3> QED BY <2>7, <3>3, <3>4 DEF OuterFrame
    <2> QED BY <2>3, <2>6, <2>7
  <1>7. CASE n = 2
    <2> DEFINE f == P.frames[1]
    <2>0. Len(P.frames) = 2 BY <1>1, <1>7
    <2>1. InNestedTrap(P) /\ DOMAIN f = FrameFields
      <3> HIDE DEF P
      <3> QED BY <1>1, <2>0, WhereItIs
    <2>2. P.frames = <<f, h>> /\ CallFrame(P, f) /\ InnerFrame(h, LeadsTo(f, P.own + 1)) /\ h.user = FALSE
          /\ P.tf = LeadsTo(h, P.own + 2)
      BY <2>1, <1>7 DEF InNestedTrap
    <2> HIDE DEF h, P, n, f
    <2>3. X.frames = <<f>> /\ X.own = P.own
      <3>1. SubSeq(P.frames, 1, n - 1) = <<f>> BY <1>7, <2>2, Sequences12
      <3> QED BY <1>5, <2>2, <3>1
    <2>4. X.tf = LeadsTo(f, X.own + 1) BY <1>1, <1>5, <2>2, <2>3 DEF InnerFrame, LeadsTo
    <2>5. v = P.got BY <2>2 DEF InnerFrame
    <2>6. CallFrame(X, f) BY <1>5, <2>2, <2>3, <2>5 DEF CallFrame
    <2> QED BY <1>2, <1>3, <1>4, <1>5, <2>1, <2>3, <2>4, <2>6, ChangedFrame DEF P
  <1>8. n = 1 \/ n = 2 BY <1>1, WhereItIs
  <1> QED BY <1>6, <1>7, <1>8

\* forkret: a new process returns through the frame that copy_thread has made.
LEMMA ForkretOK ==
  ASSUME TrapInv, forkret
  PROVE  TrapInv'
  <1> DEFINE P == proc[current]
             f == P.frames[1]
             U == [P EXCEPT !.state = "user", !.frames = <<>>, !.got = f.eax]
             T == [P EXCEPT !.state = "kernel", !.frames = <<>>, !.own = 1]
             X == IF f.user THEN U ELSE T
  <1>1. ProcOK(P) /\ P.state = "new" BY DEF TrapInv, forkret
  <1>2. DOMAIN P = ProcFields /\ IsNew(P)
    BY <1>1, WhereItIs DEF Outside, InUser, InThread, InTrap, CallFrame, OuterFrame, InNestedTrap
  <1>3. NewFrame(P, f) BY <1>2 DEF IsNew
  <1>4. At(current, P.tf) = f BY <1>3 DEF At, Slot, NewFrame
  <1>5. proc' = [proc EXCEPT ![current] = X] BY <1>4 DEF forkret
  <1>6. current' \in Procs /\ panicked' \in BOOLEAN BY DEF forkret, TrapInv
  <1>7. /\ DOMAIN U = ProcFields /\ U.state = "user" /\ U.frames = <<>> /\ U.own = P.own /\ U.tf = P.tf
        /\ U.asked = P.asked /\ U.got = f.eax
    BY <1>2 DEF ProcFields
  <1>8. /\ DOMAIN T = ProcFields /\ T.state = "kernel" /\ T.frames = <<>> /\ T.own = 1 /\ T.tf = P.tf /\ T.got = P.got
    BY <1>2 DEF ProcFields
  <1> HIDE DEF U, T, P, f
  <1>9. ASSUME f.user = TRUE PROVE ProcOK(U)
    <2>1. Outside(U) BY <1>3, <1>7, <1>9 DEF Outside, InUser, Answered, NewFrame
    <2> QED BY <1>3, <1>7, <2>1, ZeroOK DEF NewFrame
  <1>10. ASSUME f.user = FALSE PROVE ProcOK(T)
    <2>1. Outside(T) BY <1>3, <1>8 DEF Outside, InThread, NewFrame
    <2> QED BY <1>8, <2>1, ZeroOK
  <1>11. f.user = TRUE \/ f.user = FALSE BY <1>3 DEF NewFrame
  <1>12. ProcOK(X) BY <1>9, <1>10, <1>11
  <1> HIDE DEF X
  <1> QED BY <1>5, <1>6, <1>12, ReplaceProc

-----------------------------------------------------------------------------
\* The invariant holds at first, is kept by every step, and says what is claimed.
LEMMA TrapInitOK == TrapInit => TrapInv
  <1> SUFFICES ASSUME TrapInit PROVE TrapInv OBVIOUS
  <1>1. ProcOK(Dead)
    <2>1. DOMAIN Dead = ProcFields /\ Dead.own = 0 BY DEF Dead, ProcFields
    <2>2. Outside(Dead) BY DEF Dead, Outside
    <2> QED BY <2>1, <2>2, ZeroOK
  <1>2. ProcOK(UserMain)
    <2>1. /\ DOMAIN UserMain = ProcFields /\ UserMain.state = "new" /\ UserMain.frames = <<ThreadFrame>>
          /\ UserMain.tf = 1 /\ UserMain.got = None /\ UserMain.own = 0
      BY DEF UserMain, Dead, ProcFields
    <2>2. /\ DOMAIN ThreadFrame = FrameFields /\ ThreadFrame.stage = "copied" /\ ThreadFrame.kind = "thread"
          /\ ThreadFrame.user = FALSE
      BY DEF ThreadFrame, FrameFields
    <2>3. NewFrame(UserMain, ThreadFrame) BY <2>1, <2>2 DEF NewFrame
    <2> QED BY <2>1, <2>2, <2>3, NewOK
  <1> QED BY <1>1, <1>2 DEF TrapInit, TrapInv

LEMMA TrapNextOK == TrapInv /\ [TrapNext]_trapvars => TrapInv'
  <1> SUFFICES ASSUME TrapInv, TrapNext \/ UNCHANGED trapvars PROVE TrapInv' OBVIOUS
  <1>1. ASSUME NEW c \in Calls, user_call(c) PROVE TrapInv' BY <1>1, CallOK
  <1>2. CASE kernel_execve BY <1>2, ExecveOK
  <1>3. CASE interrupt BY <1>3, InterruptOK
  <1>4. CASE page_fault BY <1>4, PageFaultOK
  <1>5. CASE syscall BY <1>5, SyscallOK
  <1>6. CASE sys_return BY <1>6, ReturnOK
  <1>7. CASE sys_fork BY <1>7, ForkOK
  <1>8. CASE sys_fork_fails BY <1>8, ForkFailsOK
  <1>9. CASE sys_exec BY <1>9, ExecOK
  <1>10. CASE do_exit BY <1>10, ExitOK
  <1>11. CASE schedule BY <1>11, ScheduleOK
  <1>12. CASE trap_end BY <1>12, TrapEndOK
  <1>13. CASE trapret BY <1>13, TrapretOK
  <1>14. CASE forkret BY <1>14, ForkretOK
  <1>15. CASE Halt \/ UNCHANGED trapvars BY <1>15, HaltOK DEF Halt
  <1> QED BY <1>1, <1>2, <1>3, <1>4, <1>5, <1>6, <1>7, <1>8, <1>9, <1>10, <1>11, <1>12, <1>13, <1>14, <1>15 DEF TrapNext

\* The frames of one process, and where its tf leads to.
LEMMA ChainOK ==
  ASSUME NEW P, ProcOK(P), P.state # "free"
  PROVE  LET handled == {k \in 1..Len(P.frames) : P.frames[k].stage \in {"entered", "running", "done"}}
         IN  P.tf = IF handled = {} THEN 1 ELSE P.own + Max(handled)
  <1> DEFINE handled == {k \in 1..Len(P.frames) : P.frames[k].stage \in {"entered", "running", "done"}}
  <1>1. Max({1}) = 1 /\ Max({2}) = 2 /\ Max({1, 2}) = 2 BY DEF Max
  <1>0. P.own \in {0, 1} BY WhereItIs
  <1>2. CASE Outside(P) BY <1>2 DEF Outside
  <1>3. CASE Len(P.frames) = 1 /\ IsNew(P)
    <2>1. handled = {} BY <1>3 DEF IsNew, NewFrame
    <2> QED BY <1>3, <2>1 DEF IsNew, NewFrame
  <1>4. CASE Len(P.frames) = 1 /\ InTrap(P)
    <2> DEFINE f == P.frames[1]
    <2>1. /\ P.tf = LeadsTo(f, P.own + 1) /\ f.otf = 1
          /\ f.stage \in {"entered", "running", "done", "restored"}
      BY <1>4 DEF InTrap, CallFrame, OuterFrame, InnerFrame
    <2>2. CASE f.stage = "restored"
      <3>1. handled = {} BY <1>4, <2>2
      <3> QED BY <2>1, <2>2, <3>1 DEF LeadsTo
    <2>3. CASE f.stage # "restored"
      <3>1. handled = {1} BY <1>4, <2>1, <2>3
      <3> QED BY <1>1, <2>1, <2>3, <3>1 DEF LeadsTo
    <2> QED BY <2>2, <2>3
  <1>5. CASE Len(P.frames) = 2 /\ InNestedTrap(P)
    <2> DEFINE f == P.frames[1]
               g == P.frames[2]
    <2>1. /\ P.tf = LeadsTo(g, P.own + 2) /\ g.otf = LeadsTo(f, P.own + 1) /\ f.otf = 1
          /\ f.stage \in {"entered", "running", "done", "restored"} /\ g.stage \in {"entered", "restored"}
      BY <1>5 DEF InNestedTrap, CallFrame, InnerFrame
    <2>2. handled = {k \in {1, 2} : P.frames[k].stage \in {"entered", "running", "done"}} BY <1>5
    <2>3. CASE f.stage = "restored" /\ g.stage = "restored"
      <3>1. handled = {} BY <2>2, <2>3
      <3> QED BY <2>1, <2>3, <3>1 DEF LeadsTo
    <2>4. CASE f.stage # "restored" /\ g.stage = "restored"
      <3>1. handled = {1} BY <2>1, <2>2, <2>4
      <3> QED BY <1>1, <2>1, <2>4, <3>1 DEF LeadsTo
    <2>5. CASE g.stage # "restored"
      <3>1. handled = {2} \/ handled = {1, 2} BY <2>1, <2>2, <2>5
      <3> QED BY <1>1, <2>1, <2>5, <3>1 DEF LeadsTo
    <2> QED BY <2>3, <2>4, <2>5
  <1> QED BY <1>2, <1>3, <1>4, <1>5 DEF ProcOK

LEMMA TrapInvResults == TrapInv => ResultsReachTheirCaller
  <1> SUFFICES ASSUME TrapInv PROVE ResultsReachTheirCaller OBVIOUS
  <1>1. ASSUME NEW p \in Procs, User(p), proc[p].got # None PROVE proc[p].got \in Answers(proc[p].asked)
    <2>1. ProcOK(proc[p]) /\ Len(proc[p].frames) = 0 /\ proc[p].state = "user" BY <1>1 DEF TrapInv, User, Top
    <2>2. Outside(proc[p]) BY <2>1, WhereItIs
    <2> QED BY <1>1, <2>1, <2>2 DEF Outside, InUser, InThread, Answered
  <1>2. FramesAreChained
    <2> SUFFICES ASSUME NEW p \in Procs, proc[p].state # "free"
                 PROVE  LET handled == {k \in 1..Top(p) : proc[p].frames[k].stage \in {"entered", "running", "done"}}
                        IN  proc[p].tf = IF handled = {} THEN 1 ELSE proc[p].own + Max(handled)
      BY DEF FramesAreChained
    <2>1. ProcOK(proc[p]) BY DEF TrapInv
    <2> QED BY <2>1, ChainOK DEF Top
  <1> QED BY <1>1, <1>2 DEF ResultsReachTheirCaller

\* Whatever interrupts, page faults and other processes come between, a program that is
\* back in user mode has the result of its own call, and current->tf leads to the innermost
\* frame that is being handled, or to the top of the kernel stack while none is (trap.c,
\* trapentry.S, syscall.c, copy_thread, forkret and load_icode of proc.c).
THEOREM CallersGetTheirResults == TrapSpec => []ResultsReachTheirCaller
  <1>1. TrapInit => TrapInv BY TrapInitOK
  <1>2. TrapInv /\ [TrapNext]_trapvars => TrapInv' BY TrapNextOK
  <1>3. TrapInv => ResultsReachTheirCaller BY TrapInvResults
  <1> QED BY <1>1, <1>2, <1>3, PTL DEF TrapSpec

-----------------------------------------------------------------------------
(* Booting (module Boot), for every sector size and every kernel that the      *)
(* linker can make.                                                            *)

End(n) == Header(n).p_va + Header(n).p_memsz

\* The bytes of segment n before address e are those of the file.
InMemory(n, e) ==
  \A b \in Header(n).p_va..(e - 1) : b \in DOMAIN kmem /\ kmem[b] = File(Header(n).p_offset + b - Header(n).p_va)

\* readseg: secno is the sector that belongs at va, and what has been read is in memory.
Reading ==
  /\ ph \in 0..Len(image) /\ va \in Int /\ secno \in Int /\ va >= SegStart(Phdr).va
  /\ (secno - 1) * SECTSIZE = va + Phdr.p_offset - Phdr.p_va
  /\ ph > 0 => magic_ok
  /\ \A n \in 0..Len(image) : n < ph => InMemory(n, End(n))
  /\ InMemory(ph, va)

MemoryInv ==
  /\ kpc = -1 => Reading
  /\ kpc = 0 => \A n \in 0..Len(image) : InMemory(n, End(n))
  /\ KernelIsExact

\* The parts of the kernel in the order of kern_init.
ReadyInv ==
  /\ kpc >= 2 => "console" \in ready
  /\ kpc >= 3 => "pmm_init" \in ready
  /\ kpc >= 5 => "idt_init" \in ready
  /\ kpc >= 7 => "sched_init" \in ready
  /\ kpc >= 8 => "proc_init" \in ready
  /\ kpc >= 9 => "ide_init" \in ready
  /\ kpc >= 11 => "fs_init" \in ready

\* The mask has the requests of the drivers, the controllers have it from pic_init on, and
\* interrupts are enabled at the very end.
IrqInv ==
  /\ did_init <=> kpc >= 4
  /\ kpc >= 4 => unmasked = irq_mask
  /\ kpc >= 2 => IRQ_KBD \in irq_mask /\ (serial_exists => IRQ_COM1 \in irq_mask)
  /\ kpc >= 9 => IRQ_IDE \in irq_mask
  /\ kpc >= 12 => IRQ_TIMER \in irq_mask
  /\ IF_flag => kpc = 13

BootInv ==
  /\ image \in Images /\ kpc \in -2..13 /\ early = {}
  /\ MemoryInv /\ ReadyInv /\ IrqInv

-----------------------------------------------------------------------------
\* The headers and the segments: those that are not empty lie one behind the other, and all
\* but the last are completely in the file.
LEMMA SegmentsAre ==
  ASSUME image \in Images
  PROVE  /\ Len(image) \in Nat /\ Len(image) > 0 /\ DOMAIN image = 1..Len(image)
         /\ \A n \in 0..Len(image) :
              /\ Header(n).p_va \in Nat /\ Header(n).p_offset \in Nat /\ Header(n).p_filesz \in Nat
              /\ Header(n).p_memsz \in Nat /\ Header(n).p_filesz <= Header(n).p_memsz
              /\ End(n) \in Nat
         /\ \A i, j \in 0..Len(image) : i < j /\ ~Empty(Header(i)) /\ ~Empty(Header(j)) =>
              End(i) <= SegStart(Header(j)).va /\ Header(i).p_filesz = Header(i).p_memsz
  <1>1. Linked(image) /\ SECTSIZE \in Nat /\ SECTSIZE > 0 /\ ELFHDR \in Nat BY BootAssumption
  <1>2. image \in Seq([p_va : Nat, p_offset : Nat, p_filesz : Nat, p_memsz : Nat]) BY <1>1 DEF Linked
  <1>3. \A n \in 1..Len(image) : image[n] \in [p_va : Nat, p_offset : Nat, p_filesz : Nat, p_memsz : Nat]
    BY <1>2, ElementOfSeq
  <1>4. Len(image) \in Nat /\ DOMAIN image = 1..Len(image) /\ Len(image) > 0 BY <1>1, <1>2 DEF Linked
  <1>5. Header(0) = FirstPage /\ \A n \in 1..Len(image) : Header(n) = image[n] BY DEF Header
  <1>6. /\ FirstPage.p_va = ELFHDR /\ FirstPage.p_offset = 0 /\ FirstPage.p_filesz = 8 * SECTSIZE
        /\ FirstPage.p_memsz = 8 * SECTSIZE
    BY DEF FirstPage
  <1>7. 8 * SECTSIZE \in Nat BY <1>1
  <1>8. ASSUME NEW n \in 0..Len(image)
        PROVE  /\ Header(n).p_va \in Nat /\ Header(n).p_offset \in Nat /\ Header(n).p_filesz \in Nat
               /\ Header(n).p_memsz \in Nat /\ Header(n).p_filesz <= Header(n).p_memsz /\ End(n) \in Nat
    <2>1. CASE n = 0 BY <1>1, <1>5, <1>6, <1>7, <2>1 DEF End
    <2>2. CASE n \in 1..Len(image)
      <3>1. Header(n) = image[n] /\ image[n] \in [p_va : Nat, p_offset : Nat, p_filesz : Nat, p_memsz : Nat]
        BY <1>3, <1>5, <2>2
      <3>2. image[n].p_filesz <= image[n].p_memsz BY <1>1, <2>2 DEF Linked
      <3> QED BY <3>1, <3>2 DEF End
    <2> QED BY <1>4, <2>1, <2>2
  <1>9. ASSUME NEW i \in 0..Len(image), NEW j \in 0..Len(image), i < j, ~Empty(Header(i)), ~Empty(Header(j))
        PROVE  End(i) <= SegStart(Header(j)).va /\ Header(i).p_filesz = Header(i).p_memsz
    <2>1. j \in 1..Len(image) /\ Header(j) = image[j] BY <1>4, <1>5, <1>9
    <2>2. CASE i = 0
      <3>1. End(i) = ELFHDR + 8 * SECTSIZE /\ Header(i).p_filesz = Header(i).p_memsz BY <1>5, <1>6, <2>2 DEF End
      <3> QED BY <1>1, <1>9, <2>1, <3>1 DEF Linked
    <2>3. CASE i \in 1..Len(image)
      <3>1. Header(i) = image[i] BY <1>5, <2>3
      <3> QED BY <1>1, <1>9, <2>1, <2>3, <3>1 DEF Linked, End
    <2> QED BY <1>4, <2>2, <2>3
  <1> QED BY <1>4, <1>8, <1>9

\* Where a segment begins in memory and on the disk.
LEMMA StartIs ==
  ASSUME NEW s, s.p_va \in Nat, s.p_offset \in Nat
  PROVE  /\ SegStart(s).va \in Int /\ SegStart(s).secno \in Int /\ SegStart(s).va <= s.p_va
         /\ (SegStart(s).secno - 1) * SECTSIZE = SegStart(s).va + s.p_offset - s.p_va
  <1> DEFINE o == s.p_offset
             d == o \div SECTSIZE
             m == o % SECTSIZE
             x == SECTSIZE * d
  <1>0. SECTSIZE \in Nat /\ SECTSIZE > 0 /\ o \in Nat BY BootAssumption
  <1>1. d \in Int /\ m \in Nat /\ o = SECTSIZE * d + m /\ x \in Int
    <2> HIDE DEF o
    <2>1. d \in Int BY <1>0
    <2>2. (o % SECTSIZE) \in Nat BY <1>0
    <2>3. o = SECTSIZE * (o \div SECTSIZE) + (o % SECTSIZE) BY <1>0
    <2>4. x \in Int
      <3> HIDE DEF d
      <3> QED BY <1>0, <2>1
    <2> QED BY <2>1, <2>2, <2>3, <2>4
  <1>2. SegStart(s).va = s.p_va - m /\ SegStart(s).secno = d + 1 BY DEF SegStart
  <1> HIDE DEF d, m
  <1>3. SegStart(s).secno - 1 = d BY <1>1, <1>2
  <1>4. d * SECTSIZE = x BY <1>1, BootAssumption
  <1>5. o = x + m BY <1>1
  <1> HIDE DEF x
  <1>6. x = (s.p_va - m) + s.p_offset - s.p_va BY <1>1, <1>5
  <1>7. s.p_va - m \in Int /\ s.p_va - m <= s.p_va /\ d + 1 \in Int BY <1>1
  <1> QED BY <1>2, <1>3, <1>4, <1>6, <1>7

LEMMA BootStart == BootInit => BootInv
  <1> SUFFICES ASSUME BootInit PROVE BootInv OBVIOUS
  <1>1. image \in Images /\ kpc = -1 /\ early = {} /\ ph = 0 BY DEF BootInit
  <1>2. /\ Len(image) \in Nat /\ 0 \in 0..Len(image) /\ Header(0) = FirstPage
        /\ FirstPage.p_va \in Nat /\ FirstPage.p_offset \in Nat
    BY <1>1, SegmentsAre DEF Header
  <1>3. va = SegStart(FirstPage).va /\ secno = SegStart(FirstPage).secno BY DEF BootInit
  <1>4. /\ va \in Int /\ secno \in Int /\ va <= FirstPage.p_va
        /\ (secno - 1) * SECTSIZE = va + FirstPage.p_offset - FirstPage.p_va
    BY <1>2, <1>3, StartIs
  <1>5. InMemory(0, va) BY <1>2, <1>4 DEF InMemory
  <1>6. Reading BY <1>1, <1>2, <1>3, <1>4, <1>5 DEF Reading, Phdr
  <1>7. MemoryInv BY <1>1, <1>6 DEF MemoryInv, KernelIsExact
  <1>8. ReadyInv /\ IrqInv BY <1>1 DEF ReadyInv, IrqInv, BootInit
  <1> QED BY <1>1, <1>7, <1>8 DEF BootInv

LEMMA FirstPageIs == FirstPage.p_va \in Nat /\ FirstPage.p_offset \in Nat /\ FirstPage.p_memsz \in Nat
  BY BootAssumption DEF FirstPage

\* While segments are read the first page stays as it is in the file.
LEMMA HeadersStay ==
  ASSUME NEW M,
         \A b \in FirstPage.p_va..(FirstPage.p_va + FirstPage.p_memsz - 1) :
           b \in DOMAIN M /\ M[b] = File(FirstPage.p_offset + b - FirstPage.p_va)
  PROVE  \A b \in ELFHDR..(ELFHDR + 8 * SECTSIZE - 1) : b \in DOMAIN M /\ M[b] = File(b - ELFHDR)
  <1>1. FirstPage.p_va = ELFHDR /\ FirstPage.p_offset = 0 /\ FirstPage.p_memsz = 8 * SECTSIZE BY DEF FirstPage
  <1>2. ELFHDR \in Nat /\ 8 * SECTSIZE \in Nat BY BootAssumption
  <1>3. \A b \in Int : 0 + b - ELFHDR = b - ELFHDR BY <1>2
  <1> QED BY <1>1, <1>2, <1>3

\* A sector is read.
LEMMA ReadStep ==
  ASSUME BootInv, readseg
  PROVE  BootInv'
  <1>1. /\ image \in Images /\ kpc = -1 /\ Reading /\ va' = va + SECTSIZE /\ secno' = secno + 1
        /\ kmem' = readsect(va, secno) /\ UNCHANGED <<image, magic_ok, ph, kpc, serial_exists>> /\ UNCHANGED kernvars
        /\ va < Phdr.p_va + Phdr.p_memsz
    BY DEF BootInv, MemoryInv, readseg
  <1>2. /\ ph \in 0..Len(image) /\ va \in Int /\ (ph > 0 => magic_ok) /\ secno \in Int /\ va >= SegStart(Phdr).va
        /\ (secno - 1) * SECTSIZE = va + Phdr.p_offset - Phdr.p_va
        /\ \A n \in 0..Len(image) : n < ph => InMemory(n, End(n))
        /\ InMemory(ph, va)
    BY <1>1 DEF Reading
  <1>3. SECTSIZE \in Nat /\ SECTSIZE > 0 BY BootAssumption
  <1>4. Len(image) \in Nat /\ Phdr.p_va \in Nat /\ Phdr.p_offset \in Nat BY <1>1, <1>2, SegmentsAre DEF Phdr
  <1> DEFINE new == va..(va + SECTSIZE - 1)
  <1>5. /\ DOMAIN kmem' = DOMAIN kmem \cup new
        /\ \A b \in DOMAIN kmem \cup new :
             kmem'[b] = IF b \in new THEN File((secno - 1) * SECTSIZE + b - va) ELSE kmem[b]
    BY <1>1 DEF readsect, Overwritten
  <1>6. \A b \in new : b \in DOMAIN kmem' /\ kmem'[b] = File(Phdr.p_offset + b - Phdr.p_va)
    <2> SUFFICES ASSUME NEW b \in new PROVE b \in DOMAIN kmem' /\ kmem'[b] = File(Phdr.p_offset + b - Phdr.p_va) OBVIOUS
    <2>1. (va + Phdr.p_offset - Phdr.p_va) + b - va = Phdr.p_offset + b - Phdr.p_va BY <1>2, <1>4
    <2>2. kmem'[b] = File((secno - 1) * SECTSIZE + b - va) BY <1>5
    <2> QED BY <1>2, <1>5, <2>1, <2>2
  <1>7. \A b \in DOMAIN kmem : b \notin new => b \in DOMAIN kmem' /\ kmem'[b] = kmem[b] BY <1>5
  <1>8. SegStart(Phdr).va \in Int BY <1>4, StartIs
  <1>h. \A n \in 0..Len(image) : Header(n)' = Header(n) BY <1>1 DEF Header
  <1>e. ~Empty(Phdr)
    <2>1. ASSUME Empty(Phdr) PROVE FALSE
      <3>1. Phdr.p_memsz = 0 /\ Phdr.p_offset = 0 BY <2>1 DEF Empty
      <3>2. 0 % SECTSIZE = 0 BY <1>3
      <3>3. SegStart(Phdr).va = Phdr.p_va BY <1>4, <3>1, <3>2 DEF SegStart
      <3> QED BY <1>1, <1>2, <1>4, <3>1, <3>3
    <2> QED BY <2>1
  <1>9. ASSUME NEW n \in 0..Len(image), n < ph PROVE InMemory(n, End(n))'
    <2>1. End(n) \in Nat /\ Header(n).p_va \in Nat BY <1>1, <1>9, SegmentsAre
    <2>a. Empty(Header(n)) => End(n) = Header(n).p_va BY <2>1 DEF Empty, End
    <2>b. ~Empty(Header(n)) => End(n) <= SegStart(Phdr).va BY <1>1, <1>2, <1>e, <1>9, SegmentsAre DEF Phdr
    <2>2. InMemory(n, End(n)) BY <1>2, <1>9
    <2>3. End(n)' = End(n) BY <1>h DEF End
    <2>4. ASSUME NEW b \in Header(n).p_va..(End(n) - 1)
          PROVE  b \in DOMAIN kmem' /\ kmem'[b] = File(Header(n).p_offset + b - Header(n).p_va)
      <3>0. ~Empty(Header(n)) BY <2>1, <2>a
      <3>1. b \notin new BY <1>2, <1>3, <1>8, <2>1, <2>b, <3>0
      <3>2. b \in DOMAIN kmem /\ kmem[b] = File(Header(n).p_offset + b - Header(n).p_va) BY <2>2 DEF InMemory
      <3> QED BY <1>7, <3>1, <3>2
    <2> QED BY <1>h, <2>3, <2>4 DEF InMemory
  <1>10. InMemory(ph, va)'
    <2>1. ASSUME NEW b \in Phdr.p_va..(va + SECTSIZE - 1)
          PROVE  b \in DOMAIN kmem' /\ kmem'[b] = File(Phdr.p_offset + b - Phdr.p_va)
      <3>1. CASE b \in new BY <1>6, <3>1
      <3>2. CASE b \notin new
        <4>1. b \in Phdr.p_va..(va - 1) BY <1>2, <1>3, <1>4, <3>2
        <4>2. b \in DOMAIN kmem /\ kmem[b] = File(Phdr.p_offset + b - Phdr.p_va) BY <1>2, <4>1 DEF InMemory, Phdr
        <4> QED BY <1>7, <3>2, <4>2
      <3> QED BY <3>1, <3>2
    <2>2. ph' = ph /\ image' = image /\ va' = va + SECTSIZE BY <1>1
    <2>3. va' - 1 = va + SECTSIZE - 1 /\ Header(ph)' = Phdr BY <1>2, <1>3, <2>2 DEF Phdr, Header
    <2>4. \A b \in Header(ph)'.p_va..(va' - 1) :
            b \in DOMAIN kmem' /\ kmem'[b] = File(Header(ph)'.p_offset + b - Header(ph)'.p_va)
      BY <2>1, <2>3
    <2> QED BY <2>4 DEF InMemory
  <1>11. (secno' - 1) * SECTSIZE = va' + Phdr.p_offset - Phdr.p_va
    <2>1. (secno + 1 - 1) * SECTSIZE = (secno - 1) * SECTSIZE + SECTSIZE BY <1>2, <1>3
    <2>2. (secno' - 1) * SECTSIZE = (secno - 1) * SECTSIZE + SECTSIZE
      <3>1. secno' - 1 = secno BY <1>1, <1>2
      <3>2. (secno - 1) * SECTSIZE + SECTSIZE = secno * SECTSIZE BY <1>2, <1>3
      <3> QED BY <3>1, <3>2
    <2> DEFINE x == (secno - 1) * SECTSIZE
               o == Phdr.p_offset
               w == Phdr.p_va
    <2>3. x = va + o - w /\ va' = va + SECTSIZE /\ o \in Int /\ w \in Int /\ va \in Int BY <1>1, <1>2, <1>4
    <2>4. (secno' - 1) * SECTSIZE = x + SECTSIZE BY <2>2
    <2> HIDE DEF x, o, w
    <2>5. x + SECTSIZE = va' + o - w BY <1>3, <2>3
    <2> QED BY <2>4, <2>5 DEF o, w
  <1>12. va' \in Int /\ secno' \in Int /\ va' >= SegStart(Phdr).va BY <1>1, <1>2, <1>3, <1>8
  <1>13. Phdr' = Phdr BY <1>1 DEF Phdr, Header
  <1>14. \A n \in 0..Len(image') : n < ph' => InMemory(n, End(n))' BY <1>1, <1>9
  <1>15. Reading'
    BY <1>1, <1>2, <1>10, <1>11, <1>12, <1>13, <1>14 DEF Reading, SegStart
  <1>18. ph' > 0 => \A b \in ELFHDR..(ELFHDR + 8 * SECTSIZE - 1) : b \in DOMAIN kmem' /\ kmem'[b] = File(b - ELFHDR)
    <2> SUFFICES ASSUME ph' > 0 PROVE \A b \in ELFHDR..(ELFHDR + 8 * SECTSIZE - 1) : b \in DOMAIN kmem' /\ kmem'[b] = File(b - ELFHDR)
      OBVIOUS
    <2>1. InMemory(0, End(0))' BY <1>1, <1>2, <1>4, <1>14
    <2>2. \A b \in (Header(0)').p_va..((End(0)') - 1) :
            b \in DOMAIN kmem' /\ kmem'[b] = File((Header(0)').p_offset + b - (Header(0)').p_va)
      BY <2>1 DEF InMemory
    <2>3. (Header(0)') = FirstPage BY DEF Header, FirstPage
    <2>4. (End(0)') = FirstPage.p_va + FirstPage.p_memsz BY <2>3 DEF End
    <2>5. \A b \in FirstPage.p_va..(FirstPage.p_va + FirstPage.p_memsz - 1) :
            b \in DOMAIN kmem' /\ kmem'[b] = File(FirstPage.p_offset + b - FirstPage.p_va)
      BY <2>2, <2>3, <2>4, FirstPageIs
    <2> QED BY <2>5, HeadersStay
  <1>16. MemoryInv' BY <1>1, <1>15, <1>18 DEF MemoryInv, KernelIsExact
  <1>17. ReadyInv' /\ IrqInv' /\ early' = {} /\ kpc' \in -2..13
    BY <1>1 DEF BootInv, ReadyInv, IrqInv, kernvars
  <1> QED BY <1>1, <1>16, <1>17 DEF BootInv

\* A segment is complete.
LEMMA NextSegmentStep ==
  ASSUME BootInv, bootmain
  PROVE  BootInv'
  <1>1. /\ image \in Images /\ kpc = -1 /\ Reading /\ va >= Phdr.p_va + Phdr.p_memsz
        /\ UNCHANGED <<image, magic_ok, kmem, serial_exists>> /\ UNCHANGED kernvars
        /\ IF ph = 0 /\ ~magic_ok THEN kpc' = -2 /\ UNCHANGED <<ph, va, secno>>
           ELSE IF ph = Len(image) THEN kpc' = 0 /\ UNCHANGED <<ph, va, secno>>
           ELSE /\ ph' = ph + 1 /\ kpc' = kpc
                /\ va' = SegStart(Header(ph + 1)).va /\ secno' = SegStart(Header(ph + 1)).secno
    BY DEF BootInv, MemoryInv, bootmain
  <1>2. /\ ph \in 0..Len(image) /\ va \in Int /\ InMemory(ph, va) /\ (ph > 0 => magic_ok)
        /\ \A n \in 0..Len(image) : n < ph => InMemory(n, End(n))
    BY <1>1 DEF Reading
  <1>3. Len(image) \in Nat /\ Len(image) > 0 /\ End(ph) \in Nat /\ Header(ph).p_va \in Nat /\ va >= End(ph)
    BY <1>1, <1>2, SegmentsAre DEF Phdr, End
  <1>4. InMemory(ph, End(ph))
    <2>1. Header(ph).p_va..(End(ph) - 1) \subseteq Header(ph).p_va..(va - 1) BY <1>2, <1>3
    <2> QED BY <1>2, <2>1 DEF InMemory
  <1>5. \A n \in 0..Len(image) : n <= ph => InMemory(n, End(n)) BY <1>2, <1>3, <1>4
  <1>h. \A n : Header(n)' = IF n = 0 THEN FirstPage ELSE image[n] BY <1>1 DEF Header
  <1>i. \A n \in 0..Len(image) : Header(n)' = Header(n) /\ End(n)' = End(n) BY <1>h DEF Header, End
  <1>6. \A n \in 0..Len(image) : n <= ph => InMemory(n, End(n))'
    BY <1>1, <1>5, <1>i DEF InMemory
  <1>7. ReadyInv' /\ IrqInv' /\ early' = {} /\ kpc' \in -2..13
    BY <1>1 DEF BootInv, ReadyInv, IrqInv, kernvars
  <1>10. CASE ph = 0 /\ ~magic_ok
    <2>1. kpc' = -2 BY <1>1, <1>10
    <2>2. MemoryInv' BY <2>1 DEF MemoryInv, KernelIsExact
    <2> QED BY <1>1, <1>7, <2>2 DEF BootInv
  <1>8. CASE ph = Len(image)
    <2>1. kpc' = 0 /\ magic_ok' BY <1>1, <1>2, <1>3, <1>8
    <2>2. \A n \in 0..Len(image') : InMemory(n, End(n))' BY <1>1, <1>3, <1>6, <1>8
    <2>3. MemoryInv' BY <2>1, <2>2 DEF MemoryInv, KernelIsExact
    <2> QED BY <1>1, <1>7, <2>3 DEF BootInv
  <1>9. CASE ph # Len(image) /\ ~(ph = 0 /\ ~magic_ok)
    <2> DEFINE q == ph + 1
    <2>1. q \in 0..Len(image) /\ ph' = q /\ kpc' = -1 /\ magic_ok' BY <1>1, <1>2, <1>3, <1>9
    <2>2. Header(q).p_va \in Nat /\ Header(q).p_offset \in Nat BY <1>1, <2>1, SegmentsAre
    <2>3. va' = SegStart(Header(q)).va /\ secno' = SegStart(Header(q)).secno BY <1>1, <1>9
    <2>7. Phdr' = Header(q) /\ Header(ph)' = Header(q) BY <1>1, <2>1 DEF Phdr, Header
    <2> HIDE DEF q
    <2>4. /\ va' \in Int /\ secno' \in Int /\ va' <= Header(q).p_va
          /\ (secno' - 1) * SECTSIZE = va' + Header(q).p_offset - Header(q).p_va
      BY <2>2, <2>3, StartIs
    <2>5. InMemory(ph, va)'
      <3>1. Header(q).p_va..(va' - 1) = {} BY <2>2, <2>4
      <3> QED BY <2>7, <3>1 DEF InMemory
    <2>6. \A n \in 0..Len(image') : n < ph' => InMemory(n, End(n))'
      <3>1. \A n \in 0..Len(image) : n < q => n <= ph BY <1>2, <1>3 DEF q
      <3> QED BY <1>1, <1>6, <2>1, <3>1
    <2>8. va' >= SegStart(Phdr').va BY <2>3, <2>4, <2>7
    <2>9. Reading' BY <1>1, <2>1, <2>4, <2>5, <2>6, <2>7, <2>8 DEF Reading, SegStart
    <2>11. ph' > 0 => \A b \in ELFHDR..(ELFHDR + 8 * SECTSIZE - 1) : b \in DOMAIN kmem' /\ kmem'[b] = File(b - ELFHDR)
      <3>0. 0 \in 0..Len(image') /\ 0 < ph' BY <1>1, <1>2, <1>3, <2>1 DEF q
      <3>1. InMemory(0, End(0))' BY <2>6, <3>0, Zenon
      <3>2. \A b \in (Header(0)').p_va..((End(0)') - 1) :
              b \in DOMAIN kmem' /\ kmem'[b] = File((Header(0)').p_offset + b - (Header(0)').p_va)
        BY <3>1 DEF InMemory
      <3>3. (Header(0)') = FirstPage BY DEF Header, FirstPage
      <3>4. (End(0)') = FirstPage.p_va + FirstPage.p_memsz BY <3>3 DEF End
      <3>5. \A b \in FirstPage.p_va..(FirstPage.p_va + FirstPage.p_memsz - 1) :
              b \in DOMAIN kmem' /\ kmem'[b] = File(FirstPage.p_offset + b - FirstPage.p_va)
        BY <3>2, <3>3, <3>4, FirstPageIs
      <3> QED BY <3>5, HeadersStay
    <2>10. MemoryInv' BY <2>1, <2>9, <2>11 DEF MemoryInv, KernelIsExact
    <2> QED BY <1>1, <1>7, <2>10 DEF BootInv
  <1> QED BY <1>8, <1>9, <1>10

-----------------------------------------------------------------------------
\* What stands at each place of kern_init.
LEMMA StepsAre ==
  /\ Len(kern_init) = 13
  /\ kern_init[1] = "memset" /\ kern_init[2] = "cons_init" /\ kern_init[3] = "pmm_init"
  /\ kern_init[4] = "pic_init" /\ kern_init[5] = "idt_init" /\ kern_init[6] = "vmm_init"
  /\ kern_init[7] = "sched_init" /\ kern_init[8] = "proc_init" /\ kern_init[9] = "ide_init"
  /\ kern_init[10] = "swap_init" /\ kern_init[11] = "fs_init" /\ kern_init[12] = "clock_init"
  /\ kern_init[13] = "intr_enable"
  BY DEF kern_init

\* The bss is cleared and the data stay.
LEMMA ClearedMemory ==
  ASSUME image \in Images, \A n \in 0..Len(image) : InMemory(n, End(n)), clear_bss, UNCHANGED image
  PROVE  \A n \in DOMAIN image : \A b \in image[n].p_va..(image[n].p_va + image[n].p_memsz - 1) :
           /\ b \in DOMAIN kmem'
           /\ kmem'[b] = IF b < image[n].p_va + image[n].p_filesz THEN File(image[n].p_offset + b - image[n].p_va)
                         ELSE Zero
  <1> DEFINE z == Len(image)
             bss(m) == (image[m].p_va + image[m].p_filesz)..(image[m].p_va + image[m].p_memsz - 1)
  <1>1. /\ DOMAIN kmem' = DOMAIN kmem \cup Bss
        /\ \A b \in DOMAIN kmem \cup Bss : kmem'[b] = IF b \in Bss THEN Zero ELSE kmem[b]
    BY DEF clear_bss, Overwritten
  <1>2. z \in Nat /\ DOMAIN image = 1..z BY SegmentsAre
  <1>3. ASSUME NEW n \in 1..z
        PROVE  /\ Header(n) = image[n] /\ End(n) = image[n].p_va + image[n].p_memsz /\ n \in 0..z
               /\ image[n].p_va \in Nat /\ image[n].p_filesz \in Nat /\ image[n].p_memsz \in Nat
               /\ image[n].p_filesz <= image[n].p_memsz
    <2>1. Header(n) = image[n] /\ n \in 0..z BY <1>2 DEF Header
    <2> QED BY <2>1, SegmentsAre DEF End
  <1>4. \A b : b \in Bss <=> \E m \in 1..z : b \in bss(m) BY <1>2 DEF Bss
  <1> SUFFICES ASSUME NEW n \in DOMAIN image, NEW b \in image[n].p_va..(image[n].p_va + image[n].p_memsz - 1)
               PROVE  /\ b \in DOMAIN kmem'
                      /\ kmem'[b] = IF b < image[n].p_va + image[n].p_filesz
                                    THEN File(image[n].p_offset + b - image[n].p_va) ELSE Zero
    OBVIOUS
  <1>5. n \in 1..z /\ b \in Int BY <1>2, <1>3
  <1>6. b \in DOMAIN kmem /\ kmem[b] = File(image[n].p_offset + b - image[n].p_va)
    <2>1. InMemory(n, End(n)) /\ Header(n) = image[n] /\ b \in image[n].p_va..(End(n) - 1) BY <1>3, <1>5
    <2> QED BY <2>1 DEF InMemory
  <1>7. ASSUME NEW m \in 1..z, b \in bss(m) PROVE m = n
    <2>1. /\ image[m].p_va \in Nat /\ image[m].p_filesz \in Nat /\ image[m].p_memsz \in Nat
          /\ Header(m) = image[m] /\ End(m) = image[m].p_va + image[m].p_memsz
      BY <1>3
    <2>2. /\ image[n].p_va \in Nat /\ image[n].p_memsz \in Nat
          /\ Header(n) = image[n] /\ End(n) = image[n].p_va + image[n].p_memsz
      BY <1>3, <1>5
    <2>3. image[m].p_va + image[m].p_filesz <= b /\ b < image[m].p_va + image[m].p_memsz BY <1>5, <1>7, <2>1
    <2>4. image[n].p_va <= b /\ b < image[n].p_va + image[n].p_memsz BY <1>5, <2>2
    <2>5. ~Empty(Header(m)) /\ ~Empty(Header(n)) BY <1>5, <2>1, <2>2, <2>3, <2>4 DEF Empty
    <2>6. m \in 0..z /\ n \in 0..z /\ m \in Int /\ n \in Int BY <1>2, <1>5
    <2>7. CASE m < n
      <3>1. image[m].p_filesz = image[m].p_memsz BY <2>1, <2>5, <2>6, <2>7, SegmentsAre
      <3> QED BY <1>5, <2>1, <2>3, <3>1
    <2>8. CASE n < m
      <3>1. End(n) <= SegStart(image[m]).va BY <2>1, <2>5, <2>6, <2>8, SegmentsAre
      <3>a. image[m].p_offset \in Nat BY <2>1, <2>6, SegmentsAre
      <3>2. SegStart(image[m]).va \in Int /\ SegStart(image[m]).va <= image[m].p_va BY <2>1, <3>a, StartIs
      <3> DEFINE e == image[n].p_va + image[n].p_memsz
                 v == SegStart(image[m]).va
                 w == image[m].p_va
      <3>3. e \in Int /\ v \in Int /\ w \in Int /\ b < e /\ e <= v /\ v <= w /\ w <= b
        <4>1. w \in Int /\ w <= b BY <1>5, <2>1, <2>3
        <4>2. e \in Int /\ b < e /\ e <= v BY <1>5, <2>2, <2>4, <3>1
        <4> QED BY <3>2, <4>1, <4>2
      <3> HIDE DEF e, v, w
      <3> QED BY <1>5, <3>3
    <2> QED BY <2>6, <2>7, <2>8
  <1>8. b \in Bss <=> b \in bss(n) BY <1>4, <1>5, <1>7
  <1>9. b \in bss(n) <=> ~(b < image[n].p_va + image[n].p_filesz) BY <1>3, <1>5
  <1> HIDE DEF bss
  <1> QED BY <1>1, <1>6, <1>8, <1>9

\* A step of kern_init leaves what the later steps and the interrupts need.
LEMMA InitStep ==
  ASSUME BootInv, init_step
  PROVE  BootInv'
  <1> DEFINE step == kern_init[kpc + 1]
  <1>1. /\ kpc \in 0..12 /\ kpc' = kpc + 1 /\ image \in Images /\ early = {}
        /\ UNCHANGED <<image, magic_ok, ph, va, secno, serial_exists>>
        /\ early' = early \cup (Needs(step) \ ready)
        /\ IF step = "memset" THEN clear_bss
           ELSE ready' = ready \cup {IF step = "cons_init" THEN "console" ELSE step} /\ UNCHANGED kmem
        /\ IF step = "pic_init" THEN pic_init
           ELSE IF Enables(step) = {} THEN UNCHANGED <<irq_mask, unmasked, did_init>>
           ELSE pic_enable(Enables(step)) /\ UNCHANGED did_init
        /\ IF_flag' = (IF_flag \/ step = "intr_enable")
        /\ ~IF_flag
    BY StepsAre DEF init_step, BootInv, IrqInv
  <1>2. step = "memset" <=> kpc = 0 BY <1>1, StepsAre
  <1>3. MemoryInv'
    <2>1. CASE kpc = 0
      <3>a. clear_bss /\ image' = image /\ \A n \in 0..Len(image) : InMemory(n, End(n))
        BY <1>1, <1>2, <2>1 DEF BootInv, MemoryInv
      <3>b. \A n \in DOMAIN image : \A b \in image[n].p_va..(image[n].p_va + image[n].p_memsz - 1) :
              /\ b \in DOMAIN kmem'
              /\ kmem'[b] = IF b < image[n].p_va + image[n].p_filesz THEN File(image[n].p_offset + b - image[n].p_va)
                            ELSE Zero
        BY <1>1, <3>a, ClearedMemory
      <3>c. kpc' = 1 /\ magic_ok' BY <1>1, <2>1 DEF BootInv, MemoryInv, KernelIsExact
      <3>1. KernelIsExact' BY <3>a, <3>b, <3>c DEF KernelIsExact
      <3> QED BY <1>1, <2>1, <3>1 DEF MemoryInv
    <2>2. CASE kpc # 0
      <3>1. kpc >= 1 /\ kpc' >= 1 BY <1>1, <2>2
      <3>2. UNCHANGED <<kmem, image, magic_ok>> BY <1>1, <1>2, <2>2
      <3>3. KernelIsExact' BY <3>1, <3>2 DEF BootInv, MemoryInv, KernelIsExact
      <3> QED BY <3>1, <3>3 DEF MemoryInv
    <2> QED BY <2>1, <2>2
  <1>4. Needs(step) \subseteq ready
    BY <1>1, StepsAre DEF BootInv, ReadyInv, Needs
  <1>5. ReadyInv'
    <2>1. CASE kpc = 0 BY <1>1, <2>1 DEF ReadyInv
    <2>2. CASE kpc # 0 BY <1>1, <1>2, <2>2, StepsAre DEF BootInv, ReadyInv
    <2> QED BY <2>1, <2>2
  <1>6. IrqInv'
    <2>0. (IF_flag' => kpc' = 13) /\ (serial_exists' => serial_exists)
      <3>1. step = "intr_enable" => kpc = 12 BY <1>1, StepsAre
      <3>2. IF_flag' = (IF_flag \/ step = "intr_enable") /\ ~IF_flag /\ kpc' = kpc + 1 /\ serial_exists' = serial_exists
        BY <1>1
      <3>3. IF_flag' => step = "intr_enable" BY <3>2
      <3> QED BY <3>1, <3>2, <3>3
    <2>1. CASE kpc \in {0, 2, 4, 5, 6, 7, 9, 10}
      <3>1. step # "pic_init" /\ Enables(step) = {} /\ step # "intr_enable" BY <2>1, StepsAre DEF Enables
      <3>2. UNCHANGED <<irq_mask, unmasked, did_init>> /\ kpc' = kpc + 1 BY <1>1, <3>1
      <3> QED BY <2>0, <2>1, <3>2 DEF BootInv, IrqInv
    <2>2. CASE kpc = 1
      <3>1. step = "cons_init" BY <2>2, StepsAre
      <3>2. Enables(step) = {IRQ_KBD} \cup (IF serial_exists THEN {IRQ_COM1} ELSE {}) BY <3>1 DEF Enables
      <3>3. ~did_init /\ did_init' = did_init /\ irq_mask' = irq_mask \cup Enables(step) /\ kpc' = 2
        BY <1>1, <2>2, <3>1, <3>2 DEF BootInv, IrqInv, pic_enable
      <3> QED BY <2>0, <3>2, <3>3 DEF IrqInv
    <2>3. CASE kpc = 3
      <3>1. step = "pic_init" BY <2>3, StepsAre
      <3>2. did_init' /\ unmasked' = irq_mask /\ irq_mask' = irq_mask /\ kpc' = 4
        BY <1>1, <2>3, <3>1 DEF pic_init
      <3> QED BY <2>0, <2>3, <3>2 DEF BootInv, IrqInv
    <2>4. CASE kpc = 8
      <3>1. step = "ide_init" BY <2>4, StepsAre
      <3>2. Enables(step) = {IRQ_IDE} BY <3>1 DEF Enables
      <3>3. did_init BY <2>4 DEF BootInv, IrqInv
      <3>4. pic_enable({IRQ_IDE}) /\ did_init' = did_init /\ kpc' = 9 BY <1>1, <2>4, <3>1, <3>2
      <3>5. irq_mask' = irq_mask \cup {IRQ_IDE} /\ unmasked' = irq_mask \cup {IRQ_IDE} BY <3>3, <3>4 DEF pic_enable
      <3> QED BY <2>0, <2>4, <3>3, <3>4, <3>5 DEF BootInv, IrqInv
    <2>5. CASE kpc = 11
      <3>1. step = "clock_init" BY <2>5, StepsAre
      <3>2. Enables(step) = {IRQ_TIMER} BY <3>1 DEF Enables
      <3>3. did_init BY <2>5 DEF BootInv, IrqInv
      <3>4. pic_enable({IRQ_TIMER}) /\ did_init' = did_init /\ kpc' = 12 BY <1>1, <2>5, <3>1, <3>2
      <3>5. irq_mask' = irq_mask \cup {IRQ_TIMER} /\ unmasked' = irq_mask \cup {IRQ_TIMER} BY <3>3, <3>4 DEF pic_enable
      <3> QED BY <2>0, <2>5, <3>3, <3>4, <3>5 DEF BootInv, IrqInv
    <2>6. CASE kpc = 12
      <3>1. step = "intr_enable" BY <2>6, StepsAre
      <3>2. Enables(step) = {} BY <3>1 DEF Enables
      <3>3. UNCHANGED <<irq_mask, unmasked, did_init>> /\ kpc' = 13 BY <1>1, <2>6, <3>1, <3>2
      <3> QED BY <2>0, <2>6, <3>3 DEF BootInv, IrqInv
    <2> QED BY <1>1, <2>1, <2>2, <2>3, <2>4, <2>5, <2>6
  <1>7. early' = {} BY <1>1, <1>4
  <1> QED BY <1>1, <1>3, <1>5, <1>6, <1>7 DEF BootInv

LEMMA IrqStep ==
  ASSUME BootInv, NEW irq \in Irqs, take_irq(irq)
  PROVE  BootInv'
  <1>1. kpc = 13 BY DEF BootInv, IrqInv, take_irq
  <1>2. IrqNeeds(irq) \subseteq ready BY <1>1 DEF BootInv, ReadyInv, IrqNeeds
  <1>3. early' = {} BY <1>2 DEF BootInv, take_irq
  <1> QED BY <1>1, <1>3 DEF BootInv, take_irq, MemoryInv, Reading, InMemory, End, Phdr, Header, KernelIsExact, ReadyInv, IrqInv

LEMMA BootGoesOn == BootInv /\ [BootNext]_bootvars => BootInv'
  <1> SUFFICES ASSUME BootInv, [BootNext]_bootvars PROVE BootInv' OBVIOUS
  <1>1. CASE readseg BY <1>1, ReadStep
  <1>2. CASE bootmain BY <1>2, NextSegmentStep
  <1>3. CASE init_step BY <1>3, InitStep
  <1>4. ASSUME NEW irq \in Irqs, take_irq(irq) PROVE BootInv' BY <1>4, IrqStep
  <1>5. CASE bad \/ UNCHANGED bootvars
    BY <1>5 DEF bad, bootvars, BootInv, MemoryInv, Reading, InMemory, End, Phdr, Header, KernelIsExact, ReadyInv, IrqInv
  <1> QED BY <1>1, <1>2, <1>3, <1>4, <1>5 DEF BootNext

LEMMA BootFollows == BootInv => StartsInOrder
  <1> SUFFICES ASSUME BootInv PROVE StartsInOrder OBVIOUS
  <1>1. KernelIsExact /\ early = {} BY DEF BootInv, MemoryInv
  <1>2. kpc = Len(kern_init) => {IRQ_TIMER, IRQ_KBD, IRQ_IDE} \cup (IF serial_exists THEN {IRQ_COM1} ELSE {}) \subseteq unmasked
    BY StepsAre DEF BootInv, IrqInv
  <1> QED BY <1>1, <1>2 DEF StartsInOrder, PartsAreReady

\* bootmain and kern_init start the kernel that is in the file, for every sector size and
\* every kernel the linker makes: its bytes are where its headers say although whole
\* sectors are written, nothing is used before it is set up, and every interrupt that a
\* driver asked for gets through in the end.
THEOREM TheKernelStarts == BootSpec => []StartsInOrder
  <1>1. BootInit => BootInv BY BootStart
  <1>2. BootInv /\ [BootNext]_bootvars => BootInv' BY BootGoesOn
  <1>3. BootInv => StartsInOrder BY BootFollows
  <1> QED BY <1>1, <1>2, <1>3, PTL DEF BootSpec
=============================================================================
