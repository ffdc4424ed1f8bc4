-------------------------------- MODULE Traps --------------------------------
(* System calls and nested traps: the user library's stubs (user/libs), the    *)
(* gates and trap() of kern/trap/trap.c, and syscall() of kern/syscall.  The   *)
(* gate of T_SYSCALL leaves interrupts enabled, so that an interrupt or a page *)
(* fault can come in the middle of a call, and a call can lose the processor;  *)
(* current->tf has to lead to the frame of the call whenever it is read.       *)
(* Frames lie on the kernel stack at addresses 1, 2, ... from its top; address *)
(* 1 is where copy_thread makes the frame of a new process and where a trap    *)
(* from user mode pushes its own, since esp0 is the top of the stack.          *)
EXTENDS Integers, Sequences, FiniteSets, FiniteSetsExt, TLC

CONSTANTS Procs,          \* process slots
          Calls           \* the calls that programs make

VARIABLES
  current,
  proc,         \* the kernel stack (frames, and own: what a kernel thread has on it
                \* itself), tf, and what the program waits for
  panicked

trapvars == <<current, proc, panicked>>

-----------------------------------------------------------------------------
\* user/libs/syscall.c: the number and the arguments, in the order of the registers
\* edx, ecx, ebx.
stubs ==
  [exit |-> <<1, <<"error_code">>>>, fork |-> <<2, <<>>>>, wait |-> <<3, <<"pid", "store">>>>,
   exec |-> <<4, <<"name", "argc", "argv">>>>, yield |-> <<10, <<>>>>, sleep |-> <<11, <<"time">>>>,
   kill |-> <<12, <<"pid">>>>, gettime |-> <<17, <<>>>>, getpid |-> <<18, <<>>>>, putc |-> <<30, <<"c">>>>,
   pgdir |-> <<31, <<>>>>, open |-> <<100, <<"path", "open_flags">>>>, close |-> <<101, <<"fd">>>>,
   read |-> <<102, <<"fd", "base", "len">>>>, write |-> <<103, <<"fd", "base", "len">>>>,
   seek |-> <<104, <<"fd", "pos", "whence">>>>, fstat |-> <<110, <<"fd", "stat">>>>,
   fsync |-> <<111, <<"fd">>>>, getcwd |-> <<121, <<"buf", "len">>>>,
   getdirentry |-> <<128, <<"fd", "direntp">>>>, dup |-> <<130, <<"fd1", "fd2">>>>,
   lab6_set_priority |-> <<255, <<"priority">>>>]

\* The functions of the kernel by number, with arg[0], arg[1], arg[2] as each takes them.
syscalls ==
  [n \in {1, 2, 3, 4, 10, 11, 12, 17, 18, 30, 31, 100, 101, 102, 103, 104, 110, 111, 121, 128, 130, 255} |->
     CASE n = 1 -> <<"exit", <<"error_code">>>> [] n = 2 -> <<"fork", <<>>>> [] n = 3 -> <<"wait", <<"pid", "store">>>>
       [] n = 4 -> <<"exec", <<"name", "argc", "argv">>>> [] n = 10 -> <<"yield", <<>>>>
       [] n = 12 -> <<"kill", <<"pid">>>> [] n = 18 -> <<"getpid", <<>>>> [] n = 30 -> <<"putc", <<"c">>>>
       [] n = 31 -> <<"pgdir", <<>>>> [] n = 17 -> <<"gettime", <<>>>>
       [] n = 255 -> <<"lab6_set_priority", <<"priority">>>> [] n = 11 -> <<"sleep", <<"time">>>>
       [] n = 100 -> <<"open", <<"path", "open_flags">>>> [] n = 101 -> <<"close", <<"fd">>>>
       [] n = 102 -> <<"read", <<"fd", "base", "len">>>> [] n = 103 -> <<"write", <<"fd", "base", "len">>>>
       [] n = 104 -> <<"seek", <<"fd", "pos", "whence">>>> [] n = 110 -> <<"fstat", <<"fd", "stat">>>>
       [] n = 111 -> <<"fsync", <<"fd">>>> [] n = 121 -> <<"getcwd", <<"buf", "len">>>>
       [] n = 128 -> <<"getdirentry", <<"fd", "direntp">>>> [] n = 130 -> <<"dup", <<"fd1", "fd2">>>>]

ASSUME CallsAssumption == Calls \subseteq DOMAIN stubs

Registers == <<"edx", "ecx", "ebx">>
None == <<>>

\* The user's syscall(): what the registers hold at int T_SYSCALL.
user_syscall(c) ==
  [eax |-> stubs[c][1],
   regs |-> [r \in {"edx", "ecx", "ebx"} |->
               LET i == CHOOSE k \in 1..3 : Registers[k] = r
               IN  IF i <= Len(stubs[c][2]) THEN stubs[c][2][i] ELSE "any"]]

Zeros == [r \in {"edx", "ecx", "ebx"} |-> "zero"]

-----------------------------------------------------------------------------
Top(p) == Len(proc[p].frames)
Frame(p) == proc[p].frames[Top(p)]
Slot(p, address) == address - proc[p].own
At(p, address) == proc[p].frames[Slot(p, address)]
Dead == [state |-> "free", own |-> 0, frames |-> <<>>, tf |-> 0, asked |-> None, got |-> None]
User(p) == proc[p].state = "user" /\ Top(p) = 0
Thread(p) == proc[p].state = "kernel" /\ Top(p) = 0
Calling(p) == Top(p) > 0 /\ Frame(p).kind = "syscall" /\ Frame(p).stage # "copied"
Run == ~panicked

\* The beginning of trap(): the chain of frames, and the mode before the trap.
Trap(p, kind, regs, in_kernel) ==
  [proc[p] EXCEPT !.frames = Append(@, [kind |-> kind, eax |-> regs.eax, regs |-> regs.regs, user |-> ~in_kernel,
                                        otf |-> proc[p].tf, in_kernel |-> in_kernel, stage |-> "entered", tf |-> 0]),
                  !.tf = proc[p].own + Top(p) + 1]

\* A stub of the user library.
user_call(c) ==
  /\ Run /\ User(current)
  /\ proc' = [proc EXCEPT ![current] = [Trap(current, "syscall", user_syscall(c), FALSE) EXCEPT !.asked = <<c>>, !.got = None]]
  /\ UNCHANGED <<current, panicked>>

\* kernel_execve: the first program is executed by a kernel thread.
kernel_execve ==
  /\ Run /\ Thread(current)
  /\ proc' = [proc EXCEPT ![current] = [Trap(current, "syscall", user_syscall("exec"), TRUE) EXCEPT !.asked = <<"exec">>]]
  /\ UNCHANGED <<current, panicked>>

\* An interrupt, in a program, in a kernel thread or in a call: only the gate of T_SYSCALL
\* keeps them enabled.
interrupt ==
  /\ Run /\ (User(current) \/ Thread(current) \/ Calling(current))
  /\ proc' = [proc EXCEPT ![current] = Trap(current, "irq", [eax |-> "any", regs |-> Zeros], ~User(current))]
  /\ UNCHANGED <<current, panicked>>

\* A page fault of the program, or of the kernel when it copies from or to user memory.
page_fault ==
  /\ Run /\ \/ User(current)
            \/ Calling(current) /\ Frame(current).stage = "running"
  /\ \/ proc' = [proc EXCEPT ![current] = Trap(current, "fault", [eax |-> "any", regs |-> Zeros], ~User(current))]
        /\ UNCHANGED panicked
     \/ panicked' = TRUE /\ UNCHANGED proc              \* do_pgfault fails
  /\ UNCHANGED current

-----------------------------------------------------------------------------
Now(stage) == Run /\ Top(current) > 0 /\ Frame(current).kind = "syscall" /\ Frame(current).stage = stage
InFrame(p, k, field, x) == [proc[p] EXCEPT !.frames[k] = [@ EXCEPT ![field] = x]]

\* syscall() looks the call up in the frame that current->tf leads to.
syscall ==
  /\ Now("entered")
  /\ LET t == proc[current].tf
         num == At(current, t).eax
     IN  IF num \in DOMAIN syscalls
         THEN /\ proc' = [proc EXCEPT ![current].frames[Top(current)] = [@ EXCEPT !.tf = t, !.stage = "running"]]
              /\ UNCHANGED panicked
         ELSE panicked' = TRUE /\ UNCHANGED proc
  /\ UNCHANGED current

\* arg[i], from the registers as they were at the trap.
arg(regs, i) == regs[Registers[i]]

\* The kernel's function of a call, with its parameters.
Called(f) ==
  LET s == syscalls[f.eax] IN <<s[1], [n \in {s[2][i] : i \in DOMAIN s[2]} |->
                                         arg(f.regs, CHOOSE i \in DOMAIN s[2] : s[2][i] = n)]>>

Returns(call) == call[1] \notin {"exit", "fork", "exec"}

\* The result of a call is stored through the pointer that syscall() read.
Stored(result) ==
  [proc[current] EXCEPT !.frames = [[@ EXCEPT ![Slot(current, Frame(current).tf)].eax = result]
                                       EXCEPT ![Top(current)].stage = "done"]]

sys_return ==
  /\ Now("running")
  /\ LET call == Called(At(current, Frame(current).tf))
     IN  Returns(call) /\ proc' = [proc EXCEPT ![current] = Stored(call)]
  /\ UNCHANGED <<current, panicked>>

\* sys_fork, do_fork and copy_thread: the frame that current->tf leads to is copied to the
\* top of the child's kernel stack, with 0 in eax, and the child's tf leads to the copy.
sys_fork ==
  /\ Now("running") /\ Called(At(current, Frame(current).tf))[1] = "fork"
  /\ \E q \in Procs :
       /\ proc[q].state = "free"
       /\ proc' = [proc EXCEPT
            ![q] = [Dead EXCEPT !.state = "new", !.tf = 1, !.asked = <<"fork">>,
                                !.frames = <<[At(current, proc[current].tf) EXCEPT !.eax = <<"child">>, !.stage = "copied"]>>],
            ![current] = Stored(<<"parent">>)]
  /\ UNCHANGED <<current, panicked>>

\* Without a free slot fork fails with a result of its own.
sys_fork_fails ==
  /\ Now("running") /\ Called(At(current, Frame(current).tf))[1] = "fork"
  /\ proc' = [proc EXCEPT ![current] = Stored(<<"parent">>)]
  /\ UNCHANGED <<current, panicked>>

\* sys_exec: the frame is made that of the new program's beginning (load_icode), or the
\* arguments are bad and the call returns to the old one.
sys_exec ==
  /\ Now("running")
  /\ LET t == Frame(current).tf
         call == Called(At(current, t))
         done == [proc[current].frames EXCEPT ![Top(current)].stage = "done"]
     IN  /\ call[1] = "exec"
         /\ \/ proc' = [proc EXCEPT ![current] =
                 [@ EXCEPT !.state = "user", !.asked = <<"program">>,
                           !.frames = [[done EXCEPT ![Slot(current, proc[current].tf)] = [@ EXCEPT !.regs = Zeros, !.user = TRUE]]
                                         EXCEPT ![Slot(current, t)].eax = <<"start">>]]]
            \/ /\ ~Frame(current).in_kernel
               /\ proc' = [proc EXCEPT ![current].frames = [done EXCEPT ![Slot(current, t)].eax = call]]
  /\ UNCHANGED <<current, panicked>>

Others == {q \in Procs \ {current} : proc[q].state # "free"}

\* do_exit: of the call exit, of an exec that fails after the old program is gone, of a
\* killed process that wakes up in wait or would return to user mode, and of an exception
\* nobody handles.
do_exit ==
  /\ Run /\ Top(current) > 0
  /\ \/ Now("running") /\ Called(At(current, Frame(current).tf))[1] \in {"exit", "exec", "wait"}
     \/ Frame(current).stage = "restored" /\ ~Frame(current).in_kernel
     \/ Frame(current).kind = "fault" /\ Frame(current).stage = "entered"
  /\ Others # {} /\ current' \in Others
  /\ proc' = [proc EXCEPT ![current] = Dead]
  /\ UNCHANGED panicked

\* schedule(), in a call that waits or at the end of trap() with need_resched.
schedule ==
  /\ Run /\ Top(current) > 0 /\ Others # {}
  /\ \/ Now("running")
     \/ Frame(current).stage = "restored" /\ ~Frame(current).in_kernel
  /\ current' \in Others
  /\ UNCHANGED <<proc, panicked>>

\* Faulty: an inner trap leaves current->tf at its own frame.
Restored_Never(p) == InFrame(p, Top(p), "stage", "restored")

\* The end of trap(): current->tf leads to the outer frame again.
Restored(p) == [InFrame(p, Top(p), "stage", "restored") EXCEPT !.tf = Frame(p).otf]

trap_end ==
  /\ Run /\ Top(current) > 0
  /\ IF Frame(current).kind = "syscall" THEN Frame(current).stage = "done" ELSE Frame(current).stage = "entered"
  /\ proc' = [proc EXCEPT ![current] = Restored(current)]
  /\ UNCHANGED <<current, panicked>>

\* __trapret: the registers are loaded from the frame, and the stack is left as it was
\* before the frame; iret to user mode leaves it altogether.
Left(p) ==
  [proc[p] EXCEPT !.frames = IF Frame(p).user THEN <<>> ELSE SubSeq(@, 1, Top(p) - 1),
                  !.own = IF Frame(p).user THEN 0 ELSE @,
                  !.got = IF Frame(p).user /\ Frame(p).kind = "syscall" THEN Frame(p).eax ELSE @]

trapret ==
  /\ Run /\ Top(current) > 0 /\ Frame(current).stage = "restored"
  /\ proc' = [proc EXCEPT ![current] = Left(current)]
  /\ UNCHANGED <<current, panicked>>

\* forkret, where a new process begins: forkrets returns through the frame that current->tf
\* leads to, to user mode or to the function of a kernel thread, whose own stack begins where
\* that frame was.
forkret ==
  /\ Run /\ proc[current].state = "new"
  /\ LET frame == At(current, proc[current].tf)
     IN  proc' = [proc EXCEPT ![current] =
                    IF frame.user THEN [@ EXCEPT !.state = "user", !.frames = <<>>, !.got = frame.eax]
                    ELSE [@ EXCEPT !.state = "kernel", !.frames = <<>>, !.own = 1]]
  /\ UNCHANGED <<current, panicked>>

Halt == panicked /\ UNCHANGED trapvars

\* kernel_thread: do_fork copies a frame that begins the thread's function in the kernel.
ThreadFrame == [kind |-> "thread", eax |-> 0, regs |-> Zeros, user |-> FALSE, otf |-> 0, in_kernel |-> TRUE,
                stage |-> "copied", tf |-> 0]
UserMain == [Dead EXCEPT !.state = "new", !.tf = 1, !.frames = <<ThreadFrame>>]

TrapInit ==
  /\ current \in Procs
  /\ proc = [p \in Procs |-> IF p = current THEN UserMain ELSE Dead]
  /\ panicked = FALSE

TrapNext ==
  \/ \E c \in Calls : user_call(c)
  \/ kernel_execve \/ interrupt \/ page_fault \/ syscall \/ sys_return \/ sys_fork \/ sys_fork_fails \/ sys_exec
  \/ do_exit \/ schedule \/ trap_end \/ trapret \/ forkret \/ Halt

TrapSpec == TrapInit /\ [][TrapNext]_trapvars

-----------------------------------------------------------------------------
\* The call as the program meant it: every parameter by its name.
Meant(c) == <<c, [n \in {stubs[c][2][i] : i \in DOMAIN stubs[c][2]} |-> n]>>

\* What a program that has asked for a may find in eax.
Answers(a) ==
  CASE a = <<"program">> -> {<<"start">>}
    [] a = <<"fork">> -> {<<"parent">>, <<"child">>}
    [] OTHER -> {Meant(a[1])}

\* tf leads to the innermost frame that is being handled, and while none is to the top of
\* the kernel stack, where copy_thread has put it: what do_fork copies, load_icode overwrites
\* and forkret returns through is then the right frame.
FramesAreChained ==
  \A p \in Procs : proc[p].state # "free" =>
    LET handled == {k \in 1..Top(p) : proc[p].frames[k].stage \in {"entered", "running", "done"}}
    IN  proc[p].tf = IF handled = {} THEN 1 ELSE proc[p].own + Max(handled)

\* Back in user mode a program has the result of the call that it made, run by the
\* function of that name with the parameters in their places (syscall.c), or, after fork
\* and exec, the registers of the child or of the new program; whatever interrupts, page
\* faults and other processes came between.  For that current->tf has to lead to the frames
\* of nested traps (trap.c).
ResultsReachTheirCaller ==
  /\ \A p \in Procs : User(p) /\ proc[p].got # None => proc[p].got \in Answers(proc[p].asked)
  /\ FramesAreChained
=============================================================================
