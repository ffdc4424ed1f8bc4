-------------------------------- MODULE Kdebug --------------------------------
(* The backtrace of kern/debug/kdebug.c: print_stackframe follows the chain of  *)
(* frames, debuginfo_eip searches the table of stabs for the file, in it for   *)
(* the function, and in that for the line, with a binary search               *)
(* (stab_binsearch) through a table in which most entries have another type.   *)
EXTENDS Integers, Sequences, FiniteSets, FiniteSetsExt

CONSTANTS Tables,            \* stab tables: sequences of [n_type, n_value]
          Eips,              \* return addresses on the stack
          STACKFRAME_DEPTH

VARIABLES
  stabs, chain,        \* the table; the eips of the frames, innermost first
  phase,               \* the search that is on: "file", "fun", "line", or "next"
  arg,                 \* its arguments: type, addr, left, right
  l, r, any_matches, addr, region_left, region_right,
  info,                \* of debuginfo_eip: file, fun (their entries and regions) and line
  printed

kvars == <<stabs, chain, phase, arg, l, r, any_matches, addr, region_left, region_right, info, printed>>

\* Indices into the table begin at 0.
Stab(m) == stabs[m + 1]
None == -1                  \* no entry
Unknown == [fun |-> None, offset |-> 0, line |-> None, file |-> None, narg |-> 0]

-----------------------------------------------------------------------------
\* A call of stab_binsearch.
Call(ph, type, a, left, right) ==
  /\ phase' = ph /\ arg' = [type |-> type, addr |-> a, left |-> left, right |-> right]
  /\ l' = left /\ r' = right /\ any_matches' = FALSE /\ addr' = a
  /\ region_left' = left /\ region_right' = right

true_m == (l + r) \div 2

\* One round of its loop.
stab_binsearch ==
  /\ phase \in {"file", "fun", "line"} /\ l <= r
  /\ LET ms == {m \in l..true_m : Stab(m).n_type = arg.type}
         m == Max(ms)
     IN  IF ms = {} THEN l' = true_m + 1 /\ UNCHANGED <<r, any_matches, addr, region_left, region_right>>
         ELSE /\ any_matches' = TRUE
              /\ \/ /\ Stab(m).n_value < addr
                    /\ region_left' = m /\ l' = true_m + 1 /\ UNCHANGED <<r, addr, region_right>>
                 \/ /\ Stab(m).n_value > addr
                    /\ region_right' = m - 1 /\ r' = m - 1 /\ UNCHANGED <<l, addr, region_left>>
                 \/ /\ Stab(m).n_value = addr
                    /\ region_left' = m /\ l' = m /\ addr' = addr + 1 /\ UNCHANGED <<r, region_right>>
  /\ UNCHANGED <<stabs, chain, phase, arg, info, printed>>

\* What the search returns when the loop is over.
Result ==
  IF ~any_matches THEN [left |-> region_left, right |-> region_left - 1]
  ELSE [right |-> region_right,
        left |-> IF region_right <= region_left THEN region_right
                 ELSE Max({region_left} \cup {k \in region_left..region_right : Stab(k).n_type = arg.type})]

Done(ph) == phase = ph /\ l > r

-----------------------------------------------------------------------------
\* print_stackframe: the next frame, whose call ends before the return address.
print_stackframe ==
  /\ phase = "next" /\ Len(printed) < Len(chain) /\ Len(printed) < STACKFRAME_DEPTH
  /\ Call("file", "N_SO", chain[Len(printed) + 1] - 1, 0, Len(stabs) - 1)
  /\ info' = [fun |-> None, fn_addr |-> arg'.addr, narg |-> 0, file |-> [left |-> 0, right |-> 0], fregion |-> [left |-> 0, right |-> 0]]
  /\ UNCHANGED <<stabs, chain, printed>>

print_debuginfo(x) ==
  /\ printed' = Append(printed, x) /\ phase' = "next"
  /\ UNCHANGED <<arg, l, r, any_matches, addr, region_left, region_right, info>>

debuginfo_file ==
  /\ Done("file")
  /\ IF Result.left = 0 THEN print_debuginfo(Unknown)
     ELSE /\ Call("fun", "N_FUN", arg.addr, Result.left, Result.right)
          /\ info' = [info EXCEPT !.file = Result] /\ UNCHANGED printed
  /\ UNCHANGED <<stabs, chain>>

\* Faulty: looks for the line by the address itself.
LineAddr_Absolute(a, fn_addr) == a

LineAddr(a, fn_addr) == a - fn_addr

\* The function's lines are counted from its beginning; without a function the whole
\* file is searched.
debuginfo_fun ==
  /\ Done("fun")
  /\ IF Result.left <= Result.right
     THEN /\ Call("line", "N_SLINE", LineAddr(arg.addr, Stab(Result.left).n_value), Result.left, Result.right)
          /\ info' = [info EXCEPT !.fun = Result.left, !.fn_addr = Stab(Result.left).n_value, !.fregion = Result]
     ELSE /\ Call("line", "N_SLINE", arg.addr, info.file.left, info.file.right)
          /\ info' = [info EXCEPT !.fregion = Result]
  /\ UNCHANGED <<stabs, chain, printed>>

\* The line, the number of arguments, and the file that the line is from: the last
\* entry before it that names one.
debuginfo_line ==
  LET files == {k \in info.file.left..Result.left : Stab(k).n_type = "N_SOL" \/ (Stab(k).n_type = "N_SO" /\ Stab(k).n_value # 0)}
      psyms == {k \in 0..(info.fregion.right - info.fregion.left - 1) :
                  \A j \in 1..k : Stab(info.fregion.left + j).n_type = "N_PSYM"}
  IN  /\ Done("line")
      /\ print_debuginfo(IF Result.left > Result.right THEN Unknown
               ELSE [fun |-> info.fun, offset |-> chain[Len(printed) + 1] - 1 - info.fn_addr, line |-> Result.right,
                     file |-> IF files = {} THEN None ELSE Max(files),
                     narg |-> IF info.fregion.left < info.fregion.right THEN Max(psyms) ELSE 0])
      /\ UNCHANGED <<stabs, chain>>

Init ==
  /\ stabs \in Tables /\ chain \in UNION {[1..n -> Eips] : n \in 1..2}
  /\ phase = "next" /\ arg = [type |-> "N_SO", addr |-> 0, left |-> 0, right |-> 0]
  /\ l = 0 /\ r = 0 /\ any_matches = FALSE /\ addr = 0 /\ region_left = 0 /\ region_right = 0
  /\ info = [fun |-> None, fn_addr |-> 0, narg |-> 0, file |-> [left |-> 0, right |-> 0], fregion |-> [left |-> 0, right |-> 0]]
  /\ printed = <<>>

Next == stab_binsearch \/ print_stackframe \/ debuginfo_file \/ debuginfo_fun \/ debuginfo_line

Spec == Init /\ [][Next]_kvars

-----------------------------------------------------------------------------
Holding(type, a, from, to) == {m \in from..to : Stab(m).n_type = type /\ Stab(m).n_value <= a}
Following(type, a, from, to) == {m \in from..to : Stab(m).n_type = type /\ Stab(m).n_value > a}
Region(type, a, from, to) ==
  [left |-> Max(Holding(type, a, from, to)), right |-> Min({to + 1} \cup Following(type, a, from, to)) - 1]

\* As the comment on stab_binsearch has it: the region of the matching entry that
\* contains the address, and left > right if there is none.
SearchAsDocumented ==
  phase \in {"file", "fun", "line"} /\ l > r =>
    IF Holding(arg.type, arg.addr, arg.left, arg.right) = {} THEN Result.left > Result.right
    ELSE Result = Region(arg.type, arg.addr, arg.left, arg.right)

\* No two entries of one type are one byte apart: behind an entry that is hit exactly,
\* the search looks for the next address.
Spaced == \A m, k \in DOMAIN stabs : stabs[m].n_type = stabs[k].n_type => stabs[k].n_value # stabs[m].n_value + 1

\* Every frame of the backtrace whose address lies in a function is printed with that
\* function, the last of its lines at or below the address, the file that this line is
\* from and the number of arguments; frames are printed in order, and no more than
\* STACKFRAME_DEPTH.
BacktraceIsRight ==
  /\ Len(printed) <= STACKFRAME_DEPTH
  /\ Spaced =>
       \A i \in DOMAIN printed :
         LET a == chain[i] - 1
             end == Len(stabs) - 1
             so == Region("N_SO", a, 0, end)
             fn == Region("N_FUN", a, so.left, so.right)
             in == Region("N_SLINE", a - Stab(fn.left).n_value, fn.left, fn.right)
         IN  Holding("N_SO", a, 0, end) # {} /\ Holding("N_FUN", a, so.left, so.right) # {} =>
               printed[i] = [fun |-> fn.left, offset |-> a - Stab(fn.left).n_value, line |-> in.right,
                             file |-> Max({k \in so.left..in.left : Stab(k).n_type \in {"N_SO", "N_SOL"}}),
                             narg |-> Cardinality({k \in fn.left..fn.right : Stab(k).n_type = "N_PSYM"})]
=============================================================================
