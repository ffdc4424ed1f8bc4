------------------------------- MODULE Memory -------------------------------
(* Copying, filling and comparing of memory and of strings (libs/string.c,     *)
(* with the inline assembly of libs/x86.h where the build uses it), one        *)
(* iteration of a loop or of a repeated string instruction at a time.          *)
EXTENDS Integers, Sequences, SequencesExt, FiniteSetsExt

CONSTANTS MEMSIZE,      \* bytes of memory
          WORDSIZE,     \* bytes that movsl moves
          Contents      \* what the memory may hold at the call

VARIABLES mem, call,
          was,          \* the memory at the call
          r             \* the loop that runs, its registers, and the result

memvars == <<mem, call, was, r>>

NUL == 0
NOT_FOUND == -1
Addresses == 0..(MEMSIZE - 1)
Area(a, n) == a..(a + n - 1)

\* A terminated string begins at a; strlen.
IsString(c, a) == \E e \in a..(MEMSIZE - 1) : c[e] = NUL
strlen(c, a) == Min({e \in a..(MEMSIZE - 1) : c[e] = NUL}) - a

Copying == {"memmove", "memcpy", "strncpy", "strcpy", "memset"}
Comparing == {"strcmp", "strncmp", "memcmp"}
Finding == {"strchr", "strfind"}

\* What the callers may ask for: areas in memory, terminated strings, and areas that do
\* not overlap except for memmove.
MayCall(c, f, a, b, n) ==
  /\ f \in Copying => a + n <= MEMSIZE
  /\ f \in {"memmove", "memcpy", "memcmp"} => a + n <= MEMSIZE /\ b + n <= MEMSIZE
  /\ f = "memcpy" => Area(a, n) \cap Area(b, n) = {}
  /\ f = "strcpy" => /\ IsString(c, b) /\ n = strlen(c, b) + 1
                     /\ Area(a, n) \cap Area(b, n) = {}
  /\ f = "strncpy" => IsString(c, b) /\ Area(a, n) \cap Area(b, strlen(c, b) + 1) = {}
  /\ f \in {"strcmp", "strncmp"} => IsString(c, a) /\ IsString(c, b)
  /\ f \in Finding => IsString(c, a) /\ n = 0
  /\ f = "strcmp" => n = 0

Init ==
  /\ mem \in Contents /\ was = mem
  /\ call = [f |-> "none", dst |-> 0, src |-> 0, n |-> 0]
  /\ r = [at |-> "call", ecx |-> 0, esi |-> 0, edi |-> 0, eax |-> 0]

At(l) == r.at = l /\ UNCHANGED <<call, was>>
Regs(l, ecx, esi, edi) == [r EXCEPT !.at = l, !.ecx = ecx, !.esi = esi, !.edi = edi]
Returns(v) == r' = [r EXCEPT !.at = "return", !.eax = v] /\ UNCHANGED mem

-----------------------------------------------------------------------------
\* __memmove copies forwards only towards lower addresses.
Backwards(dst, src) == ~(dst < src)

\* A call, with a byte for s in memset, strchr and strfind: __memmove, __memcpy and
\* __memset choose their instructions, the others begin their loops.
enter(f, d, s, n) ==
  /\ r.at = "call" /\ MayCall(mem, f, d, s, n)
  /\ call' = [f |-> f, dst |-> d, src |-> s, n |-> n]
  /\ r' = CASE f = "memmove" /\ Backwards(d, s) -> Regs("std movsb", n, n - 1 + s, n - 1 + d)
            [] f = "memmove" /\ ~Backwards(d, s) -> Regs("movsl", n \div WORDSIZE, s, d)
            [] f = "memcpy" -> Regs("movsl", n \div WORDSIZE, s, d)
            [] f = "memset" -> Regs("stosb", n, 0, d)
            [] OTHER -> Regs(f, n, s, d)
  /\ UNCHANGED <<mem, was>>

\* rep; movsl, and then what is left of a word.
movsl ==
  /\ At("movsl")
  /\ IF r.ecx > 0
     THEN /\ mem' = [x \in Addresses |-> IF x \in Area(r.edi, WORDSIZE) THEN mem[r.esi + x - r.edi] ELSE mem[x]]
          /\ r' = Regs("movsl", r.ecx - 1, r.esi + WORDSIZE, r.edi + WORDSIZE)
     ELSE r' = Regs("movsb", call.n % WORDSIZE, r.esi, r.edi) /\ UNCHANGED mem

\* rep; movsb in either direction.
movsb ==
  \E by \in {1, -1} :
    /\ At(IF by = 1 THEN "movsb" ELSE "std movsb")
    /\ IF r.ecx > 0
       THEN mem' = [mem EXCEPT ![r.edi] = mem[r.esi]] /\ r' = Regs(r.at, r.ecx - 1, r.esi + by, r.edi + by)
       ELSE Returns(call.dst)

stosb ==
  /\ At("stosb")
  /\ IF r.ecx > 0
     THEN mem' = [mem EXCEPT ![r.edi] = call.src] /\ r' = Regs("stosb", r.ecx - 1, 0, r.edi + 1)
     ELSE Returns(call.dst)

\* lodsb; stosb until the terminator has been copied.
strcpy ==
  /\ At("strcpy")
  /\ mem' = [mem EXCEPT ![r.edi] = mem[r.esi]]
  /\ r' = IF mem[r.esi] = NUL THEN [r EXCEPT !.at = "return", !.eax = call.dst]
          ELSE Regs("strcpy", r.ecx, r.esi + 1, r.edi + 1)

\* The source does not move on from its terminator.
strncpy ==
  /\ At("strncpy")
  /\ IF r.ecx > 0
     THEN /\ mem' = [mem EXCEPT ![r.edi] = mem[r.esi]]
          /\ r' = Regs("strncpy", r.ecx - 1, IF mem[r.esi] = NUL THEN r.esi ELSE r.esi + 1, r.edi + 1)
     ELSE Returns(call.dst)

\* lodsb; scasb: the borrow of the first difference gives the sign.
strcmp ==
  /\ At("strcmp")
  /\ LET x == mem[r.edi]  y == mem[r.esi] IN
     IF x # y THEN Returns(IF x < y THEN -1 ELSE 1)
     ELSE IF x = NUL THEN Returns(0)
     ELSE r' = Regs("strcmp", r.ecx, r.esi + 1, r.edi + 1) /\ UNCHANGED mem

strncmp ==
  /\ At("strncmp")
  /\ IF r.ecx > 0 /\ mem[r.edi] # NUL /\ mem[r.edi] = mem[r.esi]
     THEN r' = Regs("strncmp", r.ecx - 1, r.esi + 1, r.edi + 1) /\ UNCHANGED mem
     ELSE Returns(IF r.ecx = 0 THEN 0 ELSE mem[r.edi] - mem[r.esi])

memcmp ==
  /\ At("memcmp")
  /\ IF r.ecx = 0 THEN Returns(0)
     ELSE IF mem[r.edi] # mem[r.esi] THEN Returns(mem[r.edi] - mem[r.esi])
     ELSE r' = Regs("memcmp", r.ecx - 1, r.esi + 1, r.edi + 1) /\ UNCHANGED mem

\* strfind differs from strchr when the character is not there.
strchr ==
  /\ r.at \in Finding /\ At(r.at)
  /\ IF mem[r.edi] = NUL THEN Returns(IF r.at = "strchr" THEN NOT_FOUND ELSE r.edi)
     ELSE IF mem[r.edi] = call.src THEN Returns(r.edi)
     ELSE r' = Regs(r.at, 0, 0, r.edi + 1) /\ UNCHANGED mem

Next ==
  \/ \E f \in Copying \cup Comparing \cup Finding, d, s \in Addresses, n \in 0..MEMSIZE : enter(f, d, s, n)
  \/ movsl \/ movsb \/ stosb \/ strcpy \/ strncpy \/ strcmp \/ strncmp \/ memcmp \/ strchr

Spec == Init /\ [][Next]_memvars

-----------------------------------------------------------------------------
\* The string at a, and at most n characters of it.
String(a) == [i \in 1..strlen(was, a) |-> was[a + i - 1]]
Bytes(a, n) == [i \in 1..n |-> was[a + i - 1]]
UpTo(s, n) == SubSeq(s, 1, Min({n, Len(s)}))

\* The order of two sequences of bytes, the shorter one first.
Order(s, t) ==
  LET differ == {i \in 1..Min({Len(s), Len(t)}) : s[i] # t[i]}
  IN  CASE s = t -> 0
        [] differ # {} /\ s[Min(differ)] < t[Min(differ)] -> -1
        [] differ = {} /\ Len(s) < Len(t) -> -1
        [] OTHER -> 1

Sign(x) == CASE x < 0 -> -1 [] x > 0 -> 1 [] OTHER -> 0

\* What the destination has to hold at the end.
Copied(i) ==
  CASE call.f = "memset" -> call.src
    [] call.f = "strncpy" /\ i >= strlen(was, call.src) -> NUL
    [] OTHER -> was[call.src + i]

\* Every function of string.c and x86.h returns with the destination changed to what the
\* source held at the call, however the areas overlap, and with nothing else changed; and
\* the result of a comparison has the sign of the order of what was compared.
CopiesAreRight ==
  r.at = "return" =>
    LET n == call.n  d == call.dst  s == call.src IN
    /\ \A x \in Addresses :
         mem[x] = IF call.f \in Copying /\ x \in Area(d, n) THEN Copied(x - d) ELSE was[x]
    /\ call.f = "strcmp" => Sign(r.eax) = Order(String(d), String(s))
    /\ call.f = "strncmp" => Sign(r.eax) = Order(UpTo(String(d), n), UpTo(String(s), n))
    /\ call.f = "memcmp" => Sign(r.eax) = Order(Bytes(d, n), Bytes(s, n))
    /\ call.f \in Finding =>
         LET hits == {i \in DOMAIN String(d) : String(d)[i] = s}
         IN  r.eax = CASE hits # {} -> d + Min(hits) - 1
                       [] hits = {} /\ call.f = "strchr" -> NOT_FOUND
                       [] OTHER -> d + strlen(was, d)
=============================================================================
