-------------------------------- MODULE Text --------------------------------
(* Formatted output and its way back: vprintfmt and snprintf (libs/printfmt.c) *)
(* on one format, character by character of the format, and strtol             *)
(* (libs/string.c) on what was printed.                                        *)
EXTENDS Integers, Sequences, SequencesExt, FiniteSetsExt

CONSTANTS UNSET,              \* -1, in the code: no width or precision
          STAR, PASSED,       \* a width that is passed as an argument, and that argument
          NullString,         \* a NULL pointer for a string
          UNPRINTABLE,
          INT_MOD, LL_MOD,    \* values of an int or long, and of a long long
          error_string,       \* of the errors that have one
          Formats,            \* the formats, by their parts
          Sizes               \* of the buffer of snprintf

VARIABLES parts, fmt, at, ap, dir, b, size, ret, strtol_val

textvars == <<parts, fmt, at, ap, dir, b, size, ret, strtol_val>>

Digits == <<"0", "1", "2", "3", "4", "5", "6", "7", "8", "9", "a", "b", "c", "d", "e", "f">>
DigitOf(c) == CHOOSE x \in 0..15 : Digits[x + 1] = c
IsDigit(c) == \E x \in 0..9 : Digits[x + 1] = c
E_INVAL == -3

-----------------------------------------------------------------------------
Numeral(v, base) ==
  LET n == Min({k \in 1..5 : v < base^k}) IN [i \in 1..n |-> Digits[((v \div base^(n - i)) % base) + 1]]

\* How the programmer writes it, and what is passed for it.
Spell(p) ==
  IF p.conv = "text" THEN p.str
  ELSE <<"%">> \o (IF p.flag = "" THEN <<>> ELSE <<p.flag>>)
         \o (CASE p.width = STAR -> <<"*">> [] p.width = UNSET -> <<>> [] OTHER -> Numeral(p.width, 10))
         \o (IF p.precision = UNSET THEN <<>> ELSE <<".">> \o Numeral(p.precision, 10))
         \o (IF p.long THEN <<"l", "l">> ELSE <<>>) \o <<p.conv>>

Printing == {"c", "e", "s", "d", "u", "o", "p", "x"}
ArgsOf(p) ==
  (IF p.width = STAR THEN <<PASSED>> ELSE <<>>) \o (CASE p.conv = "s" -> <<p.str>> [] p.conv = "c" -> p.str
        [] p.conv \in Printing \ {"s", "c"} -> <<p.num>> [] OTHER -> <<>>)

-----------------------------------------------------------------------------
\* Faulty: the place for the terminating character is filled, too.
Room_Full(buf) == Len(buf) < size

\* buf < ebuf, where ebuf is one before the end.
Room(buf) == Len(buf) < size - 1

sprintputch(sb, c) == [buf |-> IF Room(sb.buf) THEN Append(sb.buf, c) ELSE sb.buf, cnt |-> sb.cnt + 1]

putch(cs) == b' = FoldLeft(sprintputch, b, cs)

\* printnum: first the more significant digits, before the first of them the padding.
RECURSIVE printnum(_, _, _, _)
printnum(num, base, width, padc) ==
  (IF num >= base THEN printnum(num \div base, base, width - 1, padc)
   ELSE [i \in 1..Max({0, width - 1}) |-> padc])
  \o <<Digits[(num % base) + 1]>>

\* An argument is the bits that are passed.
getuint(bits, lflag) == bits
getint(bits, lflag) ==
  LET mod == IF lflag >= 2 THEN LL_MOD ELSE INT_MOD IN IF bits >= mod \div 2 THEN bits - mod ELSE bits

strnlen(s, len) == IF len < 0 THEN Len(s) ELSE Min({Len(s), len})    \* -1 is the largest size_t

\* %s: padding in front unless the flag is -, the string up to the precision, the rest of
\* the width behind.
printstr(p, d) ==
  LET before == IF d.width > 0 /\ d.padc # "-" THEN Max({0, d.width - strnlen(p, d.precision)}) ELSE 0
      w == IF d.width > 0 /\ d.padc # "-" THEN Min({0, d.width - strnlen(p, d.precision)}) ELSE d.width
      n == IF d.precision < 0 THEN Len(p) ELSE Min({Len(p), d.precision})
  IN  [i \in 1..before |-> d.padc]
      \o [i \in 1..n |-> IF d.altflag /\ p[i] = UNPRINTABLE THEN "?" ELSE p[i]]
      \o [i \in 1..Max({0, w - n}) |-> " "]

\* %e: the sign of the code does not matter.
printerr(bits) ==
  LET err == IF getint(bits, 0) < 0 THEN -getint(bits, 0) ELSE getint(bits, 0)
  IN  IF err \in DOMAIN error_string THEN error_string[err]
      ELSE <<"e", "r", "r", "o", "r", " ">> \o printnum(err, 10, UNSET, " ")

\* The cases of the switch that print an argument.
Convert(ch, d, a) ==
  CASE ch = "c" -> <<a>>
    [] ch = "e" -> printerr(a)
    [] ch = "s" -> printstr(IF a = NullString THEN <<"(", "n", "u", "l", "l", ")">> ELSE a, d)
    [] ch = "d" -> LET num == getint(a, d.lflag) IN
                   IF num < 0 THEN <<"-">> \o printnum(-num, 10, d.width, d.padc)
                   ELSE printnum(num, 10, d.width, d.padc)
    [] ch = "u" -> printnum(getuint(a, d.lflag), 10, d.width, d.padc)
    [] ch = "o" -> printnum(getuint(a, d.lflag), 8, d.width, d.padc)
    [] ch = "p" -> <<"0", "x">> \o printnum(a, 16, d.width, d.padc)
    [] ch = "x" -> printnum(getuint(a, d.lflag), 16, d.width, d.padc)

-----------------------------------------------------------------------------
NoDir == <<>>
Ch == fmt[at]
More == ret = UNSET /\ at \in DOMAIN fmt
InText == More /\ dir = NoDir /\ UNCHANGED <<parts, fmt, size, ret, strtol_val>>
InDir == More /\ dir # NoDir /\ UNCHANGED <<parts, fmt, size, ret, strtol_val>>
D == dir[1]

\* vsnprintf begins; no buffer, or one without room for the terminator, is refused.
vsnprintf_begin ==
  /\ at = 0 /\ UNCHANGED <<strtol_val, dir, b>>
  /\ parts' \in Formats /\ size' \in Sizes
  /\ fmt' = FlattenSeq([i \in DOMAIN parts' |-> Spell(parts'[i])])
  /\ ap' = FlattenSeq([i \in DOMAIN parts' |-> ArgsOf(parts'[i])])
  /\ at' = 1
  /\ ret' = IF size' = 0 THEN E_INVAL ELSE UNSET

print_text ==
  /\ InText /\ Ch # "%" /\ putch(<<Ch>>)
  /\ at' = at + 1 /\ UNCHANGED <<ap, dir>>

percent ==
  /\ InText /\ Ch = "%"
  /\ dir' = <<[padc |-> " ", width |-> -1, precision |-> -1, lflag |-> 0, altflag |-> FALSE, from |-> at]>>
  /\ at' = at + 1 /\ UNCHANGED <<ap, b>>

\* The flags, which may come in any order.
flag ==
  /\ InDir /\ Ch \in {"-", "0", ".", "#", "l"}
  /\ dir' = <<CASE Ch \in {"-", "0"} -> [D EXCEPT !.padc = Ch]
                [] Ch = "." -> [D EXCEPT !.width = Max({0, @})]
                [] Ch = "#" -> [D EXCEPT !.altflag = TRUE]
                [] Ch = "l" -> [D EXCEPT !.lflag = @ + 1]>>
  /\ at' = at + 1 /\ UNCHANGED <<ap, b>>

process_precision(n) ==
  dir' = <<IF D.width < 0 THEN [D EXCEPT !.width = n] ELSE [D EXCEPT !.precision = n]>>

\* A number, to its last digit, or a *.
number ==
  /\ InDir /\ IsDigit(Ch) /\ Ch # "0"
  /\ LET e == Max({k \in at..Len(fmt) : \A j \in at..k : IsDigit(fmt[j])})
     IN  /\ process_precision(FoldLeft(LAMBDA n, c : n * 10 + DigitOf(c), 0, SubSeq(fmt, at, e)))
         /\ at' = e + 1
  /\ UNCHANGED <<ap, b>>

star ==
  /\ InDir /\ Ch = "*" /\ process_precision(Head(ap))
  /\ ap' = Tail(ap) /\ at' = at + 1 /\ UNCHANGED b

convert ==
  /\ InDir /\ Ch \in Printing
  /\ putch(Convert(Ch, D, Head(ap)))
  /\ ap' = Tail(ap) /\ at' = at + 1 /\ dir' = NoDir

escaped ==
  /\ InDir /\ Ch = "%" /\ putch(<<"%">>)
  /\ at' = at + 1 /\ dir' = NoDir /\ UNCHANGED ap

\* An unknown conversion, or the end of the format: the text behind the % is printed as
\* it is.
unknown ==
  /\ ret = UNSET /\ dir # NoDir /\ UNCHANGED <<parts, fmt, size, ret, strtol_val>>
  /\ at > Len(fmt) \/ Ch \notin {"-", "0", ".", "#", "l", "*", "%"} \cup Printing
  /\ at <= Len(fmt) => ~IsDigit(Ch)
  /\ putch(<<"%">>)
  /\ at' = D.from + 1 /\ dir' = NoDir /\ UNCHANGED ap

vsnprintf_end ==
  /\ ret = UNSET /\ at > Len(fmt) /\ at > 0 /\ dir = NoDir
  /\ ret' = b.cnt
  /\ UNCHANGED <<parts, fmt, at, ap, dir, b, size, strtol_val>>

-----------------------------------------------------------------------------
\* strtol: blanks, a sign, a prefix, digits up to the first character that is none.  The
\* value is kept in a long.
Skip(s, chars) == LET stop == {i \in DOMAIN s : s[i] \notin chars} IN
  IF stop = {} THEN <<>> ELSE SubSeq(s, Min(stop), Len(s))

strtol(s0, base0) ==
  LET s1 == Skip(s0, {" "})
      neg == s1 # <<>> /\ s1[1] = "-"
      s2 == IF s1 # <<>> /\ s1[1] \in {"+", "-"} THEN Tail(s1) ELSE s1
      hex == base0 \in {0, 16} /\ IsPrefix(<<"0", "x">>, s2)
      octal == base0 = 0 /\ ~hex /\ IsPrefix(<<"0">>, s2)
      base == CASE hex -> 16 [] octal -> 8 [] base0 = 0 /\ ~hex /\ ~octal -> 10 [] OTHER -> base0
      s3 == CASE hex -> SubSeq(s2, 3, Len(s2)) [] octal -> Tail(s2) [] OTHER -> s2
      ds == SubSeq(s3, 1, Len(s3) - Len(Skip(s3, {Digits[x + 1] : x \in 0..(base - 1)})))
      val == FoldLeft(LAMBDA v, c : (v * base + DigitOf(c)) % INT_MOD, 0, ds)
  IN  IF neg THEN (INT_MOD - val) % INT_MOD ELSE val

\* What was printed is read back, with the base that it was printed with.
Base(p) == CASE p.conv \in {"d", "u"} -> 10 [] p.conv = "o" -> 8 [] p.conv \in {"x", "p"} -> 16
IsNumeric(p) == p.conv \in {"d", "u", "o", "x", "p"}

read_back ==
  /\ ret >= 0 /\ strtol_val = UNSET
  /\ Len(parts) = 1 /\ IsNumeric(parts[1])
  /\ strtol_val' = strtol(b.buf, Base(parts[1]))
  /\ UNCHANGED <<parts, fmt, at, ap, dir, b, size, ret>>

Init ==
  /\ parts = <<>> /\ fmt = <<>> /\ at = 0 /\ ap = <<>> /\ dir = NoDir
  /\ b = [buf |-> <<>>, cnt |-> 0] /\ size = 0 /\ ret = UNSET /\ strtol_val = UNSET

Next ==
  \/ vsnprintf_begin \/ print_text \/ percent \/ flag \/ number \/ star \/ convert \/ escaped \/ unknown
  \/ vsnprintf_end \/ read_back

Spec == Init /\ [][Next]_textvars

-----------------------------------------------------------------------------
\* What a part of a format stands for.
Width(p) == IF p.width = STAR THEN PASSED ELSE p.width
Fill(p, n) == [i \in 1..Max({0, Width(p) - n}) |-> IF p.flag = "0" THEN "0" ELSE " "]
Negative(p) == p.conv = "d" /\ getint(p.num, IF p.long THEN 2 ELSE 0) < 0
Padded(p, s) == IF p.flag = "-" THEN s \o Fill(p, Len(s)) ELSE Fill(p, Len(s)) \o s
Magnitude(n) == IF n < 0 THEN -n ELSE n

Meaning(p) ==
  CASE p.conv \in {"text", "c"} -> p.str
    [] p.conv = "%" -> <<"%">>
    [] p.conv = "s" ->
         LET s == IF p.str = NullString THEN <<"(", "n", "u", "l", "l", ")">> ELSE p.str
             shown == [i \in DOMAIN s |-> IF p.flag = "#" /\ s[i] = UNPRINTABLE THEN "?" ELSE s[i]]
         IN  Padded(p, IF p.precision = UNSET THEN shown ELSE SubSeq(shown, 1, Min({Len(s), p.precision})))
    [] p.conv = "e" ->
         LET err == Magnitude(getint(p.num, 0))
         IN  IF err \in DOMAIN error_string THEN error_string[err] ELSE <<"e", "r", "r", "o", "r", " ">> \o Numeral(err, 10)
    [] IsNumeric(p) ->
         LET v == IF p.conv = "d" THEN getint(p.num, IF p.long THEN 2 ELSE 0) ELSE p.num
             prefix == CASE Negative(p) -> <<"-">> [] p.conv = "p" -> <<"0", "x">> [] OTHER -> <<>>
         IN  prefix \o Padded(p, Numeral(Magnitude(v), Base(p)))
    [] OTHER -> Spell(p)

\* Two forms are not what they look like: the flag - fills the front of a number with
\* minus signs, and a precision of 0 is taken for the flag 0.
AsWritten(p) == ~(IsNumeric(p) /\ p.flag = "-") /\ p.precision # 0

Whole == FlattenSeq([i \in DOMAIN parts |-> Meaning(parts[i])])

BlanksInside == \E i \in 2..Len(b.buf) : b.buf[i] = " " /\ b.buf[i - 1] \in {"-", "x"}

\* snprintf (printfmt.c) returns the length of the text that the format stands for and
\* leaves as much of it in the buffer as fits in front of the terminator; a number that
\* fits is read back by strtol (string.c), unless blanks come between its sign or prefix
\* and its digits.
TextIsRight ==
  ret # UNSET /\ (\A i \in DOMAIN parts : AsWritten(parts[i])) =>
    /\ IF size = 0 THEN ret = E_INVAL /\ b.buf = <<>>
       ELSE ret = Len(Whole) /\ b.buf = SubSeq(Whole, 1, Min({Len(Whole), size - 1}))
    /\ strtol_val # UNSET /\ ret < size /\ ~BlanksInside
         => strtol_val = parts[1].num % INT_MOD
=============================================================================
