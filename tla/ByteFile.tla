------------------------------ MODULE ByteFile ------------------------------
(* What read, write and seek promise: a file is a sequence of bytes.  A write  *)
(* puts the bytes it counts, a prefix of what it is given, at the position, a  *)
(* read delivers the bytes it counts from there; both move on by that many.    *)
EXTENDS Integers, Sequences

VARIABLES content, pos,
          ret,        \* what the last call returned: its kind, the count, the bytes read
          given       \* what the last call was given to write

vars == <<content, pos, ret, given>>

Init == content = <<>> /\ pos = 0 /\ ret = <<"none", 0, <<>> >> /\ given = <<>>

\* The bytes of data from the position on; a file can only grow at its end.
Overwritten(data) ==
  SubSeq(content, 1, pos) \o data \o SubSeq(content, pos + Len(data) + 1, Len(content))

Write(data) ==
  /\ ret' = <<"write", Len(data), <<>> >>
  /\ pos' = pos + Len(data)
  /\ content' = Overwritten(data)

\* lost: bytes read for a part of the buffer that does not exist, which are gone; the
\* call is an error if nothing else was read.
Read(n, lost) ==
  /\ pos' = pos + n + lost /\ pos' <= Len(content)
  /\ ret' = <<IF lost = 0 THEN "read" ELSE IF n = 0 THEN "error" ELSE "read, buffer ended",
              n, SubSeq(content, pos + 1, pos + n)>>
  /\ UNCHANGED content

\* A seek behind the end fills up with zeros.
Seek(p) ==
  /\ ret' = <<"seek", 0, <<>> >> /\ pos' = p
  /\ content' = content \o [i \in 1..(p - Len(content)) |-> 0]

Truncate == ret' = <<"open", 0, <<>> >> /\ content' = <<>> /\ pos' = 0

Fail == ret'[1] = "error" /\ UNCHANGED <<content, pos>>

\* An empty file that a failed enlargement has left blocks stops the kernel when it is
\* opened to be emptied.
Stop == ret'[1] = "panic" /\ content = <<>> /\ content' = <<>>

Next ==
  \/ \E n \in 0..Len(given') : Write(SubSeq(given', 1, n))
  \/ \E n \in 0..Len(content), lost \in 0..Len(content) : Read(n, lost)
  \/ \E p \in 0..Len(content') : Seek(p)
  \/ Truncate \/ Fail \/ Stop

Spec == Init /\ [][Next]_vars
=============================================================================
