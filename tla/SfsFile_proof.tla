---------------------------- MODULE SfsFile_proof ----------------------------
(* The block maps of files are sound for every disk, every block size and every *)
(* set of files, open files and lengths.                                       *)
EXTENDS SfsFile, FiniteSetTheorems, WellFoundedInduction, TLAPS

-----------------------------------------------------------------------------
(* The inductive invariant. *)

Inode == [size : Nat, blocks : Nat, indirect : 0..NBLOCKS, direct : [Direct -> 0..NBLOCKS]]
OpenFile == [file : Files, pos : Nat]
Truncation == [run : {"truncate"}, fd : Fds, file : Files, len : Nat]
Transfer == [run : {"io"}, fd : Fds, file : Files, offset : Nat, endpos : Nat, alen : Nat]

DiskType ==
  /\ din \in [Files -> Inode]
  /\ ents \in [Blocks -> [Entries -> 0..NBLOCKS]]

OpInv ==
  /\ fds \in [Fds -> OpenFile \cup {NULL}]
  /\ op \in {Idle} \cup Truncation \cup Transfer
  /\ op.run = "io" => fds[op.fd] \in OpenFile /\ op.offset + op.alen <= op.endpos

\* Where a block can be: at an index of a file, or in its field indirect.
Slots == Indices \cup {-1}
At == [f \in Files |-> [i \in Slots |-> IF i = -1 THEN din[f].indirect ELSE BlockAt(f, i)]]

\* With the blocks in their slots as in "at" no block is in two of them, and F are
\* the blocks that are in none.
Owned(at, F) ==
  /\ \A f, g \in Files : \A i, j \in Slots : at[f][i] = at[g][j] /\ at[f][i] # 0 => f = g /\ i = j
  /\ F \subseteq Blocks
  /\ \A b \in Blocks : b \in F <=> ~\E f \in Files : \E i \in Slots : at[f][i] = b

CountInv == IsFiniteSet(freemap) /\ unused_blocks = Cardinality(freemap)

BoundInv == \A f \in Files : din[f].blocks <= SFS_NDIRECT + SFS_BLK_NENTRY

DiskInv == DiskType /\ Owned(At, freemap) /\ CountInv /\ BoundInv /\ IndicesAreDense

\* How long the file is that its blocks are enough for: while a transfer is under
\* way, its size or what has been transferred so far.
Higher(a, b) == IF a < b THEN b ELSE a

SizeInv ==
  /\ \A f \in Files \ marred :
       op = Idle \/ f # op.file => din[f].blocks = ROUNDUP_DIV(din[f].size, SFS_BLKSIZE)
  /\ op.run = "io" /\ op.file \notin marred =>
       din[op.file].blocks = ROUNDUP_DIV(Higher(din[op.file].size, op.offset + op.alen), SFS_BLKSIZE)

Inv == DiskInv /\ OpInv /\ SizeInv

-----------------------------------------------------------------------------
(* Numbers. *)

LEMMA MinOfTwo ==
  ASSUME NEW a \in Int, NEW b \in Int
  PROVE  Min({a, b}) = IF a <= b THEN a ELSE b
<1>1. CASE a <= b
  <2>1. \A y \in {a, b} : a <= y
    BY <1>1
  <2>2. \A x \in {a, b} : (\A y \in {a, b} : x <= y) => x = a
    BY <1>1
  <2> QED BY <1>1, <2>1, <2>2 DEF Min
<1>2. CASE ~(a <= b)
  <2>1. \A y \in {a, b} : b <= y
    BY <1>2
  <2>2. \A x \in {a, b} : (\A y \in {a, b} : x <= y) => x = b
    BY <1>2
  <2> QED BY <1>2, <2>1, <2>2 DEF Min
<1> QED BY <1>1, <1>2

LEMMA MaxOfTwo ==
  ASSUME NEW a \in Int, NEW b \in Int
  PROVE  Max({a, b}) = Higher(a, b)
<1>1. CASE a < b
  <2>1. \A y \in {a, b} : b >= y
    BY <1>1
  <2>2. \A x \in {a, b} : (\A y \in {a, b} : x >= y) => x = b
    BY <1>1
  <2> QED BY <1>1, <2>1, <2>2 DEF Max, Higher
<1>2. CASE ~(a < b)
  <2>1. \A y \in {a, b} : a >= y
    BY <1>2
  <2>2. \A x \in {a, b} : (\A y \in {a, b} : x >= y) => x = a
    BY <1>2
  <2> QED BY <1>2, <2>1, <2>2 DEF Max, Higher
<1> QED BY <1>1, <1>2

\* A non-empty set of numbers has a least element.
LEMMA Minimal ==
  ASSUME NEW R, IsWellFoundedOn(R, Nat), NEW S, S \subseteq Nat, S # {}
  PROVE  \E n \in S : \A m \in S : ~(<<m, n>> \in R)
BY WFMin

LEMMA NotLess ==
  ASSUME NEW R, \A m, n \in Nat : <<m, n>> \in R <=> m < n,
         NEW S, S \subseteq Nat, \E n \in S : \A m \in S : ~(<<m, n>> \in R)
  PROVE  \E n \in S : \A m \in S : n <= m
<1>1. PICK n \in S : \A m \in S : ~(<<m, n>> \in R)
  OBVIOUS
<1>2. \A m \in S : ~(m < n)
  BY <1>1
<1>3. \A m \in S : n <= m
  BY <1>2
<1> QED BY <1>3

LEMMA MinIsMember ==
  ASSUME NEW S, S \subseteq Nat, S # {}
  PROVE  Min(S) \in S
<1>1. \A m, n \in Nat : <<m, n>> \in OpToRel(<, Nat) <=> m < n
  BY DEF OpToRel
<1>2. \E n \in S : \A m \in S : ~(<<m, n>> \in OpToRel(<, Nat))
  BY NatLessThanWellFounded, Minimal
<1>3. \E n \in S : \A m \in S : n <= m
  BY <1>1, <1>2, NotLess
<1> QED BY <1>3 DEF Min

LEMMA Multiples ==
  ASSUME NEW s \in Nat, s > 0, NEW x \in Int, NEW y \in Int, x < y
  PROVE  s * x + s <= s * y /\ s * x \in Int /\ s * y \in Int
<1>1. y - x >= 1
  OBVIOUS
<1>2. s * y - s * x = s * (y - x) /\ s * x \in Int /\ s * y \in Int
  OBVIOUS
<1>3. \A d \in Int : d >= 1 => s * d >= s
  OBVIOUS
<1>4. s * (y - x) >= s
  BY <1>1, <1>3
<1> QED BY <1>2, <1>4

\* What division by the block size computes.
LEMMA Quotient ==
  ASSUME NEW a \in Nat, NEW s \in Nat, s > 0
  PROVE  /\ a \div s \in Nat
         /\ s * (a \div s) \in Nat
         /\ s * (a \div s) <= a /\ a < s * (a \div s) + s
<1>1. a = s * (a \div s) + (a % s) /\ a % s \in 0..s-1 /\ a \div s \in Int
  OBVIOUS
<1>2. s * (a \div s) \in Int
  BY <1>1
<1>3. s * (a \div s) <= a /\ a < s * (a \div s) + s
  BY <1>1, <1>2
<1>4. ~(a \div s < 0)
  <2> SUFFICES ASSUME a \div s < 0 PROVE FALSE
    OBVIOUS
  <2>1. s * (a \div s) + s <= s * 0
    BY <1>1, Multiples
  <2> QED BY <1>2, <1>3, <2>1
<1>5. \A d \in Nat : s * d \in Nat
  OBVIOUS
<1> QED BY <1>1, <1>3, <1>4, <1>5

\* The number of blocks that a length needs.
LEMMA RoundUp ==
  ASSUME NEW x \in Nat, NEW k \in Nat, NEW s \in Nat, s > 0
  PROVE  ROUNDUP_DIV(x, s) = k <=> x <= s * k /\ s * k < x + s
<1> DEFINE q == (x + s - 1) \div s
<1>1. x + s - 1 \in Nat
  OBVIOUS
<1>2. q \in Nat /\ s * q \in Nat /\ s * q <= x + s - 1 /\ x + s - 1 < s * q + s
  BY <1>1, Quotient
<1>3. ROUNDUP_DIV(x, s) = q
  BY DEF ROUNDUP_DIV
<1> HIDE DEF q
<1>4. x <= s * q /\ s * q < x + s
  BY <1>2
<1>5. k < q => s * k + s <= s * q /\ s * k \in Int
  BY <1>2, Multiples
<1>6. q < k => s * q + s <= s * k /\ s * k \in Int
  BY <1>2, Multiples
<1>7. CASE k = q
  BY <1>3, <1>4, <1>7
<1>8. CASE k < q
  BY <1>2, <1>3, <1>4, <1>5, <1>8
<1>9. CASE q < k
  BY <1>2, <1>3, <1>4, <1>6, <1>9
<1> QED BY <1>2, <1>7, <1>8, <1>9

-----------------------------------------------------------------------------
(* Blocks and their owners. *)

\* A free block is put into an empty slot.
LEMMA GiveBlock ==
  ASSUME NEW at, NEW F, Owned(at, F), NEW f \in Files, NEW i \in Slots, at[f][i] = 0, NEW b \in F,
         NEW new, \A g \in Files : \A j \in Slots :
                    new[g][j] = IF g = f /\ j = i THEN b ELSE at[g][j]
  PROVE  Owned(new, F \ {b})
<1>1. b \in Blocks /\ b # 0
  <2>1. b \in Blocks
    BY DEF Owned
  <2> QED BY <2>1, SfsAssumption DEF Blocks
<1>2. \A g \in Files : \A j \in Slots : at[g][j] # b
  BY <1>1 DEF Owned
<1>3. ASSUME NEW g \in Files, NEW h \in Files, NEW j \in Slots, NEW k \in Slots,
             new[g][j] = new[h][k], new[g][j] # 0
      PROVE  g = h /\ j = k
  BY <1>2, <1>3 DEF Owned
<1>4. ASSUME NEW c \in Blocks
      PROVE  c \in F \ {b} <=> ~\E g \in Files : \E j \in Slots : new[g][j] = c
  <2>1. CASE c = b
    BY <2>1
  <2>2. CASE c # b
    <3>1. ASSUME NEW g \in Files, NEW j \in Slots PROVE new[g][j] = c <=> at[g][j] = c
      <4>1. c # 0
        BY SfsAssumption DEF Blocks
      <4> QED BY <2>2, <4>1
    <3> QED BY <2>2, <3>1 DEF Owned
  <2> QED BY <2>1, <2>2
<1> QED BY <1>3, <1>4 DEF Owned

\* The block in a slot is freed.
LEMMA TakeBlock ==
  ASSUME NEW at, NEW F, Owned(at, F), NEW f \in Files, NEW i \in Slots, NEW b \in Blocks,
         at[f][i] = b, NEW new, \A g \in Files : \A j \in Slots :
                    new[g][j] = IF g = f /\ j = i THEN 0 ELSE at[g][j]
  PROVE  Owned(new, F \cup {b}) /\ b \notin F
<1>1. at[f][i] # 0 /\ at[f][i] \notin F
  BY SfsAssumption DEF Owned, Blocks
<1>2. ASSUME NEW g \in Files, NEW h \in Files, NEW j \in Slots, NEW k \in Slots,
             new[g][j] = new[h][k], new[g][j] # 0
      PROVE  g = h /\ j = k
  BY <1>2 DEF Owned
<1>3. ASSUME NEW c \in Blocks
      PROVE  c \in F \cup {at[f][i]} <=> ~\E g \in Files : \E j \in Slots : new[g][j] = c
  <2>0. c # 0
    BY SfsAssumption DEF Blocks
  <2>1. CASE c = at[f][i]
    <3>1. ASSUME NEW g \in Files, NEW j \in Slots PROVE new[g][j] # c
      BY <1>1, <2>0, <2>1 DEF Owned
    <3> QED BY <2>1, <3>1
  <2>2. CASE c # at[f][i]
    <3>1. ASSUME NEW g \in Files, NEW j \in Slots PROVE new[g][j] = c <=> at[g][j] = c
      BY <2>0, <2>2
    <3> QED BY <2>2, <3>1 DEF Owned
  <2> QED BY <2>1, <2>2
<1> QED BY <1>1, <1>2, <1>3 DEF Owned

-----------------------------------------------------------------------------
(* The disk. *)

LEMMA Constants ==
  /\ NBLOCKS \in Nat /\ SFS_BLKSIZE \in Nat /\ SFS_BLKSIZE > 0
  /\ SFS_NDIRECT \in Nat /\ SFS_NDIRECT > 0 /\ SFS_BLK_NENTRY \in Nat /\ SFS_BLK_NENTRY > 0
  /\ SFS_MAX_FILE_SIZE \in Nat
  /\ \A i \in Indices : i \in Nat /\ i # -1 /\ i \in Slots
  /\ -1 \in Slots
  /\ \A b \in Blocks : b # 0 /\ b \in 0..NBLOCKS /\ b \in Nat
<1>1. /\ NBLOCKS \in Nat /\ SFS_BLKSIZE \in Nat /\ SFS_BLKSIZE > 0
      /\ SFS_NDIRECT \in Nat /\ SFS_NDIRECT > 0 /\ SFS_BLK_NENTRY \in Nat /\ SFS_BLK_NENTRY > 0
      /\ SFS_MAX_FILE_SIZE \in Nat
  BY SfsAssumption
<1>2. \A i \in Indices : i \in Nat /\ i # -1 /\ i \in Slots
  BY <1>1 DEF Indices, Slots
<1>3. \A b \in Blocks : b # 0 /\ b \in 0..NBLOCKS /\ b \in Nat
  BY <1>1 DEF Blocks
<1> QED BY <1>1, <1>2, <1>3 DEF Slots

\* Indices are direct or indirect.
LEMMA Ranges ==
  ASSUME NEW i \in Indices
  PROVE  /\ i < SFS_NDIRECT <=> i \in Direct
         /\ ~(i < SFS_NDIRECT) => i - SFS_NDIRECT \in Entries
         /\ \A j \in Indices : ~(i < SFS_NDIRECT) /\ ~(j < SFS_NDIRECT)
                                 /\ i - SFS_NDIRECT = j - SFS_NDIRECT => i = j
BY Constants DEF Indices, Direct, Entries

\* What At says, slot by slot.
LEMMA AtFacts ==
  ASSUME NEW f \in Files
  PROVE  /\ At[f][-1] = din[f].indirect
         /\ \A i \in Indices : At[f][i] = BlockAt(f, i)
BY Constants DEF At

LEMMA AtFactsPrime ==
  ASSUME NEW f \in Files
  PROVE  /\ At'[f][-1] = din'[f].indirect
         /\ \A i \in Indices : At'[f][i] = BlockAt(f, i)'
BY Constants DEF At

LEMMA BlockType ==
  ASSUME DiskType, NEW f \in Files, NEW i \in Indices
  PROVE  BlockAt(f, i) \in 0..NBLOCKS /\ din[f].indirect \in 0..NBLOCKS
<1>1. din[f] \in Inode
  BY DEF DiskType
<1>2. CASE i < SFS_NDIRECT
  BY <1>1, <1>2, Ranges DEF BlockAt, Inode
<1>3. CASE ~(i < SFS_NDIRECT)
  <2>1. din[f].indirect # 0 => din[f].indirect \in Blocks
    BY <1>1, Constants DEF Inode, Blocks
  <2> QED BY <1>1, <1>3, <2>1, Ranges, Constants DEF BlockAt, Inode, DiskType
<1> QED BY <1>1, <1>2, <1>3 DEF Inode

\* Blocks below din->blocks are there, the others are not.
LEMMA EmptyBehind ==
  ASSUME DiskInv, NEW f \in Files, NEW i \in Indices
  PROVE  At[f][i] # 0 <=> i < din[f].blocks
BY AtFacts DEF DiskInv, IndicesAreDense

LEMMA LowestBlock ==
  ASSUME NEW F, F \subseteq Blocks, F # {}
  PROVE  sfs_block_alloc(F) \in F
<1>1. F \subseteq Nat
  BY Constants
<1> QED BY <1>1, MinIsMember DEF sfs_block_alloc

\* File f has one more block, and nothing else has changed.
Grown(f) ==
  /\ din' \in [Files -> Inode]
  /\ din'[f].blocks = din[f].blocks + 1
  /\ \A g \in Files : din'[g].size = din[g].size
  /\ \A g \in Files : g # f => din'[g] = din[g]

\* The disk is sound if the slots are, and the new block is at the next index.
LEMMA GrownInv ==
  ASSUME DiskInv, NEW f \in Files, din[f].blocks \in Indices, Grown(f),
         ents' \in [Blocks -> [Entries -> 0..NBLOCKS]], Owned(At', freemap'), CountInv',
         At'[f][din[f].blocks] # 0,
         \A g \in Files : \A i \in Indices : g # f \/ i # din[f].blocks => At'[g][i] = At[g][i]
  PROVE  DiskInv'
<1> DEFINE index == din[f].blocks
<1>1. DiskType'
  BY DEF DiskType, Grown
<1>2. BoundInv'
  <2>1. \A g \in Files : din[g].blocks \in Nat /\ din[g].blocks <= SFS_NDIRECT + SFS_BLK_NENTRY
    BY DEF DiskInv, DiskType, BoundInv, Inode
  <2>2. index + 1 <= SFS_NDIRECT + SFS_BLK_NENTRY
    BY Constants DEF Indices
  <2> QED BY <2>1, <2>2 DEF Grown, BoundInv
<1>3. IndicesAreDense'
  <2> SUFFICES ASSUME NEW g \in Files, NEW i \in Indices
               PROVE  At'[g][i] # 0 <=> i < din'[g].blocks
    BY AtFactsPrime DEF IndicesAreDense
  <2>1. i \in Nat /\ index \in Nat
    BY Constants
  <2>2. At[g][i] # 0 <=> i < din[g].blocks
    BY EmptyBehind
  <2>3. CASE g = f /\ i = index
    BY <2>1, <2>3 DEF Grown
  <2>4. CASE g = f /\ i # index
    <3>1. At'[g][i] = At[g][i] /\ din'[g].blocks = index + 1 /\ din[g].blocks = index
      BY <2>4 DEF Grown
    <3>2. i < index + 1 <=> i < index
      BY <2>1, <2>4
    <3> HIDE DEF index
    <3> QED BY <2>2, <3>1, <3>2
  <2>5. CASE g # f
    BY <2>2, <2>5 DEF Grown
  <2> QED BY <2>3, <2>4, <2>5
<1> QED BY <1>1, <1>2, <1>3 DEF DiskInv

LEMMA NewDirectInv ==
  ASSUME DiskInv, NEW f \in Files, NEW index \in Indices, index = din[f].blocks, index < SFS_NDIRECT,
         Cardinality(freemap) >= 1, unused_blocks' = unused_blocks - 1, NewDirect(f, index)
  PROVE  DiskInv' /\ Grown(f)
<1>1. Owned(At, freemap) /\ freemap \subseteq Blocks /\ IsFiniteSet(freemap) /\ unused_blocks = Cardinality(freemap)
  BY DEF DiskInv, Owned, CountInv
<1>2. freemap # {}
  BY <1>1, FS_EmptySet
<1>3. PICK b \in freemap : b = sfs_block_alloc(freemap)
  BY <1>1, <1>2, LowestBlock
<1>4. /\ din' = [din EXCEPT ![f].direct[index] = b, ![f].blocks = @ + 1]
      /\ freemap' = freemap \ {b} /\ ents' = ents
  BY <1>3 DEF NewDirect
<1>5. b \in Blocks /\ b # 0 /\ b \in 0..NBLOCKS
  BY <1>1, Constants
<1>6. din \in [Files -> Inode] /\ din[f] \in Inode /\ index \in Direct
  BY Ranges DEF DiskInv, DiskType
<1>7. /\ din'[f].blocks = din[f].blocks + 1 /\ din'[f].size = din[f].size /\ din'[f].indirect = din[f].indirect
      /\ \A i \in Direct : din'[f].direct[i] = IF i = index THEN b ELSE din[f].direct[i]
      /\ \A g \in Files : g # f => din'[g] = din[g]
  BY <1>4, <1>6 DEF Inode
<1>8. Grown(f)
  <2>1. din' \in [Files -> Inode]
    BY <1>4, <1>5, <1>6 DEF Inode
  <2> QED BY <1>7, <2>1 DEF Grown
<1>9. ASSUME NEW g \in Files, NEW j \in Slots
      PROVE  At'[g][j] = IF g = f /\ j = index THEN b ELSE At[g][j]
  <2>1. CASE j = -1
    <3>1. At'[g][-1] = din'[g].indirect /\ At[g][-1] = din[g].indirect
      BY AtFacts, AtFactsPrime
    <3> QED BY <1>7, <2>1, <3>1, Constants
  <2>2. CASE j \in Indices
    <3>1. At'[g][j] = BlockAt(g, j)' /\ At[g][j] = BlockAt(g, j)
      BY <2>2, AtFacts, AtFactsPrime
    <3>2. CASE g # f
      BY <1>4, <1>7, <3>1, <3>2 DEF BlockAt
    <3>3. CASE g = f
      <4>1. j < SFS_NDIRECT <=> j \in Direct
        BY <2>2, Ranges
      <4> QED BY <1>4, <1>7, <3>1, <3>3, <4>1 DEF BlockAt
    <3> QED BY <3>2, <3>3
  <2> QED BY <2>1, <2>2 DEF Slots
<1>10. At[f][index] = 0
  BY EmptyBehind, Constants
<1>11. Owned(At', freemap')
  <2>1. index \in Slots
    BY Constants
  <2> QED BY <1>1, <1>4, <1>9, <1>10, <2>1, GiveBlock
<1>12. CountInv'
  BY <1>1, <1>4, FS_RemoveElement, FS_CardinalityType DEF CountInv
<1>13. At'[f][index] # 0 /\ \A g \in Files : \A i \in Indices : g # f \/ i # index => At'[g][i] = At[g][i]
  BY <1>5, <1>9, Constants
<1>14. ents' \in [Blocks -> [Entries -> 0..NBLOCKS]]
  BY <1>4 DEF DiskInv, DiskType
<1> QED BY <1>8, <1>11, <1>12, <1>13, <1>14, GrownInv

LEMMA NewIndirectInv ==
  ASSUME DiskInv, NEW f \in Files, NEW index \in Indices, index = din[f].blocks, ~(index < SFS_NDIRECT),
         NEW n \in Nat, n = (IF din[f].indirect = 0 THEN 2 ELSE 1),
         Cardinality(freemap) >= n, unused_blocks' = unused_blocks - n, NewIndirect(f, index)
  PROVE  DiskInv' /\ Grown(f)
<1>1. Owned(At, freemap) /\ freemap \subseteq Blocks /\ IsFiniteSet(freemap) /\ unused_blocks = Cardinality(freemap)
  BY DEF DiskInv, Owned, CountInv
<1>2. freemap # {} /\ Cardinality(freemap) \in Nat
  BY <1>1, FS_EmptySet, FS_CardinalityType
<1>3. din \in [Files -> Inode] /\ din[f] \in Inode /\ ents \in [Blocks -> [Entries -> 0..NBLOCKS]]
  BY DEF DiskInv, DiskType
<1> DEFINE e == index - SFS_NDIRECT
           ent == IF din[f].indirect = 0 THEN sfs_block_alloc(freemap) ELSE din[f].indirect
           b == sfs_block_alloc(freemap \ {ent})
           old(i) == IF din[f].indirect = 0 THEN 0 ELSE ents[ent][i]
<1>4. e \in Entries
  BY Ranges
<1>5. /\ ent \in Blocks
      /\ din[f].indirect = 0 => ent \in freemap
      /\ din[f].indirect # 0 => ent \notin freemap /\ ent = din[f].indirect
  <2>1. CASE din[f].indirect = 0
    BY <1>1, <1>2, <2>1, LowestBlock
  <2>2. CASE din[f].indirect # 0
    <3>1. din[f].indirect \in Blocks
      BY <1>3, <2>2, Constants DEF Inode, Blocks
    <3>2. At[f][-1] = din[f].indirect
      BY AtFacts
    <3> QED BY <1>1, <2>2, <3>1, <3>2, Constants DEF Owned
  <2> QED BY <2>1, <2>2
<1>6. \A g \in Files : din[g].indirect = ent => g = f /\ din[f].indirect # 0
  <2> SUFFICES ASSUME NEW g \in Files, din[g].indirect = ent
               PROVE  g = f /\ din[f].indirect # 0
    OBVIOUS
  <2>1. At[g][-1] = din[g].indirect /\ At[f][-1] = din[f].indirect
    BY AtFacts
  <2>2. ent # 0
    BY <1>5, Constants
  <2>3. din[f].indirect # 0
    BY <1>1, <1>5, <2>1, Constants DEF Owned
  <2> QED BY <1>1, <1>5, <2>1, <2>2, <2>3, Constants DEF Owned
<1>7. b \in freemap \ {ent}
  <2>1. freemap \ {ent} # {}
    <3>1. CASE din[f].indirect = 0
      <4>1. Cardinality(freemap \ {ent}) = Cardinality(freemap) - 1
        BY <1>1, <1>5, <3>1, FS_RemoveElement
      <4> QED BY <1>2, <3>1, <4>1, FS_EmptySet
    <3>2. CASE din[f].indirect # 0
      BY <1>2, <1>5, <3>2
    <3> QED BY <3>1, <3>2
  <2> QED BY <1>1, <2>1, LowestBlock
<1>8. b \in Blocks /\ b # 0 /\ b \in 0..NBLOCKS /\ ent # 0 /\ ent \in 0..NBLOCKS
  BY <1>1, <1>5, <1>7, Constants
<1>9. /\ din' = [din EXCEPT ![f].indirect = ent, ![f].blocks = @ + 1]
      /\ freemap' = freemap \ {ent, b}
  BY DEF NewIndirect
<1>10. /\ ents' \in [Blocks -> [Entries -> 0..NBLOCKS]]
       /\ \A i \in Entries : ents'[ent][i] = IF i = e THEN b ELSE old(i)
       /\ \A c \in Blocks : c # ent => ents'[c] = ents[c]
  <2> DEFINE cleared == IF din[f].indirect = 0 THEN [i \in Entries |-> 0] ELSE ents[ent]
  <2>1. ents' = [ents EXCEPT ![ent] = [cleared EXCEPT ![e] = b]]
    BY DEF NewIndirect
  <2>2. cleared \in [Entries -> 0..NBLOCKS] /\ \A i \in Entries : cleared[i] = old(i)
    BY <1>3, <1>5, Constants
  <2> HIDE DEF cleared, ent, b, e, old
  <2>3. [cleared EXCEPT ![e] = b] \in [Entries -> 0..NBLOCKS]
    BY <1>4, <1>8, <2>2
  <2> QED BY <1>3, <1>4, <1>5, <2>1, <2>2, <2>3
<1>11. e = index - SFS_NDIRECT
  OBVIOUS
<1>12. \A i \in Entries : old(i) = IF din[f].indirect = 0 THEN 0 ELSE ents[ent][i]
  OBVIOUS
<1> HIDE DEF ent, b, e, old
<1>13. /\ din'[f].blocks = din[f].blocks + 1 /\ din'[f].size = din[f].size
       /\ din'[f].indirect = ent /\ din'[f].direct = din[f].direct
       /\ \A g \in Files : g # f => din'[g] = din[g]
  BY <1>3, <1>9 DEF Inode
<1>14. Grown(f)
  <2>1. din' \in [Files -> Inode]
    BY <1>3, <1>8, <1>9 DEF Inode
  <2> QED BY <1>13, <2>1 DEF Grown
<1>15. ASSUME NEW g \in Files, NEW j \in Slots
       PROVE  At'[g][j] = IF g = f /\ j = index THEN b
                          ELSE IF g = f /\ j = -1 THEN ent ELSE At[g][j]
  <2>1. CASE j = -1
    <3>1. At'[g][-1] = din'[g].indirect /\ At[g][-1] = din[g].indirect
      BY AtFacts, AtFactsPrime
    <3> QED BY <1>13, <2>1, <3>1, Constants
  <2>2. CASE j \in Indices
    <3>1. At'[g][j] = BlockAt(g, j)' /\ At[g][j] = BlockAt(g, j) /\ j # -1
      BY <2>2, AtFacts, AtFactsPrime, Constants
    <3>2. CASE j < SFS_NDIRECT
      <4>1. BlockAt(g, j)' = din'[g].direct[j] /\ BlockAt(g, j) = din[g].direct[j]
        BY <3>2 DEF BlockAt
      <4>2. j # index
        BY <3>2
      <4> QED BY <1>13, <3>1, <4>1, <4>2
    <3>3. CASE ~(j < SFS_NDIRECT)
      <4> DEFINE k == j - SFS_NDIRECT
      <4>1. k \in Entries /\ (k = e <=> j = index)
        BY <1>11, <2>2, <3>3, Ranges
      <4>2. BlockAt(g, j)' = IF din'[g].indirect = 0 THEN 0 ELSE ents'[din'[g].indirect][k]
        BY <3>3 DEF BlockAt
      <4>3. BlockAt(g, j) = IF din[g].indirect = 0 THEN 0 ELSE ents[din[g].indirect][k]
        BY <3>3 DEF BlockAt
      <4> HIDE DEF k
      <4>4. CASE g = f
        BY <1>5, <1>8, <1>10, <1>12, <1>13, <3>1, <4>1, <4>2, <4>3, <4>4
      <4>5. CASE g # f
        <5>1. din[g].indirect # 0 => din[g].indirect \in Blocks
          BY <1>3, Constants DEF Inode, Blocks
        <5>2. din[g].indirect # ent
          BY <1>6, <4>5
        <5> QED BY <1>10, <1>13, <3>1, <4>2, <4>3, <4>5, <5>1, <5>2
      <4> QED BY <4>4, <4>5
    <3> QED BY <3>2, <3>3
  <2> QED BY <2>1, <2>2 DEF Slots
<1>16. At[f][index] = 0 /\ At[f][-1] = din[f].indirect /\ index \in Slots /\ index # -1 /\ -1 \in Slots
  BY EmptyBehind, AtFacts, Constants
<1>17. Owned(At', freemap') /\ CountInv'
  <2>1. CASE din[f].indirect = 0
    <3> DEFINE mid == [g \in Files |-> [j \in Slots |-> IF g = f /\ j = -1 THEN ent ELSE At[g][j]]]
    <3>1. \A g \in Files : \A j \in Slots : mid[g][j] = IF g = f /\ j = -1 THEN ent ELSE At[g][j]
      OBVIOUS
    <3> HIDE DEF mid
    <3>2. ent \in freemap /\ At[f][-1] = 0
      BY <1>5, <1>16, <2>1
    <3>3. Owned(mid, freemap \ {ent})
      BY <1>1, <1>16, <3>1, <3>2, GiveBlock
    <3>4. mid[f][index] = 0
      BY <1>16, <3>1
    <3>5. \A g \in Files : \A j \in Slots : At'[g][j] = IF g = f /\ j = index THEN b ELSE mid[g][j]
      BY <1>15, <3>1
    <3>6. Owned(At', (freemap \ {ent}) \ {b})
      BY <1>7, <1>16, <3>3, <3>4, <3>5, GiveBlock
    <3>7. freemap' = (freemap \ {ent}) \ {b}
      BY <1>9
    <3>8. IsFiniteSet(freemap \ {ent}) /\ Cardinality(freemap \ {ent}) = Cardinality(freemap) - 1
      BY <1>1, <3>2, FS_RemoveElement
    <3>9. IsFiniteSet(freemap') /\ Cardinality(freemap') = Cardinality(freemap) - 1 - 1
      BY <1>7, <3>7, <3>8, FS_RemoveElement
    <3> QED BY <1>1, <1>2, <2>1, <3>6, <3>7, <3>9 DEF CountInv
  <2>2. CASE din[f].indirect # 0
    <3>1. \A g \in Files : \A j \in Slots : At'[g][j] = IF g = f /\ j = index THEN b ELSE At[g][j]
      BY <1>5, <1>15, <1>16, <2>2
    <3>2. freemap' = freemap \ {b} /\ b \in freemap
      BY <1>5, <1>7, <1>9, <2>2
    <3>3. Owned(At', freemap')
      BY <1>1, <1>16, <3>1, <3>2, GiveBlock
    <3>4. IsFiniteSet(freemap') /\ Cardinality(freemap') = Cardinality(freemap) - 1
      BY <1>1, <3>2, FS_RemoveElement
    <3> QED BY <1>1, <1>2, <2>2, <3>3, <3>4 DEF CountInv
  <2> QED BY <2>1, <2>2
<1>18. At'[f][index] # 0 /\ \A g \in Files : \A i \in Indices : g # f \/ i # index => At'[g][i] = At[g][i]
  BY <1>8, <1>15, <1>16, Constants
<1> QED BY <1>10, <1>14, <1>17, <1>18, GrownInv

\* sfs_bmap_load_nolock makes the next block.
LEMMA CreatedInv ==
  ASSUME DiskInv, NEW f \in Files, NEW index, Created(f, index)
  PROVE  DiskInv' /\ Grown(f) /\ index = din[f].blocks
<1>1. index = din[f].blocks /\ index \in Indices
  BY DEF Created
<1>2. BlockAt(f, index) = 0
  BY <1>1, EmptyBehind, AtFacts, Constants
<1>3. CASE index < SFS_NDIRECT
  <2>1. ~(index >= SFS_NDIRECT)
    BY <1>1, <1>3, Constants
  <2>2. Needed(f, index) = 1
    BY <1>2, <2>1 DEF Needed
  <2>3. Cardinality(freemap) >= 1 /\ unused_blocks' = unused_blocks - 1 /\ NewDirect(f, index)
    BY <1>2, <1>3, <2>2 DEF Created
  <2> QED BY <1>1, <1>3, <2>3, NewDirectInv
<1>4. CASE ~(index < SFS_NDIRECT)
  <2> DEFINE n == IF din[f].indirect = 0 THEN 2 ELSE 1
  <2>1. index >= SFS_NDIRECT
    BY <1>1, <1>4, Constants
  <2>2. Needed(f, index) = n
    BY <1>2, <2>1 DEF Needed
  <2>3. Cardinality(freemap) >= n /\ unused_blocks' = unused_blocks - n /\ NewIndirect(f, index)
    BY <1>2, <1>4, <2>2 DEF Created
  <2>4. n \in Nat
    OBVIOUS
  <2> QED BY <1>1, <1>4, <2>3, <2>4, NewIndirectInv
<1> QED BY <1>1, <1>3, <1>4

\* sfs_bmap_truncate_nolock frees the last block.
Shrunk(f) ==
  /\ din' \in [Files -> Inode]
  /\ din'[f].blocks = din[f].blocks - 1
  /\ \A g \in Files : din'[g].size = din[g].size
  /\ \A g \in Files : g # f => din'[g] = din[g]

LEMMA DropEnds ==
  ASSUME DiskInv, NEW f \in Files, NEW index \in Indices, index = din[f].blocks - 1, Shrunk(f),
         At[f][index] \in Blocks, freemap' = freemap \cup {At[f][index]},
         unused_blocks' = unused_blocks + 1, ents' \in [Blocks -> [Entries -> 0..NBLOCKS]],
         \A g \in Files : \A j \in Slots : At'[g][j] = IF g = f /\ j = index THEN 0 ELSE At[g][j]
  PROVE  DiskInv'
<1>1. Owned(At, freemap) /\ IsFiniteSet(freemap) /\ unused_blocks = Cardinality(freemap)
  BY DEF DiskInv, CountInv
<1>2. index \in Slots
  BY Constants
<1>3. Owned(At', freemap') /\ At[f][index] \notin freemap
  <2>1. PICK b \in Blocks : At[f][index] = b
    OBVIOUS
  <2>2. Owned(At', freemap \cup {b}) /\ b \notin freemap
    BY <1>1, <1>2, <2>1, TakeBlock
  <2> QED BY <2>1, <2>2
<1>4. CountInv'
  <2>1. IsFiniteSet(freemap') /\ Cardinality(freemap') = Cardinality(freemap) + 1
    BY <1>1, <1>3, FS_AddElement
  <2> QED BY <1>1, <2>1 DEF CountInv
<1>5. DiskType'
  BY DEF DiskType, Shrunk
<1>6. \A g \in Files : din[g].blocks \in Nat /\ din[g].blocks <= SFS_NDIRECT + SFS_BLK_NENTRY
  BY DEF DiskInv, DiskType, BoundInv, Inode
<1>7. BoundInv'
  BY <1>6, Constants DEF Shrunk, BoundInv
<1>8. IndicesAreDense'
  <2> SUFFICES ASSUME NEW g \in Files, NEW i \in Indices
               PROVE  At'[g][i] # 0 <=> i < din'[g].blocks
    BY AtFactsPrime DEF IndicesAreDense
  <2>1. i \in Nat /\ index \in Nat /\ i \in Slots
    BY Constants
  <2>2. At[g][i] # 0 <=> i < din[g].blocks
    BY EmptyBehind
  <2>3. CASE g = f
    <3>1. din'[g].blocks = index /\ (i < din[g].blocks <=> i < index + 1)
      BY <1>6, <2>1, <2>3 DEF Shrunk
    <3>2. At'[g][i] = IF i = index THEN 0 ELSE At[g][i]
      BY <2>1, <2>3
    <3>3. CASE i = index
      <4>1. ~(i < index)
        BY <2>1, <3>3
      <4>2. At'[g][i] = 0
        BY <3>2, <3>3
      <4> QED BY <3>1, <4>1, <4>2
    <3>4. CASE i # index
      <4>1. i < index + 1 <=> i < index
        BY <2>1, <3>4
      <4>2. At'[g][i] = At[g][i]
        BY <3>2, <3>4
      <4> QED BY <2>2, <3>1, <4>1, <4>2
    <3> QED BY <3>3, <3>4
  <2>4. CASE g # f
    <3>1. At'[g][i] = At[g][i] /\ din'[g] = din[g]
      BY <2>1, <2>4 DEF Shrunk
    <3> QED BY <2>2, <3>1
  <2> QED BY <2>3, <2>4
<1> QED BY <1>3, <1>4, <1>5, <1>7, <1>8 DEF DiskInv

LEMMA DropInv ==
  ASSUME DiskInv, NEW f \in Files, din[f].blocks > 0, Drop(f)
  PROVE  DiskInv' /\ Shrunk(f)
<1>1. Owned(At, freemap) /\ freemap \subseteq Blocks /\ IsFiniteSet(freemap) /\ unused_blocks = Cardinality(freemap)
  BY DEF DiskInv, Owned, CountInv
<1>2. din \in [Files -> Inode] /\ din[f] \in Inode /\ ents \in [Blocks -> [Entries -> 0..NBLOCKS]]
  BY DEF DiskInv, DiskType
<1>3. Cardinality(freemap) \in Nat
  BY <1>1, FS_CardinalityType
<1> DEFINE index == din[f].blocks - 1
           b == BlockAt(f, index)
           e == index - SFS_NDIRECT
           ent == din[f].indirect
<1>4. index \in Indices /\ index \in Nat /\ din[f].blocks \in Nat /\ index < din[f].blocks
  BY <1>2, Constants DEF DiskInv, BoundInv, Inode, Indices
<1>5. At[f][index] = b /\ b # 0 /\ b \in Blocks
  <2>1. At[f][index] = b
    BY <1>4, AtFacts
  <2>2. b # 0
    BY <1>4, <2>1, EmptyBehind
  <2>3. b \in 0..NBLOCKS
    BY <1>4, BlockType DEF DiskInv
  <2> QED BY <2>1, <2>2, <2>3, Constants DEF Blocks
<1>6. freemap' = freemap \cup {b} /\ unused_blocks' = unused_blocks + 1
  BY <1>5 DEF Drop
<1>7. CASE index < SFS_NDIRECT
  <2>1. din' = [din EXCEPT ![f].direct[index] = 0, ![f].blocks = index] /\ ents' = ents
    BY <1>7 DEF Drop
  <2>2. index \in Direct
    BY <1>4, <1>7, Ranges
  <2>3. din' \in [Files -> Inode]
    BY <1>2, <1>4, <2>1, <2>2, Constants DEF Inode
  <2>4. /\ din'[f].blocks = index /\ din'[f].size = din[f].size /\ din'[f].indirect = din[f].indirect
        /\ \A i \in Direct : din'[f].direct[i] = IF i = index THEN 0 ELSE din[f].direct[i]
        /\ \A g \in Files : g # f => din'[g] = din[g]
    BY <1>2, <2>1, <2>2 DEF Inode
  <2>5. Shrunk(f)
    BY <2>3, <2>4 DEF Shrunk
  <2>6. ASSUME NEW g \in Files, NEW j \in Slots
        PROVE  At'[g][j] = IF g = f /\ j = index THEN 0 ELSE At[g][j]
    <3>1. CASE j = -1
      <4>1. At'[g][-1] = din'[g].indirect /\ At[g][-1] = din[g].indirect
        BY AtFacts, AtFactsPrime
      <4> QED BY <1>4, <2>4, <3>1, <4>1, Constants
    <3>2. CASE j \in Indices
      <4>1. At'[g][j] = BlockAt(g, j)' /\ At[g][j] = BlockAt(g, j)
        BY <3>2, AtFacts, AtFactsPrime
      <4>2. CASE g # f
        BY <2>1, <2>4, <4>1, <4>2 DEF BlockAt
      <4>3. CASE g = f
        <5>1. j < SFS_NDIRECT <=> j \in Direct
          BY <3>2, Ranges
        <5> QED BY <1>7, <2>1, <2>4, <4>1, <4>3, <5>1 DEF BlockAt
      <4> QED BY <4>2, <4>3
    <3> QED BY <3>1, <3>2 DEF Slots
  <2>7. ents' \in [Blocks -> [Entries -> 0..NBLOCKS]]
    BY <1>2, <2>1
  <2> QED BY <1>1, <1>3, <1>4, <1>5, <1>6, <2>5, <2>6, <2>7, DropEnds
<1>8. CASE ~(index < SFS_NDIRECT)
  <2>1. din' = [din EXCEPT ![f].blocks = index] /\ ents' = [ents EXCEPT ![ent][e] = 0]
    BY <1>8 DEF Drop
  <2>2. e \in Entries /\ e = index - SFS_NDIRECT
    BY <1>4, <1>8, Ranges
  <2>3. ent \in Blocks /\ ent # 0 /\ ent = din[f].indirect
    <3>1. ent # 0
      BY <1>5, <1>8 DEF BlockAt
    <3> QED BY <1>2, <3>1, Constants DEF Inode, Blocks
  <2>4. din' \in [Files -> Inode]
    BY <1>2, <1>4, <2>1 DEF Inode
  <2>5. /\ din'[f].blocks = index /\ din'[f].size = din[f].size /\ din'[f].indirect = din[f].indirect
        /\ din'[f].direct = din[f].direct
        /\ \A g \in Files : g # f => din'[g] = din[g]
    BY <1>2, <2>1 DEF Inode
  <2>6. Shrunk(f)
    BY <2>4, <2>5 DEF Shrunk
  <2>7. /\ ents' \in [Blocks -> [Entries -> 0..NBLOCKS]]
        /\ \A i \in Entries : ents'[ent][i] = IF i = e THEN 0 ELSE ents[ent][i]
        /\ \A c \in Blocks : c # ent => ents'[c] = ents[c]
    <3> HIDE DEF ent, e, index, b
    <3> QED BY <1>2, <2>1, <2>2, <2>3, Constants
  <2>8. ASSUME NEW g \in Files, NEW j \in Slots
        PROVE  At'[g][j] = IF g = f /\ j = index THEN 0 ELSE At[g][j]
    <3>1. CASE j = -1
      <4>1. At'[g][-1] = din'[g].indirect /\ At[g][-1] = din[g].indirect
        BY AtFacts, AtFactsPrime
      <4> QED BY <1>4, <2>5, <3>1, <4>1, Constants
    <3>2. CASE j \in Indices
      <4>1. At'[g][j] = BlockAt(g, j)' /\ At[g][j] = BlockAt(g, j) /\ j # -1
        BY <3>2, AtFacts, AtFactsPrime, Constants
      <4>2. CASE j < SFS_NDIRECT
        <5>1. BlockAt(g, j)' = din'[g].direct[j] /\ BlockAt(g, j) = din[g].direct[j]
          BY <4>2 DEF BlockAt
        <5>2. j # index
          BY <1>8, <4>2
        <5> QED BY <2>5, <4>1, <5>1, <5>2
      <4>3. CASE ~(j < SFS_NDIRECT)
        <5> DEFINE k == j - SFS_NDIRECT
        <5>1. k \in Entries /\ (k = e <=> j = index)
          BY <1>4, <1>8, <2>2, <3>2, <4>3, Ranges
        <5>2. BlockAt(g, j)' = IF din'[g].indirect = 0 THEN 0 ELSE ents'[din'[g].indirect][k]
          BY <4>3 DEF BlockAt
        <5>3. BlockAt(g, j) = IF din[g].indirect = 0 THEN 0 ELSE ents[din[g].indirect][k]
          BY <4>3 DEF BlockAt
        <5>4. At[g][-1] = din[g].indirect /\ At[f][-1] = ent
          BY AtFacts
        <5>5. g # f => din[g].indirect # ent
          BY <1>1, <2>3, <5>4, Constants DEF Owned
        <5>6. din[g].indirect # 0 => din[g].indirect \in Blocks
          BY <1>2, Constants DEF Inode, Blocks
        <5> HIDE DEF k, ent, e, index, b
        <5>7. CASE g = f
          BY <2>3, <2>5, <2>7, <4>1, <5>1, <5>2, <5>3, <5>7
        <5>8. CASE g # f
          BY <2>5, <2>7, <4>1, <5>2, <5>3, <5>5, <5>6, <5>8
        <5> QED BY <5>7, <5>8
      <4> QED BY <4>2, <4>3
    <3> QED BY <3>1, <3>2 DEF Slots
  <2> QED BY <1>1, <1>3, <1>4, <1>5, <1>6, <2>6, <2>7, <2>8, DropEnds
<1> QED BY <1>7, <1>8

-----------------------------------------------------------------------------
(* Steps that leave the disk or the block maps alone. *)

LEMMA SameDisk ==
  ASSUME DiskInv, UNCHANGED <<disk, din>>
  PROVE  DiskInv'
<1>1. din' = din /\ ents' = ents /\ freemap' = freemap /\ unused_blocks' = unused_blocks
  BY DEF disk
<1>2. \A f \in Files : \A i \in Indices : BlockAt(f, i)' = BlockAt(f, i)
  BY <1>1 DEF BlockAt
<1>3. At' = At
  BY <1>1 DEF At, BlockAt
<1>4. Owned(At', freemap')
  BY <1>1, <1>3 DEF DiskInv
<1>5. IndicesAreDense'
  BY <1>1, <1>2 DEF DiskInv, IndicesAreDense
<1> QED BY <1>1, <1>4, <1>5 DEF DiskInv, DiskType, CountInv, BoundInv

\* The size of a file is set.
LEMMA SetSize ==
  ASSUME DiskInv, NEW f \in Files, NEW n \in Nat, din' = [din EXCEPT ![f].size = n], UNCHANGED disk
  PROVE  /\ DiskInv'
         /\ din'[f].size = n /\ din'[f].blocks = din[f].blocks
         /\ \A g \in Files : g # f => din'[g] = din[g]
<1>1. ents' = ents /\ freemap' = freemap /\ unused_blocks' = unused_blocks
  BY DEF disk
<1>2. din \in [Files -> Inode] /\ din[f] \in Inode
  BY DEF DiskInv, DiskType
<1>3. din' \in [Files -> Inode]
  BY <1>2 DEF Inode
<1>4. /\ din'[f].size = n /\ din'[f].blocks = din[f].blocks
      /\ din'[f].indirect = din[f].indirect /\ din'[f].direct = din[f].direct
      /\ \A g \in Files : g # f => din'[g] = din[g]
  BY <1>2 DEF Inode
<1>5. \A g \in Files : /\ din'[g].indirect = din[g].indirect /\ din'[g].direct = din[g].direct
                       /\ din'[g].blocks = din[g].blocks
  BY <1>4
<1>6. ASSUME NEW g \in Files, NEW i \in Indices PROVE BlockAt(g, i)' = BlockAt(g, i)
  BY <1>1, <1>5 DEF BlockAt
<1>7. ASSUME NEW g \in Files, NEW i \in Slots PROVE At'[g][i] = At[g][i]
  <2>1. At'[g][-1] = din'[g].indirect /\ At[g][-1] = din[g].indirect
    BY AtFacts, AtFactsPrime
  <2>2. \A j \in Indices : At'[g][j] = BlockAt(g, j)' /\ At[g][j] = BlockAt(g, j)
    BY AtFacts, AtFactsPrime
  <2> QED BY <1>5, <1>6, <2>1, <2>2 DEF Slots
<1>8. Owned(At', freemap')
  <2>1. Owned(At, freemap)
    BY DEF DiskInv
  <2> QED BY <1>1, <1>7, <2>1 DEF Owned
<1>9. IndicesAreDense'
  BY <1>5, <1>6 DEF DiskInv, IndicesAreDense
<1>10. CountInv' /\ BoundInv' /\ DiskType'
  BY <1>1, <1>3, <1>5 DEF DiskInv, DiskType, CountInv, BoundInv
<1> QED BY <1>4, <1>8, <1>9, <1>10 DEF DiskInv

\* What the operation under way looks like.
LEMMA OpFacts ==
  ASSUME OpInv
  PROVE  /\ op.run = "truncate" => op \in Truncation /\ op.file \in Files /\ op.fd \in Fds /\ op.len \in Nat
         /\ op.run = "io" => /\ op \in Transfer /\ op.file \in Files /\ op.fd \in Fds
                             /\ op.offset \in Nat /\ op.endpos \in Nat /\ op.alen \in Nat
                             /\ fds[op.fd] \in OpenFile /\ op.offset + op.alen <= op.endpos
         /\ op.run # "idle" => op # Idle
<1>1. op.run = "truncate" => op \in Truncation
  BY DEF OpInv, Idle, Truncation, Transfer
<1>2. op.run = "io" => op \in Transfer
  BY DEF OpInv, Idle, Truncation, Transfer
<1>3. op.run # "idle" => op # Idle
  BY DEF Idle
<1>4. op \in Truncation => op.file \in Files /\ op.fd \in Fds /\ op.len \in Nat
  BY DEF Truncation
<1>5. op \in Transfer => /\ op.file \in Files /\ op.fd \in Fds
                         /\ op.offset \in Nat /\ op.endpos \in Nat /\ op.alen \in Nat
  BY DEF Transfer
<1>6. op.run = "io" => fds[op.fd] \in OpenFile /\ op.offset + op.alen <= op.endpos
  BY DEF OpInv
<1> QED BY <1>1, <1>2, <1>3, <1>4, <1>5, <1>6

LEMMA InodeFacts ==
  ASSUME DiskInv, NEW f \in Files
  PROVE  din[f].size \in Nat /\ din[f].blocks \in Nat
BY DEF DiskInv, DiskType, Inode

LEMMA OpenFacts ==
  ASSUME OpInv, NEW d \in Fds, fds[d] # NULL
  PROVE  fds[d] \in OpenFile /\ fds[d].file \in Files /\ fds[d].pos \in Nat
<1>1. fds[d] \in OpenFile
  BY DEF OpInv
<1> QED BY <1>1 DEF OpenFile

\* A failed assertion changes nothing but panicked.
LEMMA PanicInv ==
  ASSUME Inv, UNCHANGED <<disk, din, fds, op, marred>>
  PROVE  Inv'
<1>1. DiskInv'
  BY SameDisk DEF Inv
<1>2. OpInv'
  BY DEF Inv, OpInv
<1>3. SizeInv'
  BY DEF Inv, SizeInv
<1> QED BY <1>1, <1>2, <1>3 DEF Inv

\* An open file, or a position, is set between operations.
LEMMA SetPosition ==
  ASSUME Inv, op = Idle, NEW d \in Fds, NEW x \in OpenFile \cup {NULL}, fds' = [fds EXCEPT ![d] = x],
         UNCHANGED <<disk, din, op, marred>>
  PROVE  Inv'
<1>1. DiskInv'
  BY SameDisk DEF Inv
<1>2. OpInv'
  BY DEF Inv, OpInv, Idle
<1>3. SizeInv'
  BY DEF Inv, SizeInv
<1> QED BY <1>1, <1>2, <1>3 DEF Inv

LEMMA sfs_truncfileInv ==
  ASSUME Inv, op = Idle, NEW d \in Fds, NEW f \in Files, NEW len \in Nat, sfs_truncfile(d, f, len)
  PROVE  Inv'
<1>1. CASE Position(d, f, len) /\ UNCHANGED <<disk, din, op, panicked, marred>>
  <2>1. [file |-> f, pos |-> len] \in OpenFile
    BY DEF OpenFile
  <2> QED BY <1>1, <2>1, SetPosition DEF Position
<1>2. CASE UNCHANGED <<disk, din, fds, op, marred>>
  BY <1>2, PanicInv
<1>3. CASE /\ op' = [run |-> "truncate", fd |-> d, file |-> f, len |-> len]
           /\ UNCHANGED <<disk, din, fds, panicked, marred>>
  <2>1. DiskInv'
    BY <1>3, SameDisk DEF Inv
  <2>2. op' \in Truncation /\ op'.run # "io" /\ op'.file = f
    BY <1>3 DEF Truncation
  <2>3. OpInv'
    BY <1>3, <2>2 DEF Inv, OpInv
  <2>4. SizeInv'
    BY <1>3, <2>2 DEF Inv, SizeInv
  <2> QED BY <2>1, <2>3, <2>4 DEF Inv
<1> QED BY <1>1, <1>2, <1>3 DEF sfs_truncfile

LEMMA StartIoInv ==
  ASSUME Inv, op = Idle, NEW d \in Fds, fds[d] # NULL, NEW endpos \in Nat, StartIo(d, endpos)
  PROVE  Inv'
<1>1. fds[d] \in OpenFile /\ fds[d].file \in Files /\ fds[d].pos \in Nat
  BY OpenFacts DEF Inv
<1> DEFINE f == fds[d].file
<1>2. /\ endpos > fds[d].pos
      /\ op' = [run |-> "io", fd |-> d, file |-> f, offset |-> fds[d].pos, endpos |-> endpos, alen |-> 0]
      /\ marred' = marred \cup {g \in {f} : fds[d].pos > din[g].size}
      /\ UNCHANGED <<disk, din, fds, panicked>>
  BY DEF StartIo
<1>3. DiskInv'
  BY <1>2, SameDisk DEF Inv
<1>4. op' \in Transfer /\ op'.file = f /\ op'.fd = d /\ op'.offset = fds[d].pos /\ op'.alen = 0 /\ op'.endpos = endpos
  BY <1>1, <1>2 DEF Transfer
<1>5. OpInv'
  BY <1>1, <1>2, <1>4 DEF Inv, OpInv
<1>6. SizeInv'
  <2>1. \A g \in Files \ marred : din[g].blocks = ROUNDUP_DIV(din[g].size, SFS_BLKSIZE)
    BY DEF Inv, SizeInv
  <2>2. ASSUME f \notin marred'
        PROVE  f \notin marred /\ Higher(din[f].size, fds[d].pos + 0) = din[f].size
    <3>1. din[f].size \in Nat
      BY <1>1, InodeFacts DEF Inv
    <3>2. ~(fds[d].pos > din[f].size)
      BY <1>2, <2>2
    <3> QED BY <1>1, <1>2, <2>2, <3>1, <3>2 DEF Higher
  <2> HIDE DEF f
  <2>3. \A g \in Files \ marred' : g \in Files \ marred
    BY <1>2
  <2> QED BY <1>1, <1>2, <1>4, <2>1, <2>2, <2>3 DEF SizeInv, f
<1> QED BY <1>3, <1>5, <1>6 DEF Inv

-----------------------------------------------------------------------------
(* The steps of operations. *)

LEMMA TruncGrowInv ==
  ASSUME Inv, TruncGrow
  PROVE  Inv'
<1> DEFINE f == op.file
<1>1. op.run = "truncate" /\ op.file \in Files /\ op # Idle /\ DiskInv /\ OpInv /\ SizeInv
  BY OpFacts DEF Inv, TruncGrow
<1>2. CASE Created(f, din[f].blocks) /\ UNCHANGED <<fds, op, panicked, marred>>
  <2>1. DiskInv' /\ Grown(f)
    BY <1>1, <1>2, CreatedInv
  <2>2. OpInv'
    BY <1>1, <1>2 DEF OpInv
  <2>3. SizeInv'
    BY <1>1, <1>2, <2>1 DEF SizeInv, Grown
  <2> QED BY <2>1, <2>2, <2>3 DEF Inv
<1>3. CASE NoSpace(f, din[f].blocks) /\ op' = Idle /\ marred' = marred \cup {f} /\ UNCHANGED <<fds, panicked>>
  <2>1. DiskInv' /\ din' = din
    BY <1>1, <1>3, SameDisk DEF NoSpace
  <2>2. op'.run = "idle"
    BY <1>3 DEF Idle
  <2>3. OpInv'
    BY <1>1, <1>3, <2>2 DEF OpInv
  <2>4. SizeInv'
    BY <1>1, <1>3, <2>1, <2>2 DEF SizeInv
  <2> QED BY <2>1, <2>3, <2>4 DEF Inv
<1>4. CASE LoadPanics(f, din[f].blocks)
  <2>1. UNCHANGED <<disk, din, fds, op, marred>>
    BY <1>4, Zenon DEF LoadPanics
  <2> QED BY <2>1, PanicInv
<1> QED BY <1>2, <1>3, <1>4 DEF TruncGrow

LEMMA TruncShrinkInv ==
  ASSUME Inv, TruncShrink
  PROVE  Inv'
<1> DEFINE f == op.file
<1>1. /\ op.run = "truncate" /\ op.file \in Files /\ op.len \in Nat /\ op # Idle
      /\ DiskInv /\ OpInv /\ SizeInv
  BY OpFacts DEF Inv, TruncShrink
<1>2. din[f].blocks > 0
  <2>1. op.len + SFS_BLKSIZE - 1 \in Nat
    BY <1>1, Constants
  <2>2. ROUNDUP_DIV(op.len, SFS_BLKSIZE) \in Nat
    BY <2>1, Quotient, Constants DEF ROUNDUP_DIV
  <2>3. din[f].blocks \in Nat /\ din[f].blocks > ROUNDUP_DIV(op.len, SFS_BLKSIZE)
    BY <1>1, InodeFacts DEF TruncShrink
  <2> QED BY <2>2, <2>3
<1>3. DiskInv' /\ Shrunk(f)
  BY <1>1, <1>2, DropInv DEF TruncShrink
<1>4. UNCHANGED <<fds, op, panicked, marred>>
  BY DEF TruncShrink
<1>5. OpInv'
  BY <1>1, <1>4 DEF OpInv
<1>6. SizeInv'
  BY <1>1, <1>3, <1>4 DEF SizeInv, Shrunk
<1> QED BY <1>3, <1>5, <1>6 DEF Inv

LEMMA TruncDoneInv ==
  ASSUME Inv, TruncDone
  PROVE  Inv'
<1> DEFINE f == op.file
<1>1. /\ op.run = "truncate" /\ op.file \in Files /\ op.fd \in Fds /\ op.len \in Nat /\ op # Idle
      /\ DiskInv /\ OpInv /\ SizeInv
  BY OpFacts DEF Inv, TruncDone
<1>2. /\ din' = [din EXCEPT ![f].size = op.len] /\ UNCHANGED disk
      /\ op' = Idle /\ marred' = marred \ {f}
      /\ din[f].blocks = ROUNDUP_DIV(op.len, SFS_BLKSIZE)
      /\ fds' = [fds EXCEPT ![op.fd] = [file |-> f, pos |-> op.len]]
  BY DEF TruncDone, Position
<1>3. /\ DiskInv' /\ din'[f].size = op.len /\ din'[f].blocks = din[f].blocks
      /\ \A g \in Files : g # f => din'[g] = din[g]
  BY <1>1, <1>2, SetSize
<1>4. [file |-> f, pos |-> op.len] \in OpenFile
  BY <1>1 DEF OpenFile
<1>5. op'.run = "idle"
  BY <1>2 DEF Idle
<1>6. OpInv'
  BY <1>1, <1>2, <1>4, <1>5 DEF OpInv
<1>7. SizeInv'
  <2>1. ASSUME NEW g \in Files, g \notin marred'
        PROVE  din'[g].blocks = ROUNDUP_DIV(din'[g].size, SFS_BLKSIZE)
    BY <1>1, <1>2, <1>3, <2>1 DEF SizeInv
  <2> QED BY <1>5, <2>1 DEF SizeInv
<1> QED BY <1>3, <1>6, <1>7 DEF Inv

\* Transferring the part in block k leaves a file with the blocks that it needs:
\* either the block was there, or it is the next one.
LEMMA Transferred ==
  ASSUME NEW size \in Nat, NEW pos \in Nat, NEW n \in Nat, NEW end \in Nat, NEW k \in Nat, NEW m \in Nat,
         n = ROUNDUP_DIV(Higher(size, pos), SFS_BLKSIZE), k = pos \div SFS_BLKSIZE,
         pos < end, end <= (k + 1) * SFS_BLKSIZE, (k < n /\ m = n) \/ (k = n /\ m = n + 1)
  PROVE  m = ROUNDUP_DIV(Higher(size, end), SFS_BLKSIZE)
<1> DEFINE s == SFS_BLKSIZE
<1>0. s \in Nat /\ s > 0 /\ end <= (k + 1) * s
  BY Constants
<1>1. s * k \in Nat /\ s * k <= pos /\ pos < s * k + s
  BY <1>0, Quotient
<1> HIDE DEF s
<1>2. (k + 1) * s = s * k + s
  BY <1>0
<1>3. Higher(size, pos) \in Nat /\ Higher(size, end) \in Nat
  BY DEF Higher
<1>4. Higher(size, pos) <= s * n /\ s * n < Higher(size, pos) + s /\ s * n \in Int
  BY <1>0, <1>3, RoundUp DEF s
<1>5. size <= Higher(size, pos) /\ pos <= Higher(size, pos)
  BY DEF Higher
<1>6. Higher(size, pos) <= Higher(size, end) /\ end <= Higher(size, end)
  BY DEF Higher
<1>7. CASE k < n /\ m = n
  <2>1. s * k + s <= s * n
    BY <1>0, <1>7, Multiples
  <2>2. end <= s * n /\ size <= s * n
    BY <1>0, <1>1, <1>2, <1>3, <1>4, <1>5, <2>1
  <2>3. Higher(size, end) <= s * n
    BY <2>2 DEF Higher
  <2>4. s * n < Higher(size, end) + s
    BY <1>0, <1>3, <1>4, <1>6
  <2> QED BY <1>0, <1>3, <1>7, <2>3, <2>4, RoundUp DEF s
<1>8. CASE k = n /\ m = n + 1
  <2>1. s * m = s * k + s
    BY <1>0, <1>8
  <2>2. end <= s * m /\ size <= s * m
    BY <1>0, <1>1, <1>2, <1>3, <1>4, <1>5, <1>8, <2>1
  <2>3. Higher(size, end) <= s * m
    BY <2>2 DEF Higher
  <2>4. s * m < Higher(size, end) + s
    BY <1>0, <1>1, <1>3, <1>6, <2>1
  <2> QED BY <1>0, <1>3, <2>3, <2>4, RoundUp DEF s
<1> QED BY <1>7, <1>8

LEMMA IoBlockInv ==
  ASSUME Inv, IoBlock
  PROVE  Inv'
<1> DEFINE f == op.file
           pos == op.offset + op.alen
           blkno == pos \div SFS_BLKSIZE
           end == Min({op.endpos, (blkno + 1) * SFS_BLKSIZE})
<1>1. /\ op.run = "io" /\ op \in Transfer /\ op.file \in Files /\ op.fd \in Fds /\ op # Idle
      /\ op.offset \in Nat /\ op.endpos \in Nat /\ op.alen \in Nat /\ fds[op.fd] \in OpenFile
      /\ DiskInv /\ OpInv /\ SizeInv /\ pos < op.endpos
  BY OpFacts DEF Inv, IoBlock
<1>2. pos \in Nat /\ blkno \in Nat /\ SFS_BLKSIZE * blkno \in Nat /\ pos < SFS_BLKSIZE * blkno + SFS_BLKSIZE
  BY <1>1, Quotient, Constants
<1>3. end \in Nat /\ pos < end /\ end <= op.endpos /\ end <= (blkno + 1) * SFS_BLKSIZE
  <2> HIDE DEF blkno, pos
  <2>1. (blkno + 1) * SFS_BLKSIZE = SFS_BLKSIZE * blkno + SFS_BLKSIZE
    BY <1>2, Constants
  <2>2. (blkno + 1) * SFS_BLKSIZE \in Nat
    BY <1>2, <2>1, Constants
  <2>3. end = IF op.endpos <= (blkno + 1) * SFS_BLKSIZE THEN op.endpos ELSE (blkno + 1) * SFS_BLKSIZE
    BY <1>1, <2>2, MinOfTwo
  <2> HIDE DEF end
  <2> QED BY <1>1, <1>2, <2>1, <2>2, <2>3
<1>4. CASE (Loaded(f, blkno) \/ Created(f, blkno)) /\ op' = [op EXCEPT !.alen = end - op.offset]
             /\ UNCHANGED <<fds, panicked, marred>>
  <2>1. end - op.offset \in Nat /\ op.offset + (end - op.offset) = end
    <3> HIDE DEF end, blkno
    <3> QED BY <1>1, <1>3
  <2>2. /\ op' \in Transfer /\ op'.run = "io" /\ op'.file = f /\ op'.fd = op.fd
        /\ op'.offset = op.offset /\ op'.endpos = op.endpos /\ op'.alen = end - op.offset
    <3> HIDE DEF end, blkno, pos
    <3> QED BY <1>1, <1>4, <2>1 DEF Transfer
  <2>3. OpInv'
    <3> HIDE DEF end, blkno, pos
    <3>1. op'.offset + op'.alen <= op'.endpos
      BY <1>1, <1>3, <2>1, <2>2
    <3>2. fds' = fds
      BY <1>4
    <3> QED BY <1>1, <2>2, <3>1, <3>2 DEF OpInv
  <2>4. /\ DiskInv' /\ \A g \in Files : din'[g].size = din[g].size
        /\ \A g \in Files : g # f => din'[g] = din[g]
        /\ \/ blkno < din[f].blocks /\ din'[f].blocks = din[f].blocks
           \/ blkno = din[f].blocks /\ din'[f].blocks = din[f].blocks + 1
    <3> HIDE DEF end, blkno, pos
    <3>1. CASE Loaded(f, blkno)
      BY <1>1, <3>1, SameDisk DEF Loaded
    <3>2. CASE Created(f, blkno)
      BY <1>1, <3>2, CreatedInv DEF Grown
    <3> QED BY <1>4, <3>1, <3>2
  <2>5. SizeInv'
    <3>1. ASSUME f \notin marred
          PROVE  din'[f].blocks = ROUNDUP_DIV(Higher(din'[f].size, end), SFS_BLKSIZE)
      <4>1. din[f].blocks = ROUNDUP_DIV(Higher(din[f].size, pos), SFS_BLKSIZE)
        BY <1>1, <3>1 DEF SizeInv
      <4>2. din[f].size \in Nat /\ din[f].blocks \in Nat /\ din'[f].size = din[f].size /\ din'[f].blocks \in Nat
        BY <1>1, <2>4, InodeFacts
      <4>3. blkno = pos \div SFS_BLKSIZE
        OBVIOUS
      <4> HIDE DEF end, blkno, pos
      <4> DEFINE size == din[f].size
                 n == din[f].blocks
                 m == din'[f].blocks
      <4>4. (blkno < n /\ m = n) \/ (blkno = n /\ m = n + 1)
        BY <2>4
      <4>5. size \in Nat /\ n \in Nat /\ m \in Nat /\ n = ROUNDUP_DIV(Higher(size, pos), SFS_BLKSIZE)
        BY <4>1, <4>2
      <4> HIDE DEF size, n, m
      <4>6. pos \in Nat /\ blkno \in Nat /\ end \in Nat /\ pos < end /\ end <= (blkno + 1) * SFS_BLKSIZE
        BY <1>2, <1>3
      <4>7. m = ROUNDUP_DIV(Higher(size, end), SFS_BLKSIZE)
        BY <4>3, <4>4, <4>5, <4>6, Transferred
      <4> QED BY <4>2, <4>7 DEF size, m
    <3>2. op'.offset + op'.alen = end /\ marred' = marred /\ op' # Idle
      <4> HIDE DEF end, blkno, pos
      <4> QED BY <1>4, <2>1, <2>2 DEF Idle
    <3> HIDE DEF end, blkno, pos
    <3> QED BY <1>1, <2>2, <2>4, <3>1, <3>2 DEF SizeInv
  <2> QED BY <2>3, <2>4, <2>5 DEF Inv
<1>5. CASE NoSpace(f, blkno) /\ op' = [op EXCEPT !.endpos = pos] /\ UNCHANGED <<fds, panicked, marred>>
  <2>1. DiskInv' /\ din' = din
    <3> HIDE DEF blkno, pos
    <3> QED BY <1>1, <1>5, SameDisk DEF NoSpace
  <2>2. /\ op' \in Transfer /\ op'.run = "io" /\ op'.file = f /\ op'.fd = op.fd /\ op' # Idle
        /\ op'.offset = op.offset /\ op'.alen = op.alen /\ op'.endpos = pos
    <3> HIDE DEF pos, blkno
    <3> QED BY <1>1, <1>2, <1>5 DEF Transfer, Idle
  <2>3. OpInv'
    BY <1>1, <1>2, <1>5, <2>2 DEF OpInv
  <2>4. SizeInv'
    BY <1>1, <1>5, <2>1, <2>2 DEF SizeInv
  <2> QED BY <2>1, <2>3, <2>4 DEF Inv
<1>6. CASE LoadPanics(f, blkno)
  <2>1. UNCHANGED <<disk, din, fds, op, marred>>
    BY <1>6, Zenon DEF LoadPanics
  <2> QED BY <2>1, PanicInv
<1> QED BY <1>4, <1>5, <1>6 DEF IoBlock

LEMMA IoDoneInv ==
  ASSUME Inv, IoDone
  PROVE  Inv'
<1> DEFINE f == op.file
           n == Max({din[f].size, op.endpos})
<1>1. /\ op.run = "io" /\ op.file \in Files /\ op.fd \in Fds /\ op # Idle
      /\ op.offset \in Nat /\ op.endpos \in Nat /\ op.alen \in Nat /\ fds[op.fd] \in OpenFile
      /\ DiskInv /\ OpInv /\ SizeInv /\ op.offset + op.alen = op.endpos
  BY OpFacts DEF Inv, IoDone
<1>2. din[f].size \in Nat
  BY <1>1, InodeFacts
<1>3. n = Higher(din[f].size, op.endpos) /\ n \in Nat
  <2>1. n = Higher(din[f].size, op.endpos)
    BY <1>1, <1>2, MaxOfTwo
  <2> QED BY <1>1, <1>2, <2>1 DEF Higher
<1>4. /\ din' = [din EXCEPT ![f].size = n] /\ UNCHANGED disk
      /\ op' = Idle /\ marred' = marred
      /\ fds' = [fds EXCEPT ![op.fd].pos = @ + op.alen]
  BY DEF IoDone, f, n
<1> HIDE DEF n
<1>5. /\ DiskInv' /\ din'[f].size = n /\ din'[f].blocks = din[f].blocks
      /\ \A g \in Files : g # f => din'[g] = din[g]
  BY <1>1, <1>3, <1>4, SetSize
<1>6. op'.run = "idle"
  BY <1>4 DEF Idle
<1>7. OpInv'
  <2>1. fds' \in [Fds -> OpenFile \cup {NULL}]
    <3>1. [fds[op.fd] EXCEPT !.pos = @ + op.alen] \in OpenFile
      BY <1>1 DEF OpenFile
    <3> QED BY <1>1, <1>4, <3>1 DEF OpInv
  <2> QED BY <1>4, <1>6, <2>1 DEF OpInv
<1>8. SizeInv'
  <2>1. ASSUME NEW g \in Files, g \notin marred'
        PROVE  din'[g].blocks = ROUNDUP_DIV(din'[g].size, SFS_BLKSIZE)
    <3>1. CASE g = f
      BY <1>1, <1>3, <1>4, <1>5, <2>1, <3>1 DEF SizeInv
    <3>2. CASE g # f
      BY <1>1, <1>4, <1>5, <2>1, <3>2 DEF SizeInv
    <3> QED BY <3>1, <3>2
  <2> QED BY <1>6, <2>1 DEF SizeInv
<1> QED BY <1>5, <1>7, <1>8 DEF Inv

-----------------------------------------------------------------------------
(* Open files. *)

LEMMA file_openInv ==
  ASSUME Inv, NEW d \in Fds, NEW f \in Files, file_open(d, f)
  PROVE  Inv'
<1>1. op = Idle
  BY DEF file_open, Ready
<1>2. CASE sfs_truncfile(d, f, 0)
  BY <1>1, <1>2, sfs_truncfileInv
<1>3. ASSUME NEW pos \in {0, din[f].size}, Position(d, f, pos), UNCHANGED <<disk, din, op, panicked, marred>>
      PROVE  Inv'
  <2>1. pos \in Nat
    BY InodeFacts DEF Inv
  <2>2. [file |-> f, pos |-> pos] \in OpenFile
    BY <2>1 DEF OpenFile
  <2> QED BY <1>1, <1>3, <2>2, SetPosition DEF Position
<1> QED BY <1>2, <1>3 DEF file_open

LEMMA file_closeInv ==
  ASSUME Inv, NEW d \in Fds, file_close(d)
  PROVE  Inv'
BY SetPosition DEF file_close, Ready

LEMMA file_writeInv ==
  ASSUME Inv, NEW d \in Fds, NEW len \in Lengths, file_write(d, len)
  PROVE  Inv'
<1>1. op = Idle /\ fds[d] # NULL
  BY DEF file_write, Ready
<1>2. fds[d].pos \in Nat /\ len \in Nat
  BY <1>1, OpenFacts, SfsAssumption DEF Inv
<1>3. Min({fds[d].pos + len, SFS_MAX_FILE_SIZE}) \in Nat
  BY <1>2, MinOfTwo, Constants
<1> QED BY <1>1, <1>3, StartIoInv DEF file_write

LEMMA file_readInv ==
  ASSUME Inv, NEW d \in Fds, NEW len \in Lengths, file_read(d, len)
  PROVE  Inv'
<1>1. op = Idle /\ fds[d] # NULL
  BY DEF file_read, Ready
<1>2. fds[d].pos \in Nat /\ len \in Nat /\ fds[d].file \in Files
  BY <1>1, OpenFacts, SfsAssumption DEF Inv
<1>3. din[fds[d].file].size \in Nat
  BY <1>2, InodeFacts DEF Inv
<1>4. Min({fds[d].pos + len, din[fds[d].file].size}) \in Nat
  BY <1>2, <1>3, MinOfTwo
<1> QED BY <1>1, <1>4, StartIoInv DEF file_read

LEMMA file_seekInv ==
  ASSUME Inv, NEW d \in Fds, NEW pos \in 0..(SFS_MAX_FILE_SIZE - 1), file_seek(d, pos)
  PROVE  Inv'
<1>1. op = Idle /\ fds[d] # NULL
  BY DEF file_seek, Ready
<1>2. fds[d] \in OpenFile /\ fds[d].file \in Files /\ pos \in Nat
  BY <1>1, OpenFacts, Constants DEF Inv
<1>3. CASE fds' = [fds EXCEPT ![d].pos = pos] /\ UNCHANGED <<disk, din, op, panicked, marred>>
  <2>1. [fds[d] EXCEPT !.pos = pos] \in OpenFile
    BY <1>2 DEF OpenFile
  <2>2. PICK x \in OpenFile : x = [fds[d] EXCEPT !.pos = pos]
    BY <2>1
  <2>3. fds' = [fds EXCEPT ![d] = x]
    BY <1>3, <2>2
  <2> QED BY <1>1, <1>3, <2>3, SetPosition
<1>4. CASE sfs_truncfile(d, fds[d].file, pos)
  BY <1>1, <1>2, <1>4, sfs_truncfileInv
<1> QED BY <1>3, <1>4 DEF file_seek

-----------------------------------------------------------------------------
(* The theorem. *)

LEMMA InitInv ==
  Init => Inv
<1> SUFFICES ASSUME Init PROVE Inv
  OBVIOUS
<1>1. /\ \A f \in Files : din[f] \in Inode /\ din[f].indirect = 0 /\ din[f].blocks = 0 /\ din[f].size = 0
      /\ \A f \in Files : \A i \in Direct : din[f].direct[i] = 0
  BY Constants DEF Init, Inode
<1>2. DiskType
  BY <1>1, Constants DEF Init, DiskType
<1>3. ASSUME NEW f \in Files, NEW i \in Indices PROVE BlockAt(f, i) = 0
  BY <1>1, Ranges DEF BlockAt
<1>4. \A f \in Files : \A i \in Slots : At[f][i] = 0
  BY <1>1, <1>3, AtFacts DEF Slots
<1>5. Owned(At, freemap)
  BY <1>4, Constants DEF Init, Owned
<1>6. CountInv
  <2>1. IsFiniteSet(1..NBLOCKS) /\ Cardinality(1..NBLOCKS) = NBLOCKS
    BY Constants, FS_Interval
  <2> QED BY <2>1 DEF CountInv, Init, Blocks
<1>7. BoundInv
  BY <1>1, Constants DEF BoundInv
<1>8. IndicesAreDense
  BY <1>1, <1>3, Constants DEF IndicesAreDense
<1>9. OpInv
  BY DEF Init, OpInv, Idle
<1>10. SizeInv
  <2>1. ROUNDUP_DIV(0, SFS_BLKSIZE) = 0
    BY RoundUp, Constants
  <2> QED BY <1>1, <2>1 DEF Init, SizeInv, Idle
<1> QED BY <1>2, <1>5, <1>6, <1>7, <1>8, <1>9, <1>10 DEF Inv, DiskInv

LEMMA NextInv ==
  Inv /\ [Next]_vars => Inv'
<1> SUFFICES ASSUME Inv, [Next]_vars PROVE Inv'
  OBVIOUS
<1>1. ASSUME NEW d \in Fds, NEW f \in Files, file_open(d, f) PROVE Inv'
  BY <1>1, file_openInv
<1>2. ASSUME NEW d \in Fds, file_close(d) PROVE Inv'
  BY <1>2, file_closeInv
<1>3. ASSUME NEW d \in Fds, NEW len \in Lengths, file_write(d, len) PROVE Inv'
  BY <1>3, file_writeInv
<1>4. ASSUME NEW d \in Fds, NEW len \in Lengths, file_read(d, len) PROVE Inv'
  BY <1>4, file_readInv
<1>5. ASSUME NEW d \in Fds, NEW pos \in 0..(SFS_MAX_FILE_SIZE - 1), file_seek(d, pos) PROVE Inv'
  BY <1>5, file_seekInv
<1>6. CASE TruncGrow
  BY <1>6, TruncGrowInv
<1>7. CASE TruncShrink
  BY <1>7, TruncShrinkInv
<1>8. CASE TruncDone
  BY <1>8, TruncDoneInv
<1>9. CASE IoBlock
  BY <1>9, IoBlockInv
<1>10. CASE IoDone
  BY <1>10, IoDoneInv
<1>11. CASE UNCHANGED vars
  BY <1>11, PanicInv DEF vars
<1> QED BY <1>1, <1>2, <1>3, <1>4, <1>5, <1>6, <1>7, <1>8, <1>9, <1>10, <1>11 DEF Next, panic

\* The slots in one function over pairs of a file and an index, as the property has them.
LEMMA OneOwner ==
  ASSUME Inv
  PROVE  BlocksHaveOneOwner
<1> DEFINE places == {<<f, i>> : f \in Files, i \in Indices \cup {-1}}
           at == [p \in places |-> IF p[2] = -1 THEN din[p[1]].indirect ELSE BlockAt(p[1], p[2])]
<1> SUFFICES /\ \A p, q \in places : at[p] = at[q] /\ at[p] # 0 => p = q
             /\ freemap = Blocks \ {at[p] : p \in places}
             /\ unused_blocks = Cardinality(freemap)
  BY DEF BlocksHaveOneOwner
<1>1. Owned(At, freemap) /\ unused_blocks = Cardinality(freemap)
  BY DEF Inv, DiskInv, CountInv
<1>2. \A p \in places : p = <<p[1], p[2]>> /\ p[1] \in Files /\ p[2] \in Slots
  BY DEF Slots
<1>3. \A f \in Files : \A i \in Slots : <<f, i>> \in places
  BY DEF Slots
<1>4. ASSUME NEW p \in places PROVE at[p] = At[p[1]][p[2]]
  <2>1. At[p[1]][p[2]] = IF p[2] = -1 THEN din[p[1]].indirect ELSE BlockAt(p[1], p[2])
    BY <1>2 DEF At
  <2> QED BY <2>1
<1>5. ASSUME NEW f \in Files, NEW i \in Slots PROVE at[<<f, i>>] = At[f][i]
  BY <1>3, <1>4
<1> HIDE DEF places, at
<1>6. \A p, q \in places : at[p] = at[q] /\ at[p] # 0 => p = q
  BY <1>1, <1>2, <1>4 DEF Owned
<1>7. freemap = Blocks \ {at[p] : p \in places}
  <2>1. freemap \subseteq Blocks
    BY <1>1 DEF Owned
  <2>2. ASSUME NEW b \in Blocks PROVE b \in freemap <=> ~\E p \in places : at[p] = b
    <3>1. (\E p \in places : at[p] = b) => \E f \in Files : \E i \in Slots : At[f][i] = b
      BY <1>2, <1>4
    <3>2. (\E f \in Files : \E i \in Slots : At[f][i] = b) => \E p \in places : at[p] = b
      BY <1>3, <1>5
    <3> QED BY <1>1, <3>1, <3>2 DEF Owned
  <2> QED BY <2>1, <2>2
<1> QED BY <1>1, <1>6, <1>7

LEMMA InvIsSound ==
  Inv => BlocksAreSound
<1> SUFFICES ASSUME Inv PROVE BlocksAreSound
  OBVIOUS
<1>1. BlocksHaveOneOwner
  BY OneOwner
<1>2. IndicesAreDense
  BY DEF Inv, DiskInv
<1>3. BlocksMatchSize
  BY DEF Inv, SizeInv, BlocksMatchSize
<1> QED BY <1>1, <1>2, <1>3 DEF BlocksAreSound

\* Inodes, entry blocks, open files and the operation under way keep their types in every
\* step of file.c and sfs_inode.c; an inode never counts more blocks than it can map.
THEOREM TypeCorrect == Spec => [](DiskType /\ BoundInv /\ OpInv)
<1>1. Inv => DiskType /\ BoundInv /\ OpInv
  BY DEF Inv, DiskInv
<1> QED BY <1>1, InitInv, NextInv, PTL DEF Spec

\* Whatever is opened, written, read, sought and truncated, in whatever order, and
\* wherever the disk runs full: no block is shared, lost or freed while in use, the counter
\* of the super block is right, block maps have no holes, and a file has the blocks its
\* size needs (sfs_bmap_get_nolock, sfs_bmap_truncate_nolock, sfs_io_nolock, sfs_truncfile).
THEOREM FilesKeepTheirBlocks == Spec => []BlocksAreSound
BY InitInv, NextInv, InvIsSound, PTL DEF Spec

=============================================================================
