----------------------------------- MODULE Mkfs -----------------------------------
(***************************************************************************)
(* The program that builds the initial file system, os/mkfs/mkfs.c.        *)
(*                                                                         *)
(* Sizes are counted in directory entries: a block holds BSIZE of them.    *)
(* What a unit of data is, is told by the file it came from and its place  *)
(* there; an entry of the root directory by the inode that it names.       *)
(***************************************************************************)
EXTENDS Integers, Sequences, FiniteSets, SequencesExt

CONSTANTS
  BSIZE, NDIRECT, NINDIRECT, BPB,
  nmeta,        \* blocks before the data: boot, super, log, inodes and bitmap
  Files         \* the sizes of the files of a build, in the order of the arguments

Constants ==
  /\ {BSIZE, NDIRECT, NINDIRECT, BPB, nmeta} \subseteq Nat \ {0}
  /\ Files \subseteq Seq(Nat)

VARIABLES
  argv,         \* the sizes of the files still to be added
  given,        \* and of those that were
  din,          \* the inodes: a sequence, as inode numbers are never reused
  sect,         \* the content of the data and indirect blocks
  freeblock,
  bitmap,       \* the blocks that are marked in use, once it is written
  done          \* whether main exited, or an assertion failed

vars == <<argv, given, din, sect, freeblock, bitmap, done>>

MAXFILE == NDIRECT + NINDIRECT
ROOTINO == 1
NoBlock == 0
Entry(i) == <<i, 0>>
Blank == <<0, 0>>   \* a unit of a block that nothing was written to

Zeroes == [k \in 0 .. BSIZE - 1 |-> Blank]

\* An image while it is written: the inodes, the blocks from nmeta on, and assert's verdict.
Image == [din |-> din, sect |-> sect, ok |-> TRUE]

\* freeblock++; every block starts as zeroes.
Grow(s, content) == [s EXCEPT !.sect = Append(@, content)]
Newest(s) == nmeta + Len(s.sect) - 1
At(s, b) == s.sect[b - nmeta + 1]

ialloc(s) == [s EXCEPT !.din = Append(@, [size |-> 0, addrs |-> [k \in 0 .. NDIRECT |-> NoBlock]])]

\* The entry of the inode, or of the indirect block, for block fbn of the file.
Direct(s, i, k) ==
  IF s.din[i].addrs[k] # NoBlock THEN s
  ELSE LET g == Grow(s, IF k = NDIRECT THEN [m \in 0 .. NINDIRECT - 1 |-> NoBlock] ELSE Zeroes)
       IN  [g EXCEPT !.din[i].addrs[k] = Newest(g)]

\* Mutant: the new address is not written back to the indirect block.
Indirect_unwritten(s, i, k) ==
  LET t == Direct(s, i, NDIRECT)
  IN  IF At(t, t.din[i].addrs[NDIRECT])[k] # NoBlock THEN t ELSE Grow(t, Zeroes)

Indirect(s, i, k) ==
  LET t == Direct(s, i, NDIRECT)
      b == t.din[i].addrs[NDIRECT]
      g == Grow(t, Zeroes)
  IN  IF At(t, b)[k] # NoBlock THEN t ELSE [g EXCEPT !.sect[b - nmeta + 1][k] = Newest(g)]

Alloc(s, i, fbn) == IF fbn < NDIRECT THEN Direct(s, i, fbn) ELSE Indirect(s, i, fbn - NDIRECT)

Block(s, i, fbn) ==
  IF fbn < NDIRECT THEN s.din[i].addrs[fbn]
  ELSE At(s, s.din[i].addrs[NDIRECT])[fbn - NDIRECT]

\* One turn of the loop of iappend: as many units as there are, or as the block at the
\* end of the file has room for.
Put(s, i, units) ==
  LET off == s.din[i].size
      fbn == off \div BSIZE
      at == off % BSIZE
      n1 == Min({Len(units), BSIZE - at})
      t == Alloc(s, i, fbn)
      x == Block(t, i, fbn) - nmeta + 1
  IN  IF fbn >= MAXFILE THEN [s EXCEPT !.ok = FALSE]
      ELSE [t EXCEPT !.sect[x] = [k \in DOMAIN @ |-> IF k \in at .. at + n1 - 1 THEN units[k - at + 1] ELSE @[k]],
                     !.din[i].size = off + n1]

RECURSIVE iappend(_, _, _)
iappend(s, i, units) ==
  IF units = <<>> \/ ~s.ok THEN s
  ELSE LET t == Put(s, i, units)
       IN  iappend(t, i, SubSeq(units, t.din[i].size - s.din[i].size + 1, Len(units)))

Becomes(s) ==
  /\ din' = s.din /\ sect' = s.sect
  /\ freeblock' = Newest(s) + 1
  /\ done' = IF s.ok THEN done ELSE "assert"

\* main before the loop: the root directory with its two entries.
Init ==
  /\ argv \in Files
  /\ given = <<>>
  /\ LET s == iappend(ialloc([din |-> <<>>, sect |-> <<>>, ok |-> TRUE]), ROOTINO, <<Entry(ROOTINO), Entry(ROOTINO)>>)
     IN  din = s.din /\ sect = s.sect /\ freeblock = Newest(s) + 1
  /\ bitmap = {}
  /\ done = "no"

\* What read returns of file i until its n units are read.
Pieces(i, n) ==
  [c \in 1 .. (n + BSIZE - 1) \div BSIZE |->
     [k \in 1 .. Min({BSIZE, n - (c - 1) * BSIZE}) |-> <<i, (c - 1) * BSIZE + k>>]]

\* One argument: an inode, an entry in the root directory, and what the file holds.
main_file ==
  /\ done = "no" /\ argv # <<>>
  /\ LET s == ialloc(Image)
         i == Len(s.din)
         t == iappend(s, ROOTINO, <<Entry(i)>>)
     IN  Becomes(FoldLeft(LAMBDA u, buf : iappend(u, i, buf), t, Pieces(i, Head(argv))))
  /\ argv' = Tail(argv)
  /\ given' = Append(given, Head(argv))
  /\ UNCHANGED bitmap

\* The size of the root directory is rounded up, and balloc marks the blocks below freeblock.
main_end ==
  /\ done = "no" /\ argv = <<>>
  /\ din' = [din EXCEPT ![ROOTINO].size = (@ \div BSIZE + 1) * BSIZE]
  /\ bitmap' = IF freeblock < BPB THEN 0 .. freeblock - 1 ELSE {}
  /\ done' = IF freeblock < BPB THEN "exit" ELSE "assert"
  /\ UNCHANGED <<argv, given, sect, freeblock>>

Next == main_file \/ main_end

Spec == Init /\ [][Next]_vars

--------------------------------------------------------------------------------
TypeOK == done \in {"no", "exit", "assert"} /\ freeblock \in Nat /\ bitmap \subseteq Nat

\* The blocks of file i, in the order of the file, and all that belong to it.
Blocks(i) == (din[i].size + BSIZE - 1) \div BSIZE
Held(i) ==
  ({din[i].addrs[k] : k \in 0 .. NDIRECT} \cup
     IF din[i].addrs[NDIRECT] = NoBlock THEN {}
     ELSE {Block(Image, i, NDIRECT + k) : k \in 0 .. NINDIRECT - 1}) \ {NoBlock}

\* What is read of a file; a block without an address reads as zeroes.
Address(i, k) ==
  IF k >= NDIRECT /\ din[i].addrs[NDIRECT] = NoBlock THEN NoBlock ELSE Block(Image, i, k)

Unit(i, k) ==
  LET b == Address(i, k \div BSIZE) IN IF b = NoBlock THEN Blank ELSE At(Image, b)[k % BSIZE]

\* The image that main leaves: every block below the data and every block of a file is
\* marked in use and no other, no block is in two files or twice in one, every file reads
\* back as it was given, and the root directory names itself twice and each file once.
\* The last block of the root directory need not be there: when its entries fill their
\* blocks the rounding of main adds a whole one.
ImageConsistent ==
  done = "exit" =>
    /\ bitmap = 0 .. nmeta - 1 \cup UNION {Held(i) : i \in DOMAIN din}
    /\ \A i, j \in DOMAIN din : i # j => Held(i) \cap Held(j) = {}
    /\ \A i \in DOMAIN din : \A k, m \in 0 .. Blocks(i) - 1 :
         /\ Address(i, k) \in bitmap \ {NoBlock} \/ (i = ROOTINO /\ k = Blocks(i) - 1 /\ Address(i, k) = NoBlock)
         /\ Address(i, k) = Address(i, m) => k = m
    /\ \A n \in DOMAIN given :
         /\ din[n + 1].size = given[n]
         /\ \A k \in 1 .. given[n] : Unit(n + 1, k - 1) = <<n + 1, k>>
    /\ \A k \in 0 .. din[ROOTINO].size - 1 :
         Unit(ROOTINO, k) = CASE k < 2 -> Entry(ROOTINO)
                              [] 2 <= k /\ k < Len(given) + 2 -> Entry(k)
                              [] OTHER -> Blank
================================================================================
