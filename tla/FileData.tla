-------------------------------- MODULE FileData ---------------------------------
(***************************************************************************)
(* The contents of files: the block bitmap, the direct and indirect block  *)
(* numbers of an inode, readi, writei and itrunc of os/kernel/fs.c, under  *)
(* fileread and filewrite of os/kernel/file.c.                             *)
(*                                                                         *)
(* An inode is locked during readi, writei and itrunc, and the bitmap is   *)
(* only touched from them, a block of it at a time; each call is a step.   *)
(* filewrite makes one call, and one transaction, for each part of what it *)
(* is given, so that writers of a file interleave between the parts.  The  *)
(* unit of contents is a number of a block, so that a block holds BSIZE    *)
(* units of a file or NINDIRECT block numbers.                             *)
(***************************************************************************)
EXTENDS Integers, Sequences, FiniteSets, FiniteSetsExt, SequencesExt

CONSTANTS
  Procs, Inums,
  Fs,           \* entries of the file table, of type FD_INODE
  SIZE,         \* sb.size
  META,         \* the blocks before the first data block
  BPB,          \* bits of the bitmap in a block
  BSIZE, NDIRECT, NINDIRECT, MAXOPBLOCKS,
  NVALUES,      \* programs write the units 1 .. NVALUES, in turn
  Counts,       \* how much a program writes or reads at once
  Readable,     \* how many units of a part can be read before copyin fails
  NULL

Blocks == 0 .. SIZE - 1
MAXFILE == NDIRECT + NINDIRECT

\* What the constants must satisfy.
Constants ==
  /\ META \in 1 .. SIZE /\ BPB \in Nat \ {0}
  /\ NINDIRECT \in 1 .. BSIZE /\ NDIRECT \in Nat \ {0}
  /\ MAXOPBLOCKS >= 6
  /\ Counts \subseteq Nat \ {0}

VARIABLES
  used,         \* the blocks with their bit set in the bitmap
  addrs, size,  \* fields of the inodes; addrs[i][NDIRECT] is the indirect block
  data, disk,   \* the blocks as the buffer cache has them, and with what was logged
  file,         \* the inode and the offset of each open file
  job,          \* the call of filewrite each process is in
  flat          \* for each unit of a file, what a reader may find there

vars == <<used, addrs, size, data, disk, file, job, flat>>

ZeroBlock == [k \in 0 .. BSIZE - 1 |-> 0]

TypeOK ==
  /\ used \subseteq Blocks
  /\ addrs \in [Inums -> [0 .. NDIRECT -> Blocks]]
  /\ size \in [Inums -> 0 .. MAXFILE * BSIZE]
  /\ data \in [Blocks -> [0 .. BSIZE - 1 -> Nat]] /\ disk \in [Blocks -> [0 .. BSIZE - 1 -> Nat]]
  /\ file \in [Fs -> [ip : Inums, off : 0 .. MAXFILE * BSIZE]]
  /\ \A p \in Procs : job[p] # NULL => job[p].f \in Fs /\ job[p].i < job[p].n
  /\ \A i \in Inums : Len(flat[i]) = size[i]

\* Empty files; each open file is one of them, opened without O_TRUNC.
Init ==
  /\ used = 0 .. META - 1
  /\ addrs = [i \in Inums |-> [k \in 0 .. NDIRECT |-> 0]]
  /\ size = [i \in Inums |-> 0]
  /\ data = [b \in Blocks |-> ZeroBlock] /\ disk = data
  /\ file \in [Fs -> [ip : Inums, off : {0}]]
  /\ job = [p \in Procs |-> NULL]
  /\ flat = [i \in Inums |-> <<>>]

--------------------------------------------------------------------------------
(* What the functions of fs.c do to inode i is computed on a record of the   *)
(* state they change.  ret is what the last one returned; tot counts the     *)
(* units copied so far, got has those of readi, and stop says that its loop  *)
(* was left.                                                                 *)

Op(i) ==
  [used |-> used, addrs |-> addrs[i], data |-> data, disk |-> disk, logged |-> {},
   ret |-> 0, tot |-> 0, got |-> <<>>, stop |-> FALSE]

Smaller(a, b) == IF a < b THEN a ELSE b
Larger(a, b) == IF a < b THEN b ELSE a

BBLOCK(b) == <<"bitmap", b \div BPB>>
IBLOCK(i) == <<"inode", i>>
Data(b) == <<"data", b>>

log_write(s, b) ==
  [s EXCEPT !.disk[b] = s.data[b], !.logged = @ \cup {Data(b)}]

bzero(s, b) == log_write([s EXCEPT !.data[b] = ZeroBlock], b)

\* The first free block; 0 if there is none.
balloc(s) ==
  IF Blocks \subseteq s.used
  THEN [s EXCEPT !.ret = 0]
  ELSE LET b == Min(Blocks \ s.used)
       IN  bzero([s EXCEPT !.used = @ \cup {b}, !.logged = @ \cup {BBLOCK(b)}, !.ret = b], b)

\* The number in addrs[k], with a block allocated for it if it has none.
Slot(s, k) ==
  IF s.addrs[k] # 0
  THEN [s EXCEPT !.ret = s.addrs[k]]
  ELSE LET t == balloc(s) IN [t EXCEPT !.addrs[k] = t.ret]

\* The same for entry k of the indirect block ind.
Entry(s, ind, k) ==
  IF s.data[ind][k] # 0
  THEN [s EXCEPT !.ret = s.data[ind][k]]
  ELSE LET t == balloc(s)
       IN  IF t.ret = 0 THEN t ELSE log_write([t EXCEPT !.data[ind][k] = t.ret], ind)

bmap(s, bn) ==
  IF bn < NDIRECT
  THEN Slot(s, bn)
  ELSE LET t == Slot(s, NDIRECT)
       IN  IF t.ret = 0 THEN t ELSE Entry(t, t.ret, bn - NDIRECT)

\* The numbers of the blocks that n units from off are in.
Span(off, n) ==
  [j \in 1 .. (IF n = 0 THEN 0 ELSE (off + n - 1) \div BSIZE - off \div BSIZE + 1) |->
     off \div BSIZE + j - 1]

\* A turn of the loops of readi and writei up to the copy: the block is found, or is
\* allocated; they stop if it cannot be.
Visit(s, bn) ==
  IF s.stop THEN s ELSE LET t == bmap(s, bn) IN [t EXCEPT !.stop = t.ret = 0]

\* That turn copies m units, from unit o of the block.
Chunk(s, off, n) ==
  LET o == (off + s.tot) % BSIZE IN [o |-> o, m |-> Smaller(n - s.tot, BSIZE - o)]

\* What readi copies out is in got.
CopyOut(s, c) ==
  IF s.stop THEN s
  ELSE [s EXCEPT !.got = @ \o [j \in 1 .. c.m |-> s.data[s.ret][c.o + j - 1]], !.tot = @ + c.m]

readi(i, off, n) ==
  LET len == IF off > size[i] THEN 0 ELSE Smaller(n, size[i] - off)
      copyout(s, bn) == CopyOut(Visit(s, bn), Chunk(s, off, len))
  IN  FoldLeft(copyout, Op(i), Span(off, len))

\* Units o .. o + Len(units) - 1 of block ret become units.
Overwrite(s, o, units) ==
  [s EXCEPT !.data[s.ret] =
     [k \in 0 .. BSIZE - 1 |-> IF k - o \in 0 .. Len(units) - 1 THEN units[k - o + 1] ELSE @[k]]]

\* m units of the source from position tot.
source(src, tot, m) == SubSeq(src, tot + 1, tot + m)

\* Only the first good units of the source can be read: the copy to the block in which
\* they end stops there, and the block is not logged.  It is written all the same if
\* this transaction logged it before.
CopyIn(s, c, src, good) ==
  LET t == Overwrite(s, c.o, source(src, s.tot, Smaller(c.m, Larger(good - s.tot, 0))))
      u == [t EXCEPT !.stop = TRUE]
  IN  CASE s.stop -> s
        [] ~s.stop /\ s.tot + c.m <= good -> [log_write(t, s.ret) EXCEPT !.tot = @ + c.m]
        [] OTHER -> IF Data(s.ret) \in s.logged THEN log_write(u, s.ret) ELSE u

writei(i, off, src, good) ==
  LET copyin(s, bn) == CopyIn(Visit(s, bn), Chunk(s, off, Len(src)), src, good)
      s == FoldLeft(copyin, Op(i), Span(off, Len(src)))
  IN  [s EXCEPT !.logged = @ \cup {IBLOCK(i)}]

--------------------------------------------------------------------------------
(* Actions *)

\* The state that a call on inode i leaves.
Becomes(i, s) ==
  /\ used' = s.used /\ data' = s.data /\ disk' = s.disk
  /\ addrs' = [addrs EXCEPT ![i] = s.addrs]

\* fileread on an inode: the offset moves by what was read.
fileread(f, n) ==
  \E s \in {readi(file[f].ip, file[f].off, n)} :
    /\ s.tot > 0
    /\ Becomes(file[f].ip, s)
    /\ file' = [file EXCEPT ![f].off = @ + s.tot]
    /\ UNCHANGED <<size, job, flat>>

\* Mutant: no room for the indirect block and for the slop.
max_generous == ((MAXOPBLOCKS - 1 - 1) \div 2) * BSIZE

\* What filewrite gives to one call of writei.
max == ((MAXOPBLOCKS - 1 - 1 - 2) \div 2) * BSIZE

\* The units of a write of n, of which i are written, that the next transaction takes.
Part(i, n) == [j \in 1 .. Smaller(n - i, max) |-> 1 + ((i + j) % NVALUES)]

\* writei rejects an offset past the end of the file, which another process may have
\* made shorter, and a file that would be too long.  Counts are not negative here, and
\* off + n does not overflow.
writei_ok(f, src) ==
  file[f].off <= size[file[f].ip] /\ file[f].off + Len(src) <= MAXFILE * BSIZE

\* Mutant: the size is that of the whole write, also when only a part was written.
new_size_whole(i, off, n, tot) == Larger(size[i], off + n)

new_size(i, off, n, tot) == Larger(size[i], off + tot)

\* What a reader may find after tot of the units of src were written, and some more up
\* to unit good perhaps.
Written(i, off, src, tot, good) ==
  [u \in 1 .. Larger(size[i], off + tot) |->
     LET j == u - off
     IN  CASE j \in 1 .. tot        -> {src[j]}
           [] j \in tot + 1 .. good -> flat[i][u] \cup {src[j]}
           [] OTHER                 -> flat[i][u]]

\* One turn of the loop of filewrite: the offset is read and moved with the inode locked.
WritePart(p, c, good) ==
  LET i   == file[c.f].ip
      off == file[c.f].off
      src == Part(c.i, c.n)
      n   == Len(src)
  IN  /\ writei_ok(c.f, src) /\ good <= n
      /\ \E s \in {writei(i, off, src, good)} :
           /\ Becomes(i, s)
           /\ size' = [size EXCEPT ![i] = new_size(i, off, n, s.tot)]
           /\ flat' = [flat EXCEPT ![i] = Written(i, off, src, s.tot, good)]
           /\ file' = [file EXCEPT ![c.f].off = @ + s.tot]
           /\ job' = [job EXCEPT ![p] =
                        IF s.tot = n /\ c.i + n < c.n THEN [c EXCEPT !.i = @ + n] ELSE NULL]

\* filewrite with n units, up to the end of the first part.
filewrite(p, f, n, good) ==
  /\ job[p] = NULL
  /\ WritePart(p, [f |-> f, n |-> n, i |-> 0], good)

filewrite_next(p, good) ==
  /\ job[p] # NULL
  /\ WritePart(p, job[p], good)

\* An error in the first part changes nothing.
filewrite_error(p) ==
  /\ job[p] # NULL
  /\ ~writei_ok(job[p].f, Part(job[p].i, job[p].n))
  /\ job' = [job EXCEPT ![p] = NULL]
  /\ UNCHANGED <<used, addrs, size, data, disk, file, flat>>

\* The blocks that an inode has.
IndirectBlocks(i) ==
  IF addrs[i][NDIRECT] = 0 THEN {}
  ELSE {data[addrs[i][NDIRECT]][k] : k \in 0 .. NINDIRECT - 1} \ {0}
AllBlocks(i) == ({addrs[i][k] : k \in 0 .. NDIRECT} \ {0}) \cup IndirectBlocks(i)

\* Mutant: itrunc forgets the blocks behind the indirect one.
freed_direct(i) == {addrs[i][k] : k \in 0 .. NDIRECT} \ {0}

\* What itrunc gives to bfree, which panics on a free block.
freed(i) == AllBlocks(i)

\* open with O_TRUNC makes file f anew, for a process that had closed it.
sys_open_trunc(f, i) ==
  /\ \A p \in Procs : job[p] # NULL => job[p].f # f
  /\ freed(i) \subseteq used
  /\ used' = used \ freed(i)
  /\ addrs' = [addrs EXCEPT ![i] = [k \in 0 .. NDIRECT |-> 0]]
  /\ size' = [size EXCEPT ![i] = 0]
  /\ flat' = [flat EXCEPT ![i] = <<>>]
  /\ file' = [file EXCEPT ![f] = [ip |-> i, off |-> 0]]
  /\ UNCHANGED <<data, disk, job>>

\* The buffer of a block with changes that were not logged is used for another block.
evict(b) ==
  /\ data[b] # disk[b]
  /\ data' = [data EXCEPT ![b] = disk[b]]
  /\ UNCHANGED <<used, addrs, size, disk, file, job, flat>>

Next ==
  \/ \E f \in Fs, n \in Counts : fileread(f, n)
  \/ \E p \in Procs, good \in Readable :
       \/ \E f \in Fs, n \in Counts : filewrite(p, f, n, good)
       \/ filewrite_next(p, good)
  \/ \E p \in Procs : filewrite_error(p)
  \/ \E f \in Fs, i \in Inums : sys_open_trunc(f, i)
  \/ \E b \in Blocks : evict(b)

Spec == Init /\ [][Next]_vars

--------------------------------------------------------------------------------
(* Properties. *)

\* A file reads, from any offset, as what was written to it: no unit of another file, of
\* a deleted one or of the zeros of a new block shows, and a read, which is outside of
\* any transaction, finds every block there and allocates none.
FileIsFlat ==
  \A i \in Inums, off \in 0 .. MAXFILE * BSIZE :
    LET s == readi(i, off, MAXFILE * BSIZE)
    IN  /\ s.tot = Larger(Len(flat[i]) - off, 0)
        /\ \A u \in 1 .. s.tot : s.got[u] \in flat[i][off + u]
        /\ s.logged = {}

\* Each block in use belongs to one inode, in one place, and to one only: none is lost
\* when a write fails in the middle, and none is freed twice.
BlocksExact ==
  /\ used = 0 .. META - 1 \cup UNION {AllBlocks(i) : i \in Inums}
  /\ \A i \in Inums : AllBlocks(i) \cap (0 .. META - 1) = {}
  /\ \A i, j \in Inums : i # j => AllBlocks(i) \cap AllBlocks(j) = {}
  /\ \A i \in Inums :
       Cardinality(AllBlocks(i)) =
         Cardinality({k \in 0 .. NDIRECT : addrs[i][k] # 0})
           + (IF addrs[i][NDIRECT] = 0 THEN 0
              ELSE Cardinality({k \in 0 .. NINDIRECT - 1 : data[addrs[i][NDIRECT]][k] # 0}))

\* No part of a write needs more of the log than begin_op reserves for it, wherever it
\* starts and ends and wherever the bits of the blocks it allocates are.
TransactionFits ==
  /\ \A f \in Fs, n \in 1 .. max :
       writei_ok(f, Part(0, n)) =>
         Cardinality(writei(file[f].ip, file[f].off, Part(0, n), n).logged) <= MAXOPBLOCKS
  /\ \A i \in Inums : Cardinality({BBLOCK(b) : b \in freed(i)} \cup {IBLOCK(i)}) <= MAXOPBLOCKS
================================================================================
