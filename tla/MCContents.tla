------------------------------- MODULE MCContents --------------------------------
(***************************************************************************)
(* What programs find in their memory (Vm) and in files, and the pages     *)
(* that memory is made of, for TLC.  Each behaviour is one of a single     *)
(* part, chosen in the initial state; the memory stays as it starts in the *)
(* behaviours of the others, whose variables are 0 otherwise.              *)
(***************************************************************************)
EXTENDS Vm, TLC

CONSTANTS p1, p2, p3, g1, g2, g3, g4, i1, i2, f1, f2

VARIABLES
  part,
  used, addrs, size, f_data, f_disk, file, job, flat,
  freelist, page_state, k_refcnt, k_boot, k_pc, idx, order

files   == <<used, addrs, size, f_data, f_disk, file, job, flat>>
kalloc  == <<freelist, page_state, k_refcnt, k_boot, k_pc, idx, order>>
allVars == <<part, vars, files, kalloc>>

\* Four data blocks for two files of up to three blocks and an indirect one.  A part of
\* a write is one block long (max), so that with the bits of two blocks in a block of
\* the bitmap it can need all six blocks that it reserves.
F == INSTANCE FileData WITH
       Procs <- {p2, p3}, Inums <- {i1, i2}, Fs <- {f1, f2}, SIZE <- 5, META <- 1, BPB <- 2,
       BSIZE <- 2, NDIRECT <- 1, NINDIRECT <- 2, MAXOPBLOCKS <- 6, NVALUES <- 2,
       Counts <- {3}, Readable <- {1, 2}, data <- f_data, disk <- f_disk

\* Blocks of up to four pages; the buddy of the first page is in the kernel and that
\* of the last one past the end of memory.
K == INSTANCE Kalloc WITH
       NPAGES <- 9, end <- 3, MAX_ORDER <- 2, Size <- [o \in 0 .. 2 |-> 2 ^ o], MAXREF <- 2,
       refcnt <- k_refcnt, boot <- k_boot, pc <- k_pc

ASSUME Constants /\ F!Constants /\ K!Constants

NoFiles ==
  /\ used = 0 /\ addrs = 0 /\ size = 0 /\ f_data = 0 /\ f_disk = 0 /\ file = 0 /\ job = 0
  /\ flat = 0
NoKalloc ==
  /\ freelist = 0 /\ page_state = 0 /\ k_refcnt = 0 /\ k_boot = 0 /\ k_pc = 0 /\ idx = 0
  /\ order = 0

AllInit ==
  /\ part \in {"memory", "files", "kalloc"}
  /\ Init
  /\ IF part = "files" THEN F!Init ELSE NoFiles
  /\ IF part = "kalloc" THEN K!Init ELSE NoKalloc

AllNext ==
  \/ part = "memory" /\ Next   /\ UNCHANGED <<part, files, kalloc>>
  \/ part = "files"  /\ F!Next /\ UNCHANGED <<part, vars, kalloc>>
  \/ part = "kalloc" /\ K!Next /\ UNCHANGED <<part, vars, files>>

AllSpec == AllInit /\ [][AllNext]_allVars

\* init is not interchangeable with other processes, and the blocks of files are numbers.
ContentsSymmetry ==
  Permutations({p2, p3}) \cup Permutations({g1, g2, g3, g4})
    \cup Permutations({i1, i2}) \cup Permutations({f1, f2})

--------------------------------------------------------------------------------
(* The properties of FileData and Kalloc. *)

\* fs.c: a file reads as what was written to it, whatever failed in between.
FileIsFlat == part = "files" => F!FileIsFlat

\* fs.c: each block in use belongs to one inode, in one place.
BlocksExact == part = "files" => F!BlocksExact

\* file.c: no part of a write needs more of the log than it reserves.
TransactionFits == part = "files" => F!TransactionFits

\* kalloc.c: every page is referenced, in one free block, or in the block in hand, and
\* between operations no two buddies are free.
PagesExact == part = "kalloc" => K!PagesExact /\ K!MergedFully
================================================================================
