------------------------------- MODULE MCSyscalls -------------------------------
(***************************************************************************)
(* System calls on names and inodes, and on address spaces, for TLC.  Each *)
(* behaviour is one of a single part, chosen in the initial state; the     *)
(* file system stays as it starts while the other part runs, whose         *)
(* variables are otherwise 0.                                              *)
(***************************************************************************)
EXTENDS MCInode

CONSTANTS q1, q2, NULL

VARIABLES part, used, cnt, as, live, panic

space == <<used, cnt, as, live, panic>>
allVars == <<part, vars, space>>

\* A program of two segments, the second in the page of the first, and an empty one with
\* an argument that does not fit on the stack.
Seg(va, memsz, filesz, perm) ==
  [va |-> va, memsz |-> memsz, filesz |-> filesz, perm |-> perm, readable |-> TRUE, whole |-> TRUE]

Executables ==
  { [segs |-> <<Seg(0, 2, 1, {"X"}), Seg(0, 1, 1, {})>>, nargs |-> 0, fits |-> TRUE],
    [segs |-> <<>>, nargs |-> 1, fits |-> FALSE] }

A == INSTANCE AddrSpace WITH
       Procs <- {q1, q2}, initproc <- q1, PTES <- 3, PGSIZE <- 2, USERSTACK <- 1,
       MAX_MREGIONS <- 16, ASLR_CODE_MAX_PAGES <- 1, ASLR_STACK_GAP_MAX_PAGES <- 0,
       ASLR_HEAP_GAP_MAX_PAGES <- 0, Programs <- Executables, MaxExec <- 7, MaxGrow <- 3,
       Deltas <- {3, -2}, MaxHeap <- 3

ASSUME A!Constants

NoSpace == used = 0 /\ cnt = 0 /\ as = 0 /\ live = 0 /\ panic = 0

AllInit ==
  /\ Init
  /\ \/ part = "names" /\ NoSpace
     \/ part = "space" /\ A!Init /\ calls = CHOOSE c \in Programs : TRUE

AllNext ==
  \/ part = "names" /\ Next   /\ UNCHANGED <<part, space>>
  \/ part = "space" /\ A!Next /\ UNCHANGED <<part, vars>>

AllSpec == AllInit /\ [][AllNext]_allVars

--------------------------------------------------------------------------------
(* Properties; InodeRefsExact and LinksEnough are in Inode. *)

\* fs.c, sysfile.c: no call panics, and none waits for a lock for ever.
FsGoesOn == NoFsPanic /\ NoLockCycle

\* addrspace.c: the pages in use are those that processes have, all counted, also when
\* a call ran out of memory half way; what a process maps is in its regions, which are
\* apart and in bounds.
SpacesExact == part = "space" => A!TablesExact /\ A!RegionsExact
================================================================================
