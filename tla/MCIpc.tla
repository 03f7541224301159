---------------------------------- MODULE MCIpc ----------------------------------
(***************************************************************************)
(* Pipes, semaphores and open files for TLC.  They share no state, so each *)
(* behaviour is one of a single part, chosen in the initial state; the     *)
(* pipe stays as it starts in the behaviours of the others, and their      *)
(* variables are 0 otherwise.                                              *)
(***************************************************************************)
EXTENDS Pipe, TLC

CONSTANTS p1, p2, p3, w1, w2, r1, r2, a, f1, f2, f3, g1, g2, NULL

VARIABLES
  part,
  q_data, q_nread, q_nwrite, q_readopen, q_writeopen, q_pc, q_todo, q_want, q_got, q_killed,
  s_value, s_destroyed, s_pc, s_killed, s_holds, s_total,
  ofile, ref, type, writable, obj, page, op, closing, ending

pipes == <<q_data, q_nread, q_nwrite, q_readopen, q_writeopen, q_pc, q_todo, q_want, q_got,
           q_killed>>
sem  == <<s_value, s_destroyed, s_pc, s_killed, s_holds, s_total>>
file == <<ofile, ref, type, writable, obj, page, op, closing, ending>>
allVars == <<part, vars, pipes, sem, file>>

\* One writer of different bytes is in Pipe itself; here are several writers and readers
\* of equal ones.
Q == INSTANCE Pipe WITH
       Writers <- {w1, w2}, Readers <- {r1, r2}, PIPESIZE <- 1, UINT <- 2,
       Bytes <- {a}, MAXN <- 2,
       data <- q_data, nread <- q_nread, nwrite <- q_nwrite, readopen <- q_readopen,
       writeopen <- q_writeopen, pc <- q_pc, todo <- q_todo, want <- q_want, got <- q_got,
       killed <- q_killed

S == INSTANCE Sem WITH
       Procs <- {p1, p2, p3}, N <- 1, MaxTotal <- 3,
       value <- s_value, destroyed <- s_destroyed, pc <- s_pc, killed <- s_killed,
       holds <- s_holds, total <- s_total

F == INSTANCE Files WITH
       Procs <- {p1, p2}, first <- p1, Files <- {f1, f2, f3}, Pages <- {g1, g2}, NOFILE <- 2

ASSUME Constants /\ Q!Constants /\ S!Constants /\ F!Constants

NoPipes ==
  /\ q_data = 0 /\ q_nread = 0 /\ q_nwrite = 0 /\ q_readopen = 0 /\ q_writeopen = 0
  /\ q_pc = 0 /\ q_todo = 0 /\ q_want = 0 /\ q_got = 0 /\ q_killed = 0
NoSem ==
  /\ s_value = 0 /\ s_destroyed = 0 /\ s_pc = 0 /\ s_killed = 0 /\ s_holds = 0 /\ s_total = 0
NoFile ==
  /\ ofile = 0 /\ ref = 0 /\ type = 0 /\ writable = 0 /\ obj = 0 /\ page = 0
  /\ op = 0 /\ closing = 0 /\ ending = 0

AllInit ==
  /\ part \in {"pipe", "pipes", "sem", "file"}
  /\ Init
  /\ part # "pipe" => data = [i \in Slots |-> a]
  /\ IF part = "pipes" THEN Q!Init ELSE NoPipes
  /\ IF part = "sem" THEN S!Init ELSE NoSem
  /\ IF part = "file" THEN F!Init ELSE NoFile

AllNext ==
  \/ part = "pipe"  /\ Next   /\ UNCHANGED <<part, pipes, sem, file>>
  \/ part = "pipes" /\ Q!Next /\ UNCHANGED <<part, vars, sem, file>>
  \/ part = "sem"   /\ S!Next /\ UNCHANGED <<part, vars, pipes, file>>
  \/ part = "file"  /\ F!Next /\ UNCHANGED <<part, vars, pipes, sem>>

AllSpec == AllInit /\ [][AllNext]_allVars

\* Files and pages are interchangeable.
IpcSymmetry ==
  Permutations({f1, f2, f3}) \cup Permutations({g1, g2})

--------------------------------------------------------------------------------
(* The properties of Sem, of Files and of the second pipe. *)

\* sem.c: no more processes get through sem_wait than there are resources, and none is lost.
ResourcesConserved == part = "sem" => S!ResourcesConserved

\* sem.c: nobody sleeps in sem_wait who could go on; nor in piperead or pipewrite, when
\* there are several writers and readers.
NoLostPost ==
  /\ part = "sem" => S!NoLostPost
  /\ part = "pipes" => Q!NoLostWakeup

\* file.c, sem.c, pipe.c: reference counts are exact, an end of a pipe is open as long as
\* a file is that end, and no file leads to a page that was freed.
FilesExact == part = "file" => F!FileRefsExact /\ F!PipeEndsExact /\ F!ObjectsAlive

\* file.c: read and write do not panic on a descriptor, whatever it is.
NoFilePanic == part = "file" => F!NoFilePanic
================================================================================
