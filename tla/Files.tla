---------------------------------- MODULE Files ----------------------------------
(***************************************************************************)
(* Open files: the descriptors p->ofile, the table of struct files with    *)
(* their reference counts, and the pipes and semaphores that live as long  *)
(* as a file points to them (os/kernel/file.c, pipe.c, sem.c, sysfile.c,   *)
(* and the parts of kfork and kexit that copy and close descriptors).      *)
(*                                                                         *)
(* A system call is preempted between its critical sections, so creating a *)
(* pipe or a semaphore and closing a file take several steps each.  Other  *)
(* users of memory may take a page at any time: kalloc may always fail.    *)
(***************************************************************************)
EXTENDS Integers, FiniteSets

CONSTANTS
  Procs, first,         \* first: the process that exists at the start
  NOFILE,               \* descriptors per process
  Files,                \* the entries of ftable
  Pages,                \* the pages that pipes and semaphores may get
  NULL

\* What the constants must satisfy.
Constants == first \in Procs /\ NOFILE \in Nat /\ NULL \notin Files \cup Pages

Fds == 0 .. NOFILE - 1

\* What a page holds: nothing, a semaphore with its ref_count, a pipe with its
\* open ends.
Free == [kind |-> "free"]
SemPage(n) == [kind |-> "sem", ref_count |-> n]
PipePage(ends) == [kind |-> "pipe", ends |-> ends]

VARIABLES
  ofile,                \* the descriptors of each process
  ref, type, writable, obj,     \* fields of each struct file
  page,                 \* what each page holds
  op,                   \* where each process is, and the files and page it has in hand
  closing,              \* the files that each process has still to close
  ending                \* the object whose last file it has closed

file == <<ref, type, writable, obj>>
vars == <<ofile, file, page, op, closing, ending>>

At(pc, fs, pg) == [pc |-> pc, files |-> fs, page |-> pg]
User == At("user", {}, NULL)
Unused == At("unused", {}, NULL)

\* What a file is: ff in fileclose.
Object(f) == [type |-> type[f], page |-> obj[f], writable |-> writable[f]]
NoObject == [type |-> "FD_NONE", page |-> NULL, writable |-> FALSE]

Types == {"FD_NONE", "FD_PIPE", "FD_SEM"}

TypeOK ==
  /\ ofile \in [Procs -> [Fds -> Files \cup {NULL}]]
  /\ ref \in [Files -> Nat]
  /\ type \in [Files -> Types]
  /\ writable \in [Files -> BOOLEAN]
  /\ obj \in [Files -> Pages \cup {NULL}]
  /\ page \in [Pages -> {Free, SemPage(0), SemPage(1)}
                          \cup {PipePage(ends) : ends \in SUBSET {"read", "write"}}]
  /\ op \in [Procs -> [pc : {"unused", "user", "exit", "pipe1", "pipe2", "pipe3", "sem1", "sem2"},
                        files : SUBSET Files, page : Pages \cup {NULL}]]
  /\ closing \in [Procs -> SUBSET Files]
  /\ ending \in [Procs -> [type : Types, page : Pages \cup {NULL}, writable : BOOLEAN]]

Init ==
  /\ ofile = [p \in Procs |-> [fd \in Fds |-> NULL]]
  /\ ref = [f \in Files |-> 0]
  /\ type = [f \in Files |-> "FD_NONE"]
  /\ writable = [f \in Files |-> FALSE]
  /\ obj = [f \in Files |-> NULL]
  /\ page = [pg \in Pages |-> Free]
  /\ op = [p \in Procs |-> IF p = first THEN User ELSE Unused]
  /\ closing = [p \in Procs |-> {}]
  /\ ending = [p \in Procs |-> NoObject]

\* p is at this place of its system call and has nothing left to close.
Ready(p, pc) == op[p].pc = pc /\ closing[p] = {} /\ ending[p] = NoObject

Goto(p, o) == op' = [op EXCEPT ![p] = o]

Close(p, fs) == closing' = [closing EXCEPT ![p] = fs]

FreeFds(p) == {fd \in Fds : ofile[p][fd] = NULL}

--------------------------------------------------------------------------------
(* fileclose *)

\* Mutant: the entry keeps the type of the file that was closed.
closed_type_kept(f) == type[f]

closed_type(f) == "FD_NONE"

\* Up to the release of ftable.lock; panics if there is no reference to drop.
fileclose(p) ==
  /\ ending[p] = NoObject
  /\ \E f \in closing[p] :
       LET last == ref[f] = 1
       IN  /\ ref[f] >= 1
           /\ ref' = [ref EXCEPT ![f] = @ - 1]
           /\ type' = IF last THEN [type EXCEPT ![f] = closed_type(f)] ELSE type
           /\ Close(p, closing[p] \ {f})
           /\ ending' = [ending EXCEPT ![p] =
                           IF last /\ type[f] # "FD_NONE" THEN Object(f) ELSE NoObject]
  /\ UNCHANGED <<ofile, writable, obj, page, op>>

End(w) == IF w THEN "write" ELSE "read"

\* A pipe goes when both ends are closed.
pipe_left(ends) == IF ends = {} THEN Free ELSE PipePage(ends)

pipeclose(p) ==
  /\ LET c == ending[p]
     IN  /\ c.type = "FD_PIPE"
         /\ page[c.page].kind = "pipe"
         /\ page' = [page EXCEPT ![c.page] = pipe_left(@.ends \ {End(c.writable)})]
  /\ ending' = [ending EXCEPT ![p] = NoObject]
  /\ UNCHANGED <<ofile, file, op, closing>>

sem_close(p) ==
  /\ LET c == ending[p]
     IN  /\ c.type = "FD_SEM"
         /\ page[c.page].kind = "sem"
         /\ page' = [page EXCEPT ![c.page] =
                       IF @.ref_count - 1 > 0 THEN SemPage(@.ref_count - 1) ELSE Free]
  /\ ending' = [ending EXCEPT ![p] = NoObject]
  /\ UNCHANGED <<ofile, file, op, closing>>

--------------------------------------------------------------------------------
(* close, dup, fork, exit *)

sys_close(p, fd) ==
  /\ Ready(p, "user")
  /\ ofile[p][fd] # NULL
  /\ ofile' = [ofile EXCEPT ![p][fd] = NULL]
  /\ Close(p, {ofile[p][fd]})
  /\ UNCHANGED <<file, page, op, ending>>

\* The lowest free descriptor.
fdalloc(p, fd) == fd \in FreeFds(p) /\ \A g \in FreeFds(p) : fd <= g

\* Only p itself looks at its descriptors, so fdalloc and filedup are one step.
sys_dup(p, fd) ==
  /\ Ready(p, "user")
  /\ ofile[p][fd] # NULL
  /\ LET f == ofile[p][fd]
     IN  /\ ref[f] >= 1
         /\ \E to \in Fds : fdalloc(p, to) /\ ofile' = [ofile EXCEPT ![p][to] = f]
         /\ ref' = [ref EXCEPT ![f] = @ + 1]
  /\ UNCHANGED <<type, writable, obj, page, op, closing, ending>>

\* The calls of filedup(f) by kfork.
dups(p, f) == Cardinality({fd \in Fds : ofile[p][fd] = f})

\* np->lock is held while the descriptors are copied.
kfork(p, np) ==
  /\ Ready(p, "user")
  /\ Ready(np, "unused")
  /\ ofile' = [ofile EXCEPT ![np] = ofile[p]]
  /\ ref' = [f \in Files |-> ref[f] + dups(p, f)]
  /\ Goto(np, User)
  /\ UNCHANGED <<type, writable, obj, page, closing, ending>>

kexit(p) ==
  /\ Ready(p, "user")
  /\ Goto(p, At("exit", {}, NULL))
  /\ UNCHANGED <<ofile, file, page, closing, ending>>

\* The next open descriptor; the entry is cleared after fileclose, which nobody sees.
kexit_close(p) ==
  /\ Ready(p, "exit")
  /\ \E fd \in Fds :
       /\ ofile[p][fd] # NULL /\ \A g \in Fds : g < fd => ofile[p][g] = NULL
       /\ ofile' = [ofile EXCEPT ![p][fd] = NULL]
       /\ Close(p, {ofile[p][fd]})
  /\ UNCHANGED <<file, page, op, ending>>

\* The slot may be used again once the parent has waited.
kexit_done(p) ==
  /\ Ready(p, "exit")
  /\ FreeFds(p) = Fds
  /\ Goto(p, Unused)
  /\ UNCHANGED <<ofile, file, page, closing, ending>>

--------------------------------------------------------------------------------
(* pipe *)

\* filealloc() in a call that may have one file already.
filealloc(p, from, to) ==
  /\ Ready(p, from)
  /\ \E f \in Files :
       /\ ref[f] = 0
       /\ ref' = [ref EXCEPT ![f] = 1]
       /\ Goto(p, At(to, op[p].files \cup {f}, NULL))
  /\ UNCHANGED <<ofile, type, writable, obj, page, closing, ending>>

\* A call gives up and closes the files it has in hand.
GiveUp(p) ==
  /\ Close(p, op[p].files)
  /\ Goto(p, User)
  /\ UNCHANGED ending

pipealloc(p) == filealloc(p, "user", "pipe1") \/ filealloc(p, "pipe1", "pipe2")

pipealloc_fails(p) ==
  /\ \/ Ready(p, "pipe1") /\ \A f \in Files : ref[f] # 0
     \/ Ready(p, "pipe2")
  /\ GiveUp(p)
  /\ UNCHANGED <<ofile, file, page>>

pipealloc_page(p) ==
  /\ Ready(p, "pipe2")
  /\ \E pg \in Pages, wf \in op[p].files :
       /\ page[pg] = Free
       /\ page' = [page EXCEPT ![pg] = PipePage({"read", "write"})]
       /\ type' = [f \in Files |-> IF f \in op[p].files THEN "FD_PIPE" ELSE type[f]]
       /\ writable' = [f \in Files |-> IF f \in op[p].files THEN f = wf ELSE writable[f]]
       /\ obj' = [f \in Files |-> IF f \in op[p].files THEN pg ELSE obj[f]]
       /\ Goto(p, At("pipe3", op[p].files, NULL))
  /\ UNCHANGED <<ofile, ref, closing, ending>>

sys_pipe(p) ==
  /\ Ready(p, "pipe3")
  /\ \E rf, wf \in op[p].files, fd0, fd1 \in FreeFds(p) :
       /\ writable[wf] /\ rf # wf
       /\ fdalloc(p, fd0) /\ fd1 # fd0 /\ \A g \in FreeFds(p) \ {fd0} : fd1 <= g
       /\ ofile' = [ofile EXCEPT ![p][fd0] = rf, ![p][fd1] = wf]
  /\ Goto(p, User)
  /\ UNCHANGED <<file, page, closing, ending>>

\* No two free descriptors, or copyout failed: the descriptors are cleared again.
sys_pipe_fails(p) ==
  /\ Ready(p, "pipe3")
  /\ GiveUp(p)
  /\ UNCHANGED <<ofile, file, page>>

--------------------------------------------------------------------------------
(* sem_create *)

sem_filealloc(p) == filealloc(p, "user", "sem1")

sem_alloc_fails(p) ==
  /\ Ready(p, "sem1")
  /\ GiveUp(p)
  /\ UNCHANGED <<ofile, file, page>>

sem_alloc(p) ==
  /\ Ready(p, "sem1")
  /\ \E pg \in Pages :
       /\ page[pg] = Free
       /\ page' = [page EXCEPT ![pg] = SemPage(0)]
       /\ Goto(p, At("sem2", op[p].files, pg))
  /\ UNCHANGED <<ofile, file, closing, ending>>

\* The file gets its type, and the semaphore its reference, after the descriptor
\* is set; only p can see it in between.
sys_sem_create(p) ==
  /\ Ready(p, "sem2")
  /\ \E f \in op[p].files, fd \in Fds :
       /\ fdalloc(p, fd)
       /\ ofile' = [ofile EXCEPT ![p][fd] = f]
       /\ type' = [type EXCEPT ![f] = "FD_SEM"]
       /\ writable' = [writable EXCEPT ![f] = TRUE]
       /\ obj' = [obj EXCEPT ![f] = op[p].page]
       /\ page' = [page EXCEPT ![op[p].page] = SemPage(@.ref_count + 1)]
  /\ Goto(p, User)
  /\ UNCHANGED <<ref, closing, ending>>

\* No descriptor is free: the file is closed; its type is still FD_NONE, so that
\* fileclose does nothing for the semaphore.
sys_sem_create_fails(p) ==
  /\ Ready(p, "sem2")
  /\ FreeFds(p) = {}
  /\ GiveUp(p)
  /\ UNCHANGED <<ofile, file, page>>

--------------------------------------------------------------------------------
(* read and write, which change nothing here: for pipes they are in Pipe. *)

\* f->readable: of a pipe, the end that is not for writing.
readable(f) == type[f] = "FD_SEM" \/ ~writable[f]

\* fileread and filewrite have a case for pipes, and none for semaphores.
fileread_panics(f) == readable(f) /\ type[f] # "FD_PIPE"
filewrite_panics(f) == writable[f] /\ type[f] # "FD_PIPE"

--------------------------------------------------------------------------------
ProcStep(p) ==
  \/ fileclose(p) \/ pipeclose(p) \/ sem_close(p)
  \/ \E fd \in Fds : sys_close(p, fd) \/ sys_dup(p, fd)
  \/ \E np \in Procs : kfork(p, np)
  \/ kexit(p) \/ kexit_close(p) \/ kexit_done(p)
  \/ pipealloc(p) \/ pipealloc_fails(p) \/ pipealloc_page(p) \/ sys_pipe(p) \/ sys_pipe_fails(p)
  \/ sem_filealloc(p) \/ sem_alloc(p) \/ sem_alloc_fails(p)
  \/ sys_sem_create(p) \/ sys_sem_create_fails(p)

\* Every process has exited.
Done == (\A p \in Procs : Ready(p, "unused")) /\ UNCHANGED vars

Next == (\E p \in Procs : ProcStep(p)) \/ Done

Spec == Init /\ [][Next]_vars

--------------------------------------------------------------------------------
(* Properties. *)

InOfile(f) == {h \in Procs \X Fds : ofile[h[1]][h[2]] = f}
InHand(f) == {p \in Procs : f \in op[p].files}
InClosing(f) == {p \in Procs : f \in closing[p]}

\* A file's reference count is the number of descriptors that name it and of
\* system calls that are about to install or to close it.  Neither filedup nor
\* fileclose can panic, and a file in use is never handed out again.
FileRefsExact ==
  \A f \in Files :
    ref[f] = Cardinality(InOfile(f)) + Cardinality(InHand(f)) + Cardinality(InClosing(f))

\* The closes of an end of the pipe in pg that have left fileclose.
PendingCloses(pg, w) == {p \in Procs : ending[p] = [type |-> "FD_PIPE", page |-> pg, writable |-> w]}

EndOf(f, pg, w) == ref[f] > 0 /\ type[f] = "FD_PIPE" /\ obj[f] = pg /\ writable[f] = w

\* Each end of a pipe is open exactly as long as one file is that end, or its close
\* is on the way: a reader sees the end of the file when the last writer is gone
\* and not before, and the page is freed with the second end, once.
PipeEndsExact ==
  \A pg \in Pages, w \in BOOLEAN :
    (page[pg].kind = "pipe" /\ End(w) \in page[pg].ends)
      <=> (\E f \in Files : EndOf(f, pg, w)) \/ PendingCloses(pg, w) # {}

\* The panics at the end of fileread and filewrite are never reached: a file that a
\* program has a descriptor of is of a type that they can read or write.
NoFilePanic ==
  \A p \in Procs, fd \in Fds :
    Ready(p, "user") /\ ofile[p][fd] # NULL =>
      ~fileread_panics(ofile[p][fd]) /\ ~filewrite_panics(ofile[p][fd])

\* No file and no close on the way leads to a page that was freed, or that was
\* given to something else since.
ObjectsAlive ==
  /\ \A f \in Files :
       /\ type[f] = "FD_PIPE" => page[obj[f]].kind = "pipe"
       /\ type[f] = "FD_SEM"  => page[obj[f]] = SemPage(1)
  /\ \A p \in Procs :
       /\ ending[p].type = "FD_PIPE" => page[ending[p].page].kind = "pipe"
       /\ ending[p].type = "FD_SEM"  => page[ending[p].page] = SemPage(1)
================================================================================
