---------------------------------- MODULE Shell ----------------------------------
(***************************************************************************)
(* The shell, os/user/sh.c: the parser of a command line, and the          *)
(* processes, pipes and descriptors with which runcmd carries it out.      *)
(*                                                                         *)
(* A line is a sequence of the tokens that gettoken returns; a word is     *)
(* named by its place in the line.  A process takes one step for the calls *)
(* between two that other processes can affect.  What a program does is    *)
(* left open: it copies its input to its output until one of them ends, or *)
(* writes some data of its own, or just exits.                             *)
(***************************************************************************)
EXTENDS Integers, Sequences, FiniteSets, FiniteSetsExt, SequencesExt

CONSTANTS
  Lines,        \* what may be typed
  RunLines,     \* the lines of them that are also carried out
  MAXARGS,
  NPROC,        \* processes of the shell
  NFD,          \* descriptors of a process
  NPIPE, PIPESIZE,
  MaxData       \* how much a program writes that has no input

Pids == 1 .. NPROC
main == 0       \* the shell that reads lines
init == -1      \* the process that orphans go to

VARIABLES
  line,         \* the line typed
  pc,           \* where main is
  proc,         \* the processes that it and its children forked
  pipe,         \* how much is in each pipe
  forkfailed    \* whether fork1 ever failed

vars == <<line, pc, proc, pipe, forkfailed>>

--------------------------------------------------------------------------------
(* Commands, and the parser.  A function of the parser starts at token i and  *)
(* returns the command and the token after it; ok is false after a panic.     *)

execcmd(argv)      == [type |-> "EXEC", argv |-> argv]
redircmd(c, t, f)  == [type |-> "REDIR", cmd |-> c, mode |-> t, file |-> f]
pipecmd(l, r)      == [type |-> "PIPE", left |-> l, right |-> r]
listcmd(l, r)      == [type |-> "LIST", left |-> l, right |-> r]
backcmd(c)         == [type |-> "BACK", cmd |-> c]

\* The token at i; there is none at the end of the line.
gettoken(L, i) == IF i <= Len(L) THEN L[i] ELSE "end"
peek(L, i, toks) == gettoken(L, i) \in toks

At(i, c) == [ok |-> TRUE, i |-> i, cmd |-> c]
Panic == [ok |-> FALSE, i |-> 0, cmd |-> execcmd(<<>>)]

RECURSIVE parseredirs(_, _)
parseredirs(L, r) ==
  IF ~r.ok \/ ~peek(L, r.i, {"<", ">", "+"}) THEN r
  ELSE IF gettoken(L, r.i + 1) # "a" THEN Panic
  ELSE parseredirs(L, At(r.i + 2, redircmd(r.cmd, L[r.i], r.i + 1)))

\* cmd->argv of the EXEC inside.
RECURSIVE AddArg(_, _)
AddArg(c, q) ==
  IF c.type = "EXEC" THEN [c EXCEPT !.argv = Append(@, q)] ELSE [c EXCEPT !.cmd = AddArg(@, q)]

RECURSIVE parseargs(_, _, _)
parseargs(L, r, argc) ==
  CASE ~r.ok -> r
    [] r.ok /\ (peek(L, r.i, {"|", ")", "&", ";"}) \/ gettoken(L, r.i) = "end") -> r
    [] OTHER -> IF gettoken(L, r.i) # "a" \/ argc + 1 >= MAXARGS THEN Panic
                ELSE parseargs(L, parseredirs(L, At(r.i + 1, AddArg(r.cmd, r.i))), argc + 1)

\* Mutant: a & that follows a pipe belongs to the last command of the pipe.
pipe_tail_all(L, i) == peek(L, i, {"|", "&"})

pipe_tail(L, i) == peek(L, i, {"|"})

RECURSIVE parseline(_, _)
RECURSIVE parsebacks(_, _)
RECURSIVE parsepipe(_, _)

parseblock(L, i) ==
  LET r == parseline(L, i + 1)
  IN  IF ~r.ok \/ ~peek(L, r.i, {")"}) THEN Panic ELSE parseredirs(L, At(r.i + 1, r.cmd))

parseexec(L, i) ==
  IF peek(L, i, {"("}) THEN parseblock(L, i)
  ELSE parseargs(L, parseredirs(L, At(i, execcmd(<<>>))), 0)

parsepipe(L, i) ==
  LET l == parseexec(L, i)
      r == parsepipe(L, l.i + 1)
  IN  IF ~l.ok \/ ~pipe_tail(L, l.i) THEN l
      ELSE IF r.ok THEN At(r.i, pipecmd(l.cmd, r.cmd)) ELSE Panic

parsebacks(L, r) ==
  IF r.ok /\ peek(L, r.i, {"&"}) THEN parsebacks(L, At(r.i + 1, backcmd(r.cmd))) ELSE r

parseline(L, i) ==
  LET l == parsebacks(L, parsepipe(L, i))
      r == parseline(L, l.i + 1)
  IN  IF ~l.ok \/ ~peek(L, l.i, {";"}) THEN l
      ELSE IF r.ok THEN At(r.i, listcmd(l.cmd, r.cmd)) ELSE Panic

parsecmd(L) == LET r == parseline(L, 1) IN IF r.ok /\ r.i = Len(L) + 1 THEN r ELSE Panic

--------------------------------------------------------------------------------
(* Processes. *)

Console == <<"console", 0>>
Closed == <<"closed", 0>>
ReadEnd(k) == <<"read", k>>
WriteEnd(k) == <<"write", k>>

Free == [st |-> "free"]
Running == {p \in Pids : proc[p].st = "run"}
Children(p) == {q \in Pids : proc[q].st # "free" /\ proc[q].parent = p}

\* Who has an end of a pipe open.
Open(f) == {p \in Running : \E d \in 0 .. NFD - 1 : proc[p].fd[d] = f}

Init ==
  /\ line \in Lines
  /\ pc = "prompt"
  /\ proc = [p \in Pids |-> Free]
  /\ pipe = [k \in 1 .. NPIPE |-> 0]
  /\ forkfailed = FALSE

\* The descriptor that open, dup and pipe return.
Lowest(fd) == Min({d \in 0 .. NFD - 1 : fd[d] = Closed})
open(fd, f) == [fd EXCEPT ![Lowest(fd)] = f]
close(fd, d) == [fd EXCEPT ![d] = Closed]
dup(fd, d) == open(fd, fd[d])

\* fork of a process that starts with command c.
Child(parent, c, fd, st, p, bg) ==
  [st |-> "run", parent |-> parent, cmd |-> c, fd |-> fd, at |-> st, p |-> p, bg |-> bg, n |-> 0]

Fork(p, new, child) ==
  proc' = [proc EXCEPT ![Min({q \in Pids : proc[q].st = "free"})] = child, ![p] = new]

\* exit of process p: its children go to init, which reaps them when they are zombies.
exit(p) ==
  proc' = [q \in Pids |->
    CASE q = p -> IF proc[p].parent = init THEN Free
                  ELSE [st |-> "zombie", parent |-> proc[p].parent]
      [] q \in Children(p) /\ q # p -> IF proc[q].st = "zombie" THEN Free ELSE [proc[q] EXCEPT !.parent = init]
      [] OTHER -> proc[q]]

\* wait returns: a child that has exited is gone, or there is none to wait for.
Reaped(p, q) == q \in Children(p) /\ proc[q].st = "zombie"

Step(p, at, type) ==
  /\ proc[p].st = "run" /\ proc[p].at = at
  /\ proc[p].cmd.type = type

\* A blank line and cd, which main does itself.
Builtin == IF line = <<>> THEN TRUE ELSE line[1] = "cd"

main_builtin ==
  /\ pc = "prompt" /\ line \in RunLines /\ Builtin
  /\ pc' = "done"
  /\ UNCHANGED <<line, proc, pipe, forkfailed>>

\* fork1, and the child calls runcmd(parsecmd(line)).  Without a child the shell exits.
main_fork_fails ==
  /\ pc = "prompt" /\ line \in RunLines /\ ~Builtin
  /\ pc' = "exit"
  /\ forkfailed' = TRUE
  /\ UNCHANGED <<line, proc, pipe>>

main_fork ==
  /\ pc = "prompt" /\ line \in RunLines /\ ~Builtin
  /\ pc' = "wait"
  /\ LET r == parsecmd(line)
         fd == [d \in 0 .. NFD - 1 |-> IF d < 3 THEN Console ELSE Closed]
     IN  proc' = [proc EXCEPT ![1] =
                    IF r.ok THEN Child(main, r.cmd, fd, "run", <<0, 0>>, FALSE)
                    ELSE [st |-> "zombie", parent |-> main]]
  /\ UNCHANGED <<line, pipe, forkfailed>>

main_wait ==
  /\ pc = "wait"
  /\ \E q \in Pids :
       /\ Reaped(main, q)
       /\ proc' = [proc EXCEPT ![q] = Free]
  /\ pc' = "done"
  /\ UNCHANGED <<line, pipe, forkfailed>>

\* A program, if there is one to run, or nothing.
runcmd_exec(p) ==
  /\ Step(p, "run", "EXEC")
  /\ \/ /\ proc[p].cmd.argv # <<>>
        /\ \E k \in {"copy", "write"} :
             proc' = [proc EXCEPT ![p].at = k, ![p].n = IF k = "write" THEN MaxData ELSE 0]
     \/ exit(p)
  /\ UNCHANGED <<line, pc, pipe, forkfailed>>

\* The file takes the descriptor that was closed, unless it cannot be opened.
runcmd_redir(p) ==
  /\ Step(p, "run", "REDIR")
  /\ LET c == proc[p].cmd
         d == IF c.mode = "<" THEN 0 ELSE 1
     IN  \/ proc' = [proc EXCEPT ![p].fd = open(close(@, d), <<"file", c.file>>), ![p].cmd = c.cmd]
         \/ exit(p)
  /\ UNCHANGED <<line, pc, pipe, forkfailed>>

runcmd_list(p) ==
  /\ Step(p, "run", "LIST")
  /\ Fork(p, [proc[p] EXCEPT !.at = "wait"],
          Child(p, proc[p].cmd.left, proc[p].fd, "run", <<0, 0>>, proc[p].bg))
  /\ UNCHANGED <<line, pc, pipe, forkfailed>>

runcmd_list_wait(p) ==
  /\ Step(p, "wait", "LIST")
  /\ \E q \in Pids :
       /\ Reaped(p, q)
       /\ proc' = [proc EXCEPT ![q] = Free, ![p].at = "run", ![p].cmd = proc[p].cmd.right]
  /\ UNCHANGED <<line, pc, pipe, forkfailed>>

\* pipe and the first fork1.
runcmd_pipe(p) ==
  /\ Step(p, "run", "PIPE")
  /\ LET k  == Min({j \in 1 .. NPIPE : Open(ReadEnd(j)) \cup Open(WriteEnd(j)) = {}})
         r  == Lowest(proc[p].fd)
         w  == Lowest(open(proc[p].fd, ReadEnd(k)))
         fd == open(open(proc[p].fd, ReadEnd(k)), WriteEnd(k))
     IN  /\ Fork(p, [proc[p] EXCEPT !.fd = fd, !.p = <<r, w>>, !.at = "fork"],
                 Child(p, proc[p].cmd.left, fd, "left", <<r, w>>, proc[p].bg))
         /\ pipe' = [pipe EXCEPT ![k] = 0]
  /\ UNCHANGED <<line, pc, forkfailed>>

runcmd_pipe_fork(p) ==
  /\ Step(p, "fork", "PIPE")
  /\ Fork(p, [proc[p] EXCEPT !.at = "close"],
          Child(p, proc[p].cmd.right, proc[p].fd, "right", proc[p].p, proc[p].bg))
  /\ UNCHANGED <<line, pc, pipe, forkfailed>>

\* The calls of a child before runcmd: descriptor d becomes end e of the pipe.
Plumb(fd, p, d, e) == close(close(dup(close(fd, d), p[e]), p[1]), p[2])

runcmd_left(p) ==
  /\ proc[p].st = "run" /\ proc[p].at = "left"
  /\ proc' = [proc EXCEPT ![p].fd = Plumb(@, proc[p].p, 1, 2), ![p].at = "run"]
  /\ UNCHANGED <<line, pc, pipe, forkfailed>>

runcmd_right(p) ==
  /\ proc[p].st = "run" /\ proc[p].at = "right"
  /\ proc' = [proc EXCEPT ![p].fd = Plumb(@, proc[p].p, 0, 1), ![p].at = "run"]
  /\ UNCHANGED <<line, pc, pipe, forkfailed>>

\* Mutant: the shell keeps the end that it could write to.
both_closed_one(fd, p) == close(fd, p[1])

both_closed(fd, p) == close(close(fd, p[1]), p[2])

runcmd_pipe_close(p) ==
  /\ Step(p, "close", "PIPE")
  /\ proc' = [proc EXCEPT ![p].fd = both_closed(@, proc[p].p), ![p].at = "wait"]
  /\ UNCHANGED <<line, pc, pipe, forkfailed>>

\* Mutant: the second wait is missing.
waits_once(p) == 1

\* How many children the shell of a pipe waits for.
waits(p) == 2

\* n counts the calls of wait that have returned.
runcmd_pipe_wait(p) ==
  /\ Step(p, "wait", "PIPE") /\ proc[p].n < waits(p)
  /\ \E q \in Pids :
       /\ Reaped(p, q)
       /\ proc' = [proc EXCEPT ![q] = Free, ![p].n = @ + 1]
  /\ UNCHANGED <<line, pc, pipe, forkfailed>>

runcmd_pipe_exit(p) ==
  /\ Step(p, "wait", "PIPE") /\ proc[p].n = waits(p)
  /\ exit(p)
  /\ UNCHANGED <<line, pc, pipe, forkfailed>>

runcmd_back(p) ==
  /\ Step(p, "run", "BACK")
  /\ Fork(p, [proc[p] EXCEPT !.at = "exit"],
          Child(p, proc[p].cmd.cmd, proc[p].fd, "run", <<0, 0>>, TRUE))
  /\ UNCHANGED <<line, pc, pipe, forkfailed>>

runcmd_back_exit(p) ==
  /\ Step(p, "exit", "BACK")
  /\ exit(p)
  /\ UNCHANGED <<line, pc, pipe, forkfailed>>

\* fork1 panics when there is no process to be had, and so does PIPE without a pipe.
fork1_fails(p) ==
  /\ proc[p].st = "run"
  /\ \/ proc[p].at = "run" /\ proc[p].cmd.type \in {"LIST", "PIPE", "BACK"}
     \/ proc[p].at = "fork"
  /\ exit(p)
  /\ forkfailed' = TRUE
  /\ UNCHANGED <<line, pc, pipe>>

--------------------------------------------------------------------------------
(* Programs. *)

\* Output of one unit: a program whose output nobody reads gets an error and exits.
Emit(p, then) ==
  LET f == proc[p].fd[1]
  IN  IF f[1] # "write" THEN proc' = then /\ UNCHANGED pipe
      ELSE IF Open(ReadEnd(f[2])) = {} THEN exit(p) /\ UNCHANGED pipe
      ELSE /\ pipe[f[2]] < PIPESIZE
           /\ pipe' = [pipe EXCEPT ![f[2]] = @ + 1]
           /\ proc' = then

\* A program that writes and may exit at any time.
program_write(p) ==
  /\ proc[p].st = "run" /\ proc[p].at = "write"
  /\ \/ proc[p].n > 0 /\ Emit(p, [proc EXCEPT ![p].n = @ - 1])
     \/ exit(p) /\ UNCHANGED pipe
  /\ UNCHANGED <<line, pc, forkfailed>>

\* A program that copies; the console and files are at their end.
program_read(p) ==
  /\ proc[p].st = "run" /\ proc[p].at = "copy" /\ proc[p].n = 0
  /\ LET f == proc[p].fd[0]
     IN  IF f[1] = "read" /\ pipe[f[2]] > 0
         THEN /\ pipe' = [pipe EXCEPT ![f[2]] = @ - 1]
              /\ proc' = [proc EXCEPT ![p].n = 1]
         ELSE /\ f[1] = "read" => Open(WriteEnd(f[2])) = {}
              /\ exit(p)
              /\ UNCHANGED pipe
  /\ UNCHANGED <<line, pc, forkfailed>>

program_copy(p) ==
  /\ proc[p].st = "run" /\ proc[p].at = "copy" /\ proc[p].n = 1
  /\ Emit(p, [proc EXCEPT ![p].n = 0])
  /\ UNCHANGED <<line, pc, forkfailed>>

--------------------------------------------------------------------------------
\* What goes on once a line is typed.
Work ==
  \/ main_wait
  \/ \E p \in Pids :
       \/ runcmd_exec(p) \/ runcmd_redir(p) \/ runcmd_list(p) \/ runcmd_list_wait(p)
       \/ runcmd_pipe(p) \/ runcmd_pipe_fork(p) \/ runcmd_left(p) \/ runcmd_right(p)
       \/ runcmd_pipe_close(p) \/ runcmd_pipe_wait(p) \/ runcmd_pipe_exit(p)
       \/ runcmd_back(p) \/ runcmd_back_exit(p) \/ fork1_fails(p)
       \/ program_write(p) \/ program_read(p) \/ program_copy(p)

Next == main_builtin \/ main_fork \/ main_fork_fails \/ Work

Spec == Init /\ [][Next]_vars /\ WF_vars(Work)

--------------------------------------------------------------------------------
(* The grammar of commands: every way to read the tokens i .. j. *)

RECURSIVE Simple(_, _, _)
Simple(L, i, j) ==
  CASE j < i -> {execcmd(<<>>)}
    [] j = i -> IF L[j] = "a" THEN {execcmd(<<j>>)} ELSE {}
    [] OTHER -> IF L[j] # "a" THEN {}
                ELSE IF L[j - 1] \in {"<", ">", "+"}
                     THEN {redircmd(c, L[j - 1], j) : c \in Simple(L, i, j - 2)}
                     ELSE {AddArg(c, j) : c \in Simple(L, i, j - 1)}

\* A number of redirections behind a block.
RECURSIVE Redirected(_, _, _, _)
Redirected(L, C, i, j) ==
  CASE j < i -> C
    [] j = i -> {}
    [] OTHER -> IF L[j] = "a" /\ L[j - 1] \in {"<", ">", "+"}
                THEN {redircmd(c, L[j - 1], j) : c \in Redirected(L, C, i, j - 2)}
                ELSE {}

RECURSIVE Piped(_, _, _)
RECURSIVE Backed(_, _, _)
RECURSIVE Listed(_, _, _)

RECURSIVE Argc(_)
Argc(c) == IF c.type = "EXEC" THEN Len(c.argv) ELSE Argc(c.cmd)

Command(L, i, j) ==
  {c \in Simple(L, i, j) : Argc(c) < MAXARGS} \cup
    IF i <= j /\ L[i] = "("
    THEN UNION {Redirected(L, Listed(L, i + 1, k - 1), k + 1, j) : k \in {m \in i + 1 .. j : L[m] = ")"}}
    ELSE {}

Splits(L, i, j, t) == {k \in i .. j : L[k] = t}

Piped(L, i, j) ==
  Command(L, i, j) \cup
    UNION {{pipecmd(l, r) : l \in Command(L, i, k - 1), r \in Piped(L, k + 1, j)} : k \in Splits(L, i, j, "|")}

Backed(L, i, j) ==
  Piped(L, i, j) \cup IF i <= j /\ L[j] = "&" THEN {backcmd(c) : c \in Backed(L, i, j - 1)} ELSE {}

Listed(L, i, j) ==
  Backed(L, i, j) \cup
    UNION {{listcmd(l, r) : l \in Backed(L, i, k - 1), r \in Listed(L, k + 1, j)} : k \in Splits(L, i, j, ";")}

--------------------------------------------------------------------------------
(* Properties. *)

TypeOK ==
  /\ pc \in {"prompt", "wait", "done", "exit"} /\ forkfailed \in BOOLEAN
  /\ \A p \in Pids : proc[p].st \in {"free", "zombie", "run"}
  /\ pipe \in [1 .. NPIPE -> 0 .. PIPESIZE]

\* The parser, which never looks more than one token ahead, finds the one reading that
\* the grammar has of a line, and panics if there is none.
ParsedAsWritten ==
  pc = "prompt" =>
    LET r == parsecmd(line)
    IN  Listed(line, 1, Len(line)) = IF r.ok THEN {r.cmd} ELSE {}

\* When the shell prompts again only processes of background commands are left, unless a
\* fork failed; and a program is started with its three descriptors and no others, so
\* that a pipe ends when its other side exits.
PromptMeansDone ==
  /\ pc = "done" /\ ~forkfailed => \A p \in Running : proc[p].bg
  /\ \A p \in Running : proc[p].at \in {"copy", "write"} =>
       {d \in 0 .. NFD - 1 : proc[p].fd[d] # Closed} = {0, 1, 2}

\* Every line that is begun is over at some time: no program waits for ever for input or
\* for room in a pipe, and no shell for a child, also when a fork or an open fails.
LineReturns == pc = "wait" ~> pc = "done" /\ Running = {}
================================================================================
