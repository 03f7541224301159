--------------------------------- MODULE Memory ---------------------------------
(***************************************************************************)
(* What user programs may assume of their memory (os/kernel/addrspace.c):  *)
(* every process has pages of its own, fork copies them, a write is seen   *)
(* by the process that made it and by no other, and the heap grows with    *)
(* empty pages.                                                            *)
(***************************************************************************)
EXTENDS Naturals

CONSTANTS
  Procs, Pages, PGSIZE,
  Values, Zero, \* contents of a page; Zero while nothing was written to it
  Text,         \* the pages no write may change
  Loaded        \* the pages exec fills

VARIABLES
  live,         \* the processes that have an address space
  brk,          \* where the heap of each process ends
  mem           \* mem[p][v]: the contents of page v of process p

vars == <<live, brk, mem>>

Blank == [v \in Pages |-> Zero]
Images == {i \in [Pages -> Values] : \A v \in Pages : i[v] # Zero <=> v \in Loaded}

Init ==
  /\ \E p \in Procs : live = {p}
  /\ brk = [p \in Procs |-> 0]
  /\ mem = [p \in Procs |-> Blank]

Write(p, v, x) ==
  /\ p \in live /\ v \notin Text
  /\ mem' = [mem EXCEPT ![p][v] = x]
  /\ UNCHANGED <<live, brk>>

Fork(p, c) ==
  /\ p \in live /\ c \notin live
  /\ live' = live \cup {c}
  /\ brk' = [brk EXCEPT ![c] = brk[p]]
  /\ mem' = [mem EXCEPT ![c] = mem[p]]

Sbrk(p, end) ==
  /\ p \in live /\ end # brk[p]
  /\ brk' = [brk EXCEPT ![p] = end]
  /\ mem' = [mem EXCEPT ![p] = [v \in Pages |-> IF v * PGSIZE >= end THEN Zero ELSE @[v]]]
  /\ UNCHANGED live

Exec(p, image, end) ==
  /\ p \in live
  /\ brk' = [brk EXCEPT ![p] = end]
  /\ mem' = [mem EXCEPT ![p] = image]
  /\ UNCHANGED live

Exit(p) ==
  /\ live' = live \ {p}
  /\ brk' = [brk EXCEPT ![p] = 0]
  /\ mem' = [mem EXCEPT ![p] = Blank]

Next ==
  \E p \in Procs :
    \/ \E v \in Pages, x \in Values \ {Zero} : Write(p, v, x)
    \/ \E c \in Procs : Fork(p, c)
    \/ Sbrk(p, brk'[p])
    \/ \E image \in Images : Exec(p, image, brk'[p])
    \/ Exit(p)

Spec == Init /\ [][Next]_vars
================================================================================
