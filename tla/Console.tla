--------------------------------- MODULE Console ---------------------------------
(***************************************************************************)
(* Console input (os/kernel/console.c): the ring cons.buf with the read,   *)
(* write and edit indices r, w and e, filled by consoleintr and emptied by *)
(* consoleread.  cons.lock is held from each test to the sleep or return.  *)
(* Echo is not modelled.                                                   *)
(***************************************************************************)
EXTENDS Integers, Sequences

CONSTANTS
  Readers,
  INPUT_BUF_SIZE,
  UINT,                 \* a uint counts modulo UINT (2^32 in the code)
  Chars, NL, EOF,       \* NL: '\n'; EOF: Control-D; Chars has both
  MAXN                  \* bound: how many characters a read asks for

\* What the constants must satisfy.
Constants ==
  /\ INPUT_BUF_SIZE \in Nat \ {0} /\ MAXN \in Nat \ {0}
  /\ UINT \in Nat /\ UINT > INPUT_BUF_SIZE /\ UINT % INPUT_BUF_SIZE = 0
  /\ NL \in Chars /\ EOF \in Chars /\ NL # EOF

VARIABLES
  buf, r, w, e,         \* struct cons
  pc,                   \* "user", "run" (in the loop), "asleep"
  n,                    \* how many characters a read still wants
  got,                  \* what it has copied out
  killed

cons == <<buf, r, w, e>>
vars == <<cons, pc, n, got, killed>>

Slots == 0 .. INPUT_BUF_SIZE - 1

TypeOK ==
  /\ buf \in [Slots -> Chars]
  /\ r \in 0 .. UINT - 1 /\ w \in 0 .. UINT - 1 /\ e \in 0 .. UINT - 1
  /\ pc \in [Readers -> {"user", "run", "asleep"}]
  /\ n \in [Readers -> 0 .. MAXN]
  /\ got \in [Readers -> Seq(Chars)]
  /\ killed \in [Readers -> BOOLEAN]

\* The zeros of buf are never read; any character stands for them.
Init ==
  /\ buf = [i \in Slots |-> NL]
  /\ r = 0 /\ w = 0 /\ e = 0
  /\ pc = [p \in Readers |-> "user"]
  /\ n = [p \in Readers |-> 0]
  /\ got = [p \in Readers |-> <<>>]
  /\ killed = [p \in Readers |-> FALSE]

\* a - b on uints.
minus(a, b) == (a - b) % UINT

--------------------------------------------------------------------------------
(* consoleintr *)

enters(c) == c \in {NL, EOF} \/ minus(e + 1, r) = INPUT_BUF_SIZE

\* wakeup(&cons.r)
woken == [p \in Readers |-> IF pc[p] = "asleep" THEN "run" ELSE pc[p]]

has_room == minus(e, r) < INPUT_BUF_SIZE

\* A character other than the editing keys.
consoleintr_char(c) ==
  /\ has_room
  /\ buf' = [buf EXCEPT ![e % INPUT_BUF_SIZE] = c]
  /\ e' = minus(e + 1, 0)
  /\ w' = IF enters(c) THEN e' ELSE w
  /\ pc' = IF enters(c) THEN woken ELSE pc
  /\ UNCHANGED <<r, n, got, killed>>

\* How many characters can still be edited; none of them is an end of line.
erasable == minus(e, w)

\* Control-H or Delete.
consoleintr_backspace ==
  /\ erasable > 0
  /\ e' = minus(e, 1)
  /\ UNCHANGED <<buf, r, w, pc, n, got, killed>>

\* Control-U.
consoleintr_kill ==
  /\ erasable > 0
  /\ \E k \in 0 .. erasable :
       /\ \A j \in 1 .. k : buf[minus(e, j) % INPUT_BUF_SIZE] # NL
       /\ k < erasable => buf[minus(e, k + 1) % INPUT_BUF_SIZE] = NL
       /\ e' = minus(e, k)
  /\ UNCHANGED <<buf, r, w, pc, n, got, killed>>

--------------------------------------------------------------------------------
(* consoleread *)

consoleread(p, k) ==
  /\ pc[p] = "user" /\ ~killed[p]
  /\ pc' = [pc EXCEPT ![p] = "run"]
  /\ n' = [n EXCEPT ![p] = k]
  /\ got' = [got EXCEPT ![p] = <<>>]
  /\ UNCHANGED <<cons, killed>>

at(j) == buf[minus(r + j - 1, 0) % INPUT_BUF_SIZE]

\* The loop of a read passes over k ordinary characters: up to and including an end of
\* line, up to and without an end-of-file.
takes(p, k) ==
  /\ k <= n[p] /\ k <= minus(w, r)
  /\ \A i \in 1 .. k : at(i) # EOF /\ (at(i) = NL => i = k)

line_ends(k) == k > 0 /\ at(k) = NL

Copy(p, k) == got' = [got EXCEPT ![p] = @ \o [j \in 1 .. k |-> at(j)]]

\* Mutant: an end-of-file after other characters is consumed.
eof_taken_always(p, k) == 1

\* cons.r-- unless the read has got nothing else.
eof_taken(p, k) == IF k = 0 /\ got[p] = <<>> THEN 1 ELSE 0

\* The loop runs until the read has all it wants, a line, or an end-of-file.
consoleread_ends(p) ==
  /\ pc[p] = "run"
  /\ \E k \in 0 .. n[p] :
       /\ takes(p, k) /\ Copy(p, k)
       /\ \/ /\ k = n[p] \/ line_ends(k)
             /\ r' = minus(r + k, 0)
          \/ /\ k < n[p] /\ ~line_ends(k) /\ k < minus(w, r) /\ at(k + 1) = EOF
             /\ r' = minus(r + k + eof_taken(p, k), 0)
  /\ pc' = [pc EXCEPT ![p] = "user"]
  /\ n' = [n EXCEPT ![p] = 0]
  /\ UNCHANGED <<buf, w, e, killed>>

\* either_copyout fails on the character after the first k.
consoleread_fails(p, k) ==
  /\ pc[p] = "run"
  /\ takes(p, k) /\ ~line_ends(k)
  /\ k < n[p] /\ k < minus(w, r) /\ at(k + 1) # EOF
  /\ r' = minus(r + k + 1, 0)
  /\ Copy(p, k)
  /\ pc' = [pc EXCEPT ![p] = "user"]
  /\ n' = [n EXCEPT ![p] = 0]
  /\ UNCHANGED <<buf, w, e, killed>>

\* Nothing is left and the read wants more: it sleeps, or fails if killed.
consoleread_waits(p) ==
  /\ pc[p] = "run"
  /\ LET k == minus(w, r)
     IN  /\ takes(p, k) /\ ~line_ends(k) /\ k < n[p]
         /\ r' = w
         /\ Copy(p, k)
         /\ \/ /\ ~killed[p]
               /\ pc' = [pc EXCEPT ![p] = "asleep"]
               /\ n' = [n EXCEPT ![p] = @ - k]
            \/ /\ killed[p]
               /\ pc' = [pc EXCEPT ![p] = "user"]
               /\ n' = [n EXCEPT ![p] = 0]
  /\ UNCHANGED <<buf, w, e, killed>>

kill_wakes(p) == [pc EXCEPT ![p] = IF @ = "asleep" THEN "run" ELSE @]

kkill(p) ==
  /\ killed' = [killed EXCEPT ![p] = TRUE]
  /\ pc' = kill_wakes(p)
  /\ UNCHANGED <<cons, n, got>>

--------------------------------------------------------------------------------
ReadStep(p) ==
  consoleread_ends(p) \/ consoleread_waits(p) \/ \E k \in 0 .. MAXN : consoleread_fails(p, k)

Next ==
  \/ \E c \in Chars : consoleintr_char(c)
  \/ consoleintr_backspace \/ consoleintr_kill
  \/ \E p \in Readers : ReadStep(p) \/ kkill(p) \/ \E k \in 1 .. MAXN : consoleread(p, k)

Spec == Init /\ [][Next]_vars

--------------------------------------------------------------------------------
(* Properties. *)

entered == [j \in 1 .. minus(w, r) |-> at(j)]
editing == [j \in 1 .. minus(e, w) |-> buf[minus(w + j - 1, 0) % INPUT_BUF_SIZE]]

Lines == INSTANCE LineQueue WITH Size <- INPUT_BUF_SIZE, Procs <- Readers

\* The ring with its three wrapping indices is a queue of entered lines and one
\* line being edited: nothing entered can be erased or overwritten, a read ends
\* with its line, and an end-of-file is returned by a read of its own.
ConsoleIsLineQueue == Lines!Spec

\* A reader sleeps only while nothing has been entered, and not after a kill.
NoLostLine ==
  \A p \in Readers : pc[p] = "asleep" => r = w /\ ~killed[p]
================================================================================
