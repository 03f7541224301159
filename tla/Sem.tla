----------------------------------- MODULE Sem -----------------------------------
(***************************************************************************)
(* One semaphore of os/kernel/sem.c: sem_wait, sem_post and sem_destroy by *)
(* processes that share its file, and kills that end a wait.  s->lock is   *)
(* held from the test of s->value to the sleep, so that is one step.       *)
(*                                                                         *)
(* The processes use the semaphore in the two ways of user/semtest.c: to   *)
(* share resources (what a wait got, a post gives back) and to signal (a   *)
(* post by a process that holds nothing adds a resource).                  *)
(***************************************************************************)
EXTENDS Integers, FiniteSets

CONSTANTS
  Procs,
  N,            \* the value given to sem_create
  MaxTotal      \* bound: signals stop when there are so many resources

\* What the constants must satisfy.
Constants == N \in Nat /\ MaxTotal \in Nat /\ N <= MaxTotal

VARIABLES
  value, destroyed,     \* the fields of struct semaphore
  pc,                   \* "user", "wait" (at the first loop test), "asleep", "woken" (at the
                        \* test after a sleep) or "gone"
  killed,               \* p->killed
  holds,                \* how many resources each process has
  total                 \* N and one more for every signal

vars == <<value, destroyed, pc, killed, holds, total>>

TypeOK ==
  /\ value \in Nat
  /\ destroyed \in BOOLEAN
  /\ pc \in [Procs -> {"user", "wait", "asleep", "woken", "gone"}]
  /\ killed \in [Procs -> BOOLEAN]
  /\ holds \in [Procs -> Nat]
  /\ total \in N .. MaxTotal

Init ==
  /\ value = N
  /\ destroyed = FALSE
  /\ pc = [p \in Procs |-> "user"]
  /\ killed = [p \in Procs |-> FALSE]
  /\ holds = [p \in Procs |-> 0]
  /\ total = N

\* wakeup(s).
WakeAll == [p \in Procs |-> IF pc[p] = "asleep" THEN "woken" ELSE pc[p]]

--------------------------------------------------------------------------------
\* The system call starts; a killed process exits instead.
sys_sem_wait(p) ==
  /\ pc[p] = "user" /\ ~killed[p]
  /\ pc' = [pc EXCEPT ![p] = "wait"]
  /\ UNCHANGED <<value, destroyed, killed, holds, total>>

\* The test of the loop, made again after every sleep.
AtTest(p) == pc[p] \in {"wait", "woken"}

\* Mutant: a process that was woken does not look again, as with if for while.
may_take_woken(p) == value > 0 \/ pc[p] = "woken"

may_take(p) == value > 0

\* s->value > 0, whatever else is true.
sem_wait_take(p) ==
  /\ AtTest(p) /\ may_take(p)
  /\ value' = value - 1
  /\ holds' = [holds EXCEPT ![p] = @ + 1]
  /\ pc' = [pc EXCEPT ![p] = "user"]
  /\ UNCHANGED <<destroyed, killed, total>>

sem_wait_fail(p) ==
  /\ AtTest(p) /\ value <= 0
  /\ destroyed \/ killed[p]
  /\ pc' = [pc EXCEPT ![p] = "user"]
  /\ UNCHANGED <<value, destroyed, killed, holds, total>>

\* Mutant: a process sleeps without another look at destroyed and killed.
may_sleep_always(p) == value <= 0

may_sleep(p) == value <= 0 /\ ~destroyed /\ ~killed[p]

sem_wait_sleep(p) ==
  /\ AtTest(p)
  /\ may_sleep(p)
  /\ pc' = [pc EXCEPT ![p] = "asleep"]
  /\ UNCHANGED <<value, destroyed, killed, holds, total>>

post_wakes == WakeAll

sys_sem_post(p) ==
  /\ pc[p] = "user" /\ ~killed[p]
  /\ value' = value + 1
  /\ pc' = post_wakes
  /\ \/ /\ holds[p] > 0
        /\ holds' = [holds EXCEPT ![p] = @ - 1]
        /\ UNCHANGED total
     \/ /\ holds[p] = 0 /\ total < MaxTotal
        /\ total' = total + 1
        /\ UNCHANGED holds
  /\ UNCHANGED <<destroyed, killed>>

destroy_wakes == WakeAll

\* The descriptor is closed as well; p may have another one (dup).
sys_sem_destroy(p) ==
  /\ pc[p] = "user" /\ ~killed[p]
  /\ destroyed' = TRUE
  /\ \E next \in {"user", "gone"} : pc' = [destroy_wakes EXCEPT ![p] = next]
  /\ UNCHANGED <<value, killed, holds, total>>

--------------------------------------------------------------------------------
\* kkill(p).
kkill(p) ==
  /\ pc[p] # "gone"
  /\ killed' = [killed EXCEPT ![p] = TRUE]
  /\ pc' = [pc EXCEPT ![p] = IF @ = "asleep" THEN "woken" ELSE @]
  /\ UNCHANGED <<value, destroyed, holds, total>>

\* usertrap: a killed process exits, with its resource if it has one.
usertrap_exit(p) ==
  /\ pc[p] = "user" /\ killed[p]
  /\ pc' = [pc EXCEPT ![p] = "gone"]
  /\ UNCHANGED <<value, destroyed, killed, holds, total>>

\* Every process has exited or closed the semaphore.
Done == (\A p \in Procs : pc[p] = "gone") /\ UNCHANGED vars

WaitStep(p) == sem_wait_take(p) \/ sem_wait_fail(p) \/ sem_wait_sleep(p)

Next ==
  \/ \E p \in Procs :
       \/ sys_sem_wait(p) \/ WaitStep(p) \/ sys_sem_post(p) \/ sys_sem_destroy(p)
       \/ kkill(p) \/ usertrap_exit(p)
  \/ Done

Spec == Init /\ [][Next]_vars

--------------------------------------------------------------------------------
(* Properties. *)

\* The resources that processes have, each with its number among those of its process.
Held == UNION {{p} \X (1 .. holds[p]) : p \in Procs}

\* The processes never have more resources than there are, and the value is exactly the
\* number of those left: of the sleepers that one post wakes only one gets through, the
\* others find nothing and sleep again, and no post is lost.
ResourcesConserved ==
  /\ Cardinality(Held) <= total
  /\ value = total - Cardinality(Held)

\* Nobody sleeps in sem_wait while there is a resource to take, after the
\* semaphore was destroyed, or after a kill: no wakeup falls between the test of
\* the value and the sleep.
NoLostPost ==
  \A p \in Procs : pc[p] = "asleep" => value = 0 /\ ~destroyed /\ ~killed[p]
================================================================================
