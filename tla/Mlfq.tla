---------------------------------- MODULE Mlfq -----------------------------------
(***************************************************************************)
(* The multi-level feedback queue of os/kernel/taskmgr.c on one CPU: the   *)
(* choice of scheduler(), the accounting of mlfq_tick, the boost that      *)
(* clockintr asks for every MLFQ_BOOST_TICKS ticks, and what sleep, fork   *)
(* and exit do to a process's level.                                       *)
(*                                                                         *)
(* mlfq_seq grows without bound; only the order of the stamps matters, so  *)
(* stamps are renumbered after every choice (0, for a process that has not *)
(* run yet, stays 0).  The wrap of the 32-bit counter is not modelled.     *)
(***************************************************************************)
EXTENDS Integers, FiniteSets

CONSTANTS
  NPROC,                \* the process table is 1 .. NPROC
  MLFQ_LEVELS,
  MLFQ_SLICE,           \* MLFQ_SLICE[level]: MLFQ_Q0_SLICE and so on
  MLFQ_BOOST_TICKS

Slots == 1 .. NPROC
Levels == 0 .. MLFQ_LEVELS - 1

\* What the constants must satisfy.
Constants ==
  /\ NPROC \in Nat /\ MLFQ_LEVELS \in Nat \ {0} /\ MLFQ_BOOST_TICKS \in Nat \ {0}
  /\ MLFQ_SLICE \in [Levels -> Nat \ {0}]

VARIABLES
  state,                \* p->state: UNUSED, RUNNABLE, RUNNING or SLEEPING
  level, used, stamp,   \* p->mlfq_level, mlfq_ticks_used, mlfq_stamp
  need_boost,
  ticks                 \* modulo MLFQ_BOOST_TICKS

vars == <<state, level, used, stamp, need_boost, ticks>>

TypeOK ==
  /\ state \in [Slots -> {"UNUSED", "RUNNABLE", "RUNNING", "SLEEPING"}]
  /\ level \in [Slots -> Levels]
  /\ used \in [Slots -> Nat]
  /\ stamp \in [Slots -> Nat]
  /\ need_boost \in BOOLEAN
  /\ ticks \in 0 .. MLFQ_BOOST_TICKS - 1

Having(s) == {p \in Slots : state[p] = s}

\* Any set of processes that have been created and have not run yet.
Init ==
  /\ state \in [Slots -> {"UNUSED", "RUNNABLE"}]
  /\ level = [p \in Slots |-> 0]
  /\ used = [p \in Slots |-> 0]
  /\ stamp = [p \in Slots |-> 0]
  /\ need_boost = FALSE
  /\ ticks = 0

--------------------------------------------------------------------------------
(* scheduler *)

\* Mutant: a boost does not change the levels.
boosted_none(f) == f

\* mlfq_boost_all on the levels or the used ticks.
boosted(f) == [p \in Slots |-> IF need_boost /\ state[p] # "UNUSED" THEN 0 ELSE f[p]]

\* p comes before q: a smaller level, then an older stamp, then the table's order.
Before(lv, p, q) ==
  \/ lv[p] < lv[q]
  \/ lv[p] = lv[q] /\ stamp[p] < stamp[q]
  \/ lv[p] = lv[q] /\ stamp[p] = stamp[q] /\ p < q

\* best->mlfq_stamp = ++mlfq_seq, renumbered.
restamped(best) ==
  LET s == [stamp EXCEPT ![best] = NPROC + 1]
  IN  [p \in Slots |-> Cardinality({s[q] : q \in {r \in Slots : s[r] # 0 /\ s[r] <= s[p]}})]

\* One pass of the loop, with interrupts off; wfi if there is nothing to run.
scheduler ==
  /\ Having("RUNNING") = {}
  /\ level' = boosted(level)
  /\ used' = boosted(used)
  /\ need_boost' = FALSE
  /\ \/ /\ Having("RUNNABLE") = {}
        /\ UNCHANGED <<state, stamp>>
     \/ \E best \in Having("RUNNABLE") :
          /\ \A q \in Having("RUNNABLE") \ {best} : Before(level', best, q)
          /\ state' = [state EXCEPT ![best] = "RUNNING"]
          /\ stamp' = restamped(best)
  /\ UNCHANGED ticks

--------------------------------------------------------------------------------
(* The timer *)

\* mlfq_tick on the running process p.
slice_over(p) == used[p] + 1 >= MLFQ_SLICE[level[p]]

used_after(p) == IF slice_over(p) THEN 0 ELSE used[p] + 1

level_after(p) ==
  IF slice_over(p) /\ level[p] < MLFQ_LEVELS - 1 THEN level[p] + 1 ELSE level[p]

\* clockintr, and the yield that follows it in usertrap and kerneltrap when a
\* process is running.  It wakes the processes in W, which sleep in pause.
clockintr(W) ==
  /\ ticks' = (ticks + 1) % MLFQ_BOOST_TICKS
  /\ need_boost' = (need_boost \/ ticks' = 0)
  /\ used' = [p \in Slots |-> IF state[p] = "RUNNING" THEN used_after(p) ELSE used[p]]
  /\ level' = [p \in Slots |-> IF state[p] = "RUNNING" THEN level_after(p) ELSE level[p]]
  /\ state' = [p \in Slots |-> IF state[p] = "RUNNING" \/ p \in W THEN "RUNNABLE" ELSE state[p]]
  /\ UNCHANGED stamp

--------------------------------------------------------------------------------
(* What processes and devices do *)

sleep(p) ==
  /\ state[p] = "RUNNING"
  /\ state' = [state EXCEPT ![p] = "SLEEPING"]
  /\ level' = [level EXCEPT ![p] = IF @ > 0 THEN @ - 1 ELSE 0]
  /\ used' = [used EXCEPT ![p] = 0]
  /\ UNCHANGED <<stamp, need_boost, ticks>>

\* By the running process, or by a device.
wakeup(p) ==
  /\ state[p] = "SLEEPING"
  /\ state' = [state EXCEPT ![p] = "RUNNABLE"]
  /\ UNCHANGED <<level, used, stamp, need_boost, ticks>>

kfork(np) ==
  /\ Having("RUNNING") # {}
  /\ state[np] = "UNUSED"
  /\ state' = [state EXCEPT ![np] = "RUNNABLE"]
  /\ level' = [level EXCEPT ![np] = 0]
  /\ used' = [used EXCEPT ![np] = 0]
  /\ stamp' = [stamp EXCEPT ![np] = 0]
  /\ UNCHANGED <<need_boost, ticks>>

\* kexit, with freeproc when the parent has waited.
kexit(p) ==
  /\ state[p] = "RUNNING"
  /\ state' = [state EXCEPT ![p] = "UNUSED"]
  /\ level' = [level EXCEPT ![p] = 0]
  /\ used' = [used EXCEPT ![p] = 0]
  /\ stamp' = [stamp EXCEPT ![p] = 0]
  /\ UNCHANGED <<need_boost, ticks>>

tick == \E W \in SUBSET Having("SLEEPING") : clockintr(W)

SystemStep ==
  \/ scheduler
  \/ tick
  \/ \E p \in Slots : sleep(p) \/ wakeup(p) \/ kexit(p)

Next == SystemStep \/ \E np \in Slots : kfork(np)

Spec == Init /\ [][Next]_vars

================================================================================
