----------------------------- MODULE KernelProofs ------------------------------
(***************************************************************************)
(* Proofs about the two tables that the kernel hands things out from, and  *)
(* about its serial line.                                                  *)
(*                                                                         *)
(* The process table (Proc), of any size: no process loses its parent, no  *)
(* exit is missed and no zombie runs again.  The pages (Kalloc), for any   *)
(* memory and any number of orders: none is lost or given to two owners.   *)
(* The UART (Uart), for any number of writers: nobody waits for an         *)
(* interrupt that will not come.                                           *)
(***************************************************************************)
EXTENDS Proc, TLAPS

--------------------------------------------------------------------------------
(* Processes. *)

Awake == {"RUNNABLE", "RUNNING"}

\* Where a process can be in each of its states, and what it sleeps on.
PlaceInv ==
  \A p \in Slots :
    /\ state[p] \in {"UNUSED", "USED"} <=> pc[p] = "none"
    /\ state[p] = "ZOMBIE" => pc[p] = "exit"
    /\ state[p] = "SLEEPING" =>
         \/ pc[p] = "wait" /\ chan[p] = p
         \/ pc[p] = "pause" /\ chan[p] = ticks
         \/ pc[p] = "exit" /\ chan[p] = disk

\* A child under construction belongs to one kfork, which sets its parent.
ForkInv ==
  \A p \in Slots :
    /\ pc[p] \in {"fork1", "fork2"} <=> child[p] # NULL
    /\ child[p] # NULL =>
         /\ state[p] \in Awake
         /\ state[child[p]] = "USED"
         /\ parent[child[p]] = IF pc[p] = "fork1" THEN NULL ELSE p
         /\ \A q \in Slots : child[q] = child[p] => q = p

\* The parent of a process can still wait for it; a free slot has none.
ParentInv ==
  \A q \in Slots :
    /\ parent[q] # NULL => Live(parent[q]) /\ state[q] # "UNUSED"
    /\ state[q] \notin {"UNUSED", "USED"} /\ q # initproc => parent[q] # NULL

\* init never becomes a zombie, and has a shell whenever it waits.
InitInv ==
  /\ Live(initproc) /\ parent[initproc] = NULL
  /\ pc[initproc] \in {"user", "sys", "fork1", "fork2", "wait", "exit"}
  /\ pc[initproc] \in {"fork1", "fork2"} => shell = child[initproc]
  /\ shell # NULL => shell \in Kids(initproc) \/ pc[initproc] = "fork1"
  /\ pc[initproc] = "wait" => shell # NULL

IInv == TypeOK /\ PlaceInv /\ ForkInv /\ ParentInv /\ InitInv /\ NoLostExit

\* What makes init exit, and stays so until the kernel has panicked.
Doomed == killed[initproc] \/ shell = NULL
PanicInv == pc[initproc] = "exit" \/ halted => Doomed

--------------------------------------------------------------------------------
(* The invariant holds initially and every step preserves it. *)

LEMMA InitIInv == Init => IInv
<1> SUFFICES ASSUME Init PROVE IInv
  OBVIOUS
<1>1. TypeOK
  <2>1. killed \in [Slots -> BOOLEAN] /\ halted \in BOOLEAN
    BY Zenon DEF Init
  <2>. QED BY <2>1, ProcAssumption, Zenon DEF ProcAssumption, Init, TypeOK, States, PCs, Chans
<1>. QED
  BY <1>1, ProcAssumption, Zenon
  DEF ProcAssumption, Init, IInv, PlaceInv, ForkInv, ParentInv, InitInv, NoLostExit, Live

\* A step in which p only moves from one place outside kfork to another.
LEMMA MoveIInv ==
  ASSUME IInv, NEW p \in Slots, state[p] = "RUNNING",
         NEW to \in PCs, pc' = [pc EXCEPT ![p] = to],
         pc[p] \notin {"fork1", "fork2"}, to \notin {"none", "fork1", "fork2"},
         p = initproc => to \in {"user", "sys", "wait", "exit"} /\ (to = "wait" => shell # NULL),
         UNCHANGED <<state, parent, chan, killed, child, shell, halted>>
  PROVE  IInv'
<1>0. TypeOK /\ PlaceInv /\ ForkInv /\ ParentInv /\ InitInv /\ NoLostExit
  BY Zenon DEF IInv
<1>1. TypeOK'
  BY <1>0, Zenon DEF TypeOK
<1>2. \A q \in Slots : pc'[q] = IF q = p THEN to ELSE pc[q]
  BY <1>0, Zenon DEF TypeOK
<1>3. PlaceInv'
  BY <1>0, <1>2, ZenonT(60) DEF PlaceInv
<1>4. ForkInv'
  BY <1>0, <1>2 DEF ForkInv
<1>5. ParentInv'
  BY <1>0, Zenon DEF ParentInv, Live
<1>6. InitInv'
  BY <1>0, <1>2, ProcAssumption, Zenon DEF ProcAssumption, InitInv, Live, Kids
<1>7. NoLostExit'
  BY <1>0, <1>2, Zenon DEF NoLostExit, Kids, Zombies
<1>. QED
  BY <1>1, <1>3, <1>4, <1>5, <1>6, <1>7, Zenon DEF IInv

LEMMA SchedulerIInv ==
  ASSUME IInv, NEW p \in Slots, scheduler(p)
  PROVE  IInv'
<1> USE DEF scheduler
<1>0. TypeOK /\ PlaceInv /\ ForkInv /\ ParentInv /\ InitInv /\ NoLostExit
  BY Zenon DEF IInv
<1>1. TypeOK'
  BY <1>0, Zenon DEF TypeOK, States
<1>2. \A q \in Slots : /\ state'[q] = IF q = p THEN "RUNNING" ELSE state[q]
                       /\ chan'[q] = IF q = p THEN NULL ELSE chan[q]
  BY <1>0, Zenon DEF TypeOK
<1>3. PlaceInv'
  BY <1>0, <1>2 DEF PlaceInv
<1>4. ForkInv'
  BY <1>0, <1>2, ProcAssumption DEF ProcAssumption, ForkInv, TypeOK, Awake
<1>5. ParentInv'
  BY <1>0, <1>2 DEF ParentInv, Live, TypeOK
<1>6. InitInv'
  BY <1>0, <1>2, ProcAssumption DEF ProcAssumption, InitInv, Live, Kids
<1>7. NoLostExit'
  BY <1>0, <1>2 DEF NoLostExit, Kids, Zombies
<1>. QED
  BY <1>1, <1>3, <1>4, <1>5, <1>6, <1>7, Zenon DEF IInv

\* Processes only become RUNNABLE, from SLEEPING or (p) from RUNNING.
LEMMA ReadyIInv ==
  ASSUME IInv, state' \in [Slots -> States],
         \A q \in Slots : state'[q] = state[q]
                          \/ (state[q] \in {"SLEEPING", "RUNNING"} /\ state'[q] = "RUNNABLE"),
         UNCHANGED <<parent, chan, killed, pc, child, shell, halted>>
  PROVE  IInv'
<1>0. TypeOK /\ PlaceInv /\ ForkInv /\ ParentInv /\ InitInv /\ NoLostExit
  BY Zenon DEF IInv
<1>1. TypeOK'
  BY <1>0, Zenon DEF TypeOK
<1>3. PlaceInv'
  BY <1>0, Zenon DEF PlaceInv
<1>4. ForkInv'
  <2>1. \A q \in Slots : child[q] # NULL => child[q] \in Slots
    BY <1>0, Zenon DEF TypeOK
  <2>2. \A q \in Slots : state[q] \in Awake => state'[q] \in Awake
    BY Zenon DEF Awake
  <2>3. \A q \in Slots : state[q] = "USED" => state'[q] = "USED"
    OBVIOUS
  <2>. QED BY <1>0, <2>1, <2>2, <2>3 DEF ForkInv
<1>5. ParentInv'
  BY <1>0, Zenon DEF ParentInv, Live, TypeOK
<1>6. InitInv'
  BY <1>0, ProcAssumption, Zenon DEF ProcAssumption, InitInv, Live, Kids
<1>7. NoLostExit'
  BY <1>0 DEF NoLostExit, Kids, Zombies
<1>. QED
  BY <1>1, <1>3, <1>4, <1>5, <1>6, <1>7, Zenon DEF IInv

LEMMA YieldIInv ==
  ASSUME IInv, NEW p \in Slots, yield(p)
  PROVE  IInv'
BY ReadyIInv, Zenon DEF yield, IInv, TypeOK, States

LEMMA DevintrIInv ==
  ASSUME IInv, NEW c, devintr(c)
  PROVE  IInv'
BY ReadyIInv, Zenon DEF devintr, Wake, IInv, TypeOK, States

LEMMA ForkIInv ==
  ASSUME IInv, NEW p \in Slots, kfork(p)
  PROVE  IInv'
<1>0. TypeOK /\ PlaceInv /\ ForkInv /\ ParentInv /\ InitInv /\ NoLostExit
  BY Zenon DEF IInv
<1> PICK np \in Slots : /\ allocproc(np)
                        /\ child' = [child EXCEPT ![p] = np]
                        /\ shell' = IF p = initproc THEN np ELSE shell
  BY Zenon DEF kfork
<1>1. /\ state[np] = "UNUSED" /\ state[p] = "RUNNING" /\ np # p /\ pc[p] = "sys"
      /\ state' = [state EXCEPT ![np] = "USED"] /\ pc' = [pc EXCEPT ![p] = "fork1"]
      /\ UNCHANGED <<parent, chan, killed, halted>>
  BY Zenon DEF kfork, allocproc, First, At
<1>2. TypeOK'
  <2>1. killed' \in [Slots -> BOOLEAN] /\ halted' \in BOOLEAN
    BY <1>0, <1>1, Zenon DEF TypeOK
  <2>. QED BY <1>0, <1>1, <2>1, Zenon DEF TypeOK, States, PCs
<1>3. \A q \in Slots : /\ state'[q] = IF q = np THEN "USED" ELSE state[q]
                       /\ pc'[q] = IF q = p THEN "fork1" ELSE pc[q]
                       /\ child'[q] = IF q = p THEN np ELSE child[q]
  BY <1>0, <1>1, Zenon DEF TypeOK
<1>4. PlaceInv'
  BY <1>0, <1>1, <1>3 DEF PlaceInv
<1>5. ForkInv'
  <2>1. parent[np] = NULL /\ \A q \in Slots : child[q] # np
    BY <1>0, <1>1, ProcAssumption DEF ProcAssumption, ParentInv, ForkInv
  <2>2. np # NULL /\ \A q \in Slots : child[q] # NULL => child[q] \in Slots
    BY <1>0, ProcAssumption, Zenon DEF ProcAssumption, TypeOK
  <2>. QED BY <1>0, <1>1, <1>3, <2>1, <2>2 DEF ForkInv, Awake
<1>6. ParentInv'
  BY <1>0, <1>1, <1>3 DEF ParentInv, Live, TypeOK
<1>7. InitInv'
  BY <1>0, <1>1, <1>3, ProcAssumption DEF ProcAssumption, InitInv, Live, Kids
<1>8. NoLostExit'
  BY <1>0, <1>1, <1>3 DEF NoLostExit, Kids, Zombies
<1>. QED
  BY <1>2, <1>4, <1>5, <1>6, <1>7, <1>8, Zenon DEF IInv

\* What the two remaining steps of kfork know of the child.
LEMMA ChildFacts ==
  ASSUME IInv, NEW p \in Slots, pc[p] \in {"fork1", "fork2"}
  PROVE  /\ child[p] \in Slots \ {p, initproc}
         /\ state[child[p]] = "USED" /\ pc[child[p]] = "none"
         /\ parent[child[p]] = IF pc[p] = "fork1" THEN NULL ELSE p
         /\ \A q \in Slots : child[q] = child[p] => q = p
         /\ child[child[p]] = NULL
<1>1. TypeOK /\ PlaceInv /\ ForkInv /\ InitInv
  BY Zenon DEF IInv
<1>2. child[p] # NULL /\ child[p] \in Slots
  BY <1>1 DEF ForkInv, TypeOK
<1>3. /\ state[child[p]] = "USED" /\ state[p] \in Awake
      /\ parent[child[p]] = IF pc[p] = "fork1" THEN NULL ELSE p
      /\ \A q \in Slots : child[q] = child[p] => q = p
  BY <1>1, <1>2, Zenon DEF ForkInv
<1>4. pc[child[p]] = "none"
  BY <1>1, <1>2, <1>3, Zenon DEF PlaceInv
<1>5. child[p] # p /\ child[p] # initproc
  BY <1>1, <1>4, Zenon DEF InitInv
<1>6. child[child[p]] = NULL
  BY <1>1, <1>2, <1>4, Zenon DEF ForkInv
<1>. QED
  BY <1>2, <1>3, <1>4, <1>5, <1>6, Zenon

LEMMA ForkParentIInv ==
  ASSUME IInv, NEW p \in Slots, kfork_parent(p)
  PROVE  IInv'
<1>0. TypeOK /\ PlaceInv /\ ForkInv /\ ParentInv /\ InitInv /\ NoLostExit
  BY Zenon DEF IInv
<1> DEFINE c == child[p]
<1>1. /\ state[p] = "RUNNING" /\ pc[p] = "fork1"
      /\ parent' = [parent EXCEPT ![c] = p] /\ pc' = [pc EXCEPT ![p] = "fork2"]
      /\ UNCHANGED <<state, chan, killed, child, shell, halted>>
  BY Zenon DEF kfork_parent, At
<1>2. /\ c \in Slots \ {p, initproc} /\ state[c] = "USED" /\ pc[c] = "none"
      /\ parent[c] = NULL /\ \A q \in Slots : child[q] = c => q = p
  BY <1>1, ChildFacts, Zenon
<1> HIDE DEF c
<1>3. TypeOK'
  BY <1>0, <1>1, <1>2, Zenon DEF TypeOK, PCs
<1>4. \A q \in Slots : /\ parent'[q] = IF q = c THEN p ELSE parent[q]
                       /\ pc'[q] = IF q = p THEN "fork2" ELSE pc[q]
  BY <1>0, <1>1, <1>2, Zenon DEF TypeOK
<1>5. PlaceInv'
  BY <1>0, <1>1, <1>4 DEF PlaceInv
<1>6. ForkInv'
  <2>1. \A q \in Slots : child[q] # NULL => child[q] \in Slots
    BY <1>0, Zenon DEF TypeOK
  <2>. QED BY <1>0, <1>1, <1>2, <1>4, <2>1 DEF ForkInv, c
<1>7. ParentInv'
  BY <1>0, <1>1, <1>2, <1>4, Zenon DEF ParentInv, Live, TypeOK
<1>8. InitInv'
  <2>1. Kids(initproc) \subseteq Kids(initproc)'
    BY <1>2, <1>4, ProcAssumption, Zenon DEF ProcAssumption, Kids
  <2>2. p = initproc => shell = c /\ c \in Kids(initproc)'
    BY <1>0, <1>1, <1>2, <1>4, Zenon DEF InitInv, Kids, c
  <2>. QED
    BY <1>0, <1>1, <1>2, <1>4, <2>1, <2>2, ProcAssumption DEF ProcAssumption, InitInv, Live
<1>9. NoLostExit'
  BY <1>0, <1>1, <1>2, <1>4, ProcAssumption, SMTT(60) DEF ProcAssumption, NoLostExit, Kids, Zombies
<1>. QED
  BY <1>3, <1>5, <1>6, <1>7, <1>8, <1>9, Zenon DEF IInv

LEMMA ForkRunIInv ==
  ASSUME IInv, NEW p \in Slots, kfork_run(p)
  PROVE  IInv'
<1>0. TypeOK /\ PlaceInv /\ ForkInv /\ ParentInv /\ InitInv /\ NoLostExit
  BY Zenon DEF IInv
<1> DEFINE c == child[p]
<1>1. /\ state[p] = "RUNNING" /\ pc[p] = "fork2"
      /\ state' = [state EXCEPT ![c] = "RUNNABLE"]
      /\ pc' = [pc EXCEPT ![p] = "user", ![c] = "user"]
      /\ child' = [child EXCEPT ![p] = NULL]
      /\ UNCHANGED <<parent, chan, killed, shell, halted>>
  BY Zenon DEF kfork_run, At
<1>2. /\ c \in Slots \ {p, initproc} /\ state[c] = "USED" /\ pc[c] = "none"
      /\ parent[c] = p /\ \A q \in Slots : child[q] = c => q = p
      /\ child[c] = NULL
  BY <1>1, ChildFacts, Zenon
<1> HIDE DEF c
<1>3. TypeOK'
  <2>1. killed' \in [Slots -> BOOLEAN] /\ halted' \in BOOLEAN
    BY <1>0, <1>1, Zenon DEF TypeOK
  <2>. QED BY <1>0, <1>1, <1>2, <2>1, Zenon DEF TypeOK, PCs, States
<1>4. \A q \in Slots : /\ state'[q] = IF q = c THEN "RUNNABLE" ELSE state[q]
                       /\ pc'[q] = IF q = p \/ q = c THEN "user" ELSE pc[q]
                       /\ child'[q] = IF q = p THEN NULL ELSE child[q]
  BY <1>0, <1>1, <1>2, Zenon DEF TypeOK
<1>5. PlaceInv'
  <2>1. PlaceInv /\ chan' = chan
    BY <1>0, <1>1, Zenon
  <2>2. state'[p] = "RUNNING" /\ pc'[p] = "user" /\ state'[c] = "RUNNABLE" /\ pc'[c] = "user"
    BY <1>1, <1>2, <1>4, Zenon
  <2>3. \A q \in Slots \ {p, c} : state'[q] = state[q] /\ pc'[q] = pc[q]
    BY <1>4, Zenon
  <2>. QED BY <2>1, <2>2, <2>3, ZenonT(60) DEF PlaceInv
<1>6. ForkInv'
  <2>1. \A q \in Slots : child[q] # NULL => child[q] \in Slots
    BY <1>0, Zenon DEF TypeOK
  <2>2. ForkInv /\ parent' = parent
    BY <1>0, <1>1, Zenon
  <2>3. /\ child'[p] = NULL /\ pc'[p] = "user"
        /\ child'[c] = NULL /\ pc'[c] = "user"
    BY <1>1, <1>2, <1>4, Zenon
  <2>4. \A q \in Slots \ {p, c} :
          /\ state'[q] = state[q] /\ pc'[q] = pc[q] /\ child'[q] = child[q] /\ child[q] # c
    BY <1>2, <1>4, Zenon
  <2>5. \A q \in Slots \ {p, c} : child[q] # NULL => child[q] # p
    BY <1>1, <2>2, Zenon DEF ForkInv
  <2>. QED BY <2>1, <2>2, <2>3, <2>4, <2>5 DEF ForkInv
<1>7. ParentInv'
  BY <1>0, <1>1, <1>2, <1>4, ProcAssumption DEF ProcAssumption, ParentInv, Live, TypeOK
<1>8. InitInv'
  <2>1. Kids(initproc)' = Kids(initproc) /\ UNCHANGED <<parent, killed, shell>>
    BY <1>1, Zenon DEF Kids
  <2>2. Live(initproc)'
    BY <1>0, <1>2, <1>4, ProcAssumption, Zenon DEF ProcAssumption, InitInv, Live
  <2>3. CASE p = initproc
    <3>1. pc[initproc] = "fork2" /\ pc'[initproc] = "user"
      BY <1>1, <1>2, <1>4, <2>3, Zenon
    <3>. QED BY <1>0, <2>1, <2>2, <3>1, Zenon DEF InitInv
  <2>4. CASE p # initproc
    <3>1. pc'[initproc] = pc[initproc] /\ child'[initproc] = child[initproc]
      BY <1>2, <1>4, <2>4, ProcAssumption, Zenon DEF ProcAssumption
    <3>. QED BY <1>0, <2>1, <2>2, <3>1, Zenon DEF InitInv
  <2>. QED BY <2>3, <2>4, Zenon
<1>9. NoLostExit'
  BY <1>0, <1>1, <1>2, <1>4 DEF NoLostExit, Kids, Zombies
<1>. QED
  BY <1>3, <1>5, <1>6, <1>7, <1>8, <1>9, Zenon DEF IInv
LEMMA SleepIInv ==
  ASSUME IInv, NEW p \in Slots, NEW c \in Chans, sleep(p, c),
         \/ At(p, "exit") /\ c = disk
         \/ At(p, "pause") /\ c = ticks,
         UNCHANGED <<parent, killed, pc, child, shell, halted>>
  PROVE  IInv'
<1>0. TypeOK /\ PlaceInv /\ ForkInv /\ ParentInv /\ InitInv /\ NoLostExit
  BY Zenon DEF IInv
<1>1. /\ state[p] = "RUNNING" /\ ((pc[p] = "exit" /\ c = disk) \/ (pc[p] = "pause" /\ c = ticks))
      /\ state' = [state EXCEPT ![p] = "SLEEPING"] /\ chan' = [chan EXCEPT ![p] = c]
  BY Zenon DEF At, sleep
<1>2. TypeOK'
  BY <1>0, <1>1, Zenon DEF TypeOK, States, Chans
<1>3. \A q \in Slots : /\ state'[q] = IF q = p THEN "SLEEPING" ELSE state[q]
                       /\ chan'[q] = IF q = p THEN c ELSE chan[q]
  BY <1>0, <1>1, Zenon DEF TypeOK
<1>4. PlaceInv'
  BY <1>0, <1>1, <1>3 DEF PlaceInv
<1>5. ForkInv'
  <2>1. child[p] = NULL
    BY <1>0, <1>1, Zenon DEF ForkInv
  <2>2. \A q \in Slots : child[q] # NULL => child[q] \in Slots /\ child[q] # p
    BY <1>0, <1>1, ZenonT(60) DEF TypeOK, ForkInv
  <2>. QED BY <1>0, <1>3, <2>1, <2>2 DEF ForkInv
<1>6. ParentInv'
  BY <1>0, <1>1, <1>3 DEF ParentInv, Live, TypeOK
<1>7. InitInv'
  <2>1. Live(initproc)'
    BY <1>0, <1>3, ProcAssumption DEF ProcAssumption, InitInv, Live
  <2>2. Kids(initproc)' = Kids(initproc)
    BY Zenon DEF Kids
  <2>. QED BY <1>0, <2>1, <2>2, Zenon DEF InitInv
<1>8. NoLostExit'
  BY <1>0, <1>1, <1>3 DEF NoLostExit, Kids, Zombies
<1>. QED
  BY <1>2, <1>4, <1>5, <1>6, <1>7, <1>8, Zenon DEF IInv

LEMMA WaitSleepIInv ==
  ASSUME IInv, NEW p \in Slots, kwait_sleep(p)
  PROVE  IInv'
<1>0. TypeOK /\ PlaceInv /\ ForkInv /\ ParentInv /\ InitInv /\ NoLostExit
  BY Zenon DEF IInv
<1>1. /\ state[p] = "RUNNING" /\ pc[p] = "wait"
      /\ Zombies(p) = {} /\ Kids(p) # {} /\ ~killed[p]
      /\ state' = [state EXCEPT ![p] = "SLEEPING"] /\ chan' = [chan EXCEPT ![p] = p]
      /\ UNCHANGED <<parent, killed, pc, child, shell, halted>>
  BY Zenon DEF At, sleep, kwait_sleep
<1>2. TypeOK'
  <2>1. killed' \in [Slots -> BOOLEAN] /\ halted' \in BOOLEAN
    BY <1>0, <1>1, Zenon DEF TypeOK
  <2>. QED BY <1>0, <1>1, <2>1, Zenon DEF TypeOK, States, Chans
<1>3. \A q \in Slots : /\ state'[q] = IF q = p THEN "SLEEPING" ELSE state[q]
                       /\ chan'[q] = IF q = p THEN p ELSE chan[q]
  BY <1>0, <1>1, Zenon DEF TypeOK
<1>4. PlaceInv'
  BY <1>0, <1>1, <1>3 DEF PlaceInv
<1>5. ForkInv'
  <2>1. child[p] = NULL
    BY <1>0, <1>1, Zenon DEF ForkInv
  <2>2. \A q \in Slots : child[q] # NULL => child[q] \in Slots /\ child[q] # p
    BY <1>0, <1>1 DEF TypeOK, ForkInv
  <2>. QED BY <1>0, <1>1, <1>3, <2>1, <2>2 DEF ForkInv
<1>6. ParentInv'
  BY <1>0, <1>1, <1>3 DEF ParentInv, Live, TypeOK
<1>7. InitInv'
  BY <1>0, <1>1, <1>3, ProcAssumption DEF ProcAssumption, InitInv, Live, Kids
<1>8. NoLostExit'
  BY <1>0, <1>1, <1>3 DEF NoLostExit, Kids, Zombies
<1>. QED
  BY <1>2, <1>4, <1>5, <1>6, <1>7, <1>8, Zenon DEF IInv
LEMMA ExitFinalIInv ==
  ASSUME IInv, NEW p \in Slots, kexit_final(p)
  PROVE  IInv'
<1>0. TypeOK /\ PlaceInv /\ ForkInv /\ ParentInv /\ InitInv /\ NoLostExit
  BY Zenon DEF IInv
<1>1. /\ state[p] = "RUNNING" /\ pc[p] = "exit" /\ parent' = reparent(p)
      /\ state' = [Wake(exit_wakes(p), state) EXCEPT ![p] = "ZOMBIE"]
      /\ UNCHANGED <<chan, killed, pc, child, shell, halted>>
  BY Zenon DEF At, kexit_final
<1>2. p # initproc /\ parent[p] # NULL /\ child[p] = NULL
  BY <1>0, <1>1, Zenon DEF kexit_final, ParentInv, ForkInv
<1>3. \A q \in Slots :
        /\ parent'[q] = IF parent[q] = p THEN initproc ELSE parent[q]
        /\ state'[q] = IF q = p THEN "ZOMBIE"
                       ELSE IF state[q] = "SLEEPING" /\ chan[q] \in exit_wakes(p)
                            THEN "RUNNABLE" ELSE state[q]
  BY <1>1, Zenon DEF Wake, reparent
<1>4. TypeOK'
  <2>1. parent' \in [Slots -> Slots \cup {NULL}]
    BY <1>0, <1>1, ProcAssumption, Zenon DEF ProcAssumption, TypeOK, reparent
  <2>2. state' \in [Slots -> States]
    BY <1>0, <1>1, Zenon DEF TypeOK, Wake, States
  <2>. QED BY <1>0, <1>1, <2>1, <2>2, Zenon DEF TypeOK
<1>5. PlaceInv'
  <2>1. \A q \in Slots : state'[q] = "SLEEPING" => state[q] = "SLEEPING"
    BY <1>3, Zenon
  <2>2. \A q \in Slots : state'[q] \in {"UNUSED", "USED"} <=> state[q] \in {"UNUSED", "USED"}
    BY <1>1, <1>3
  <2>3. \A q \in Slots : state'[q] = "ZOMBIE" => state[q] = "ZOMBIE" \/ q = p
    BY <1>3, Zenon
  <2>. QED BY <1>0, <1>1, <2>1, <2>2, <2>3, Zenon DEF PlaceInv
<1>6. ForkInv'
  <2>1. \A q \in Slots : child[q] # NULL => child[q] \in Slots /\ q # p
    BY <1>0, <1>2, Zenon DEF TypeOK
  <2>2. \A q \in Slots \ {p} : state[q] \in Awake \cup {"USED"} => state'[q] = state[q]
    BY <1>3, Zenon DEF Awake
  <2>3. \A q \in Slots : child[q] # NULL =>
          state'[child[q]] = "USED" /\ parent'[child[q]] = parent[child[q]]
    <3> SUFFICES ASSUME NEW q \in Slots, child[q] # NULL
                 PROVE  state'[child[q]] = "USED" /\ parent'[child[q]] = parent[child[q]]
      OBVIOUS
    <3>1. /\ child[q] \in Slots /\ q # p /\ state[child[q]] = "USED"
          /\ parent[child[q]] \in {NULL, q}
      BY <1>0, <2>1, Zenon DEF ForkInv
    <3>2. p # NULL /\ child[q] # p
      BY <1>1, <3>1, ProcAssumption, Zenon DEF ProcAssumption
    <3>. QED BY <1>3, <2>2, <3>1, <3>2, Zenon
  <2>. QED BY <1>0, <1>1, <2>1, <2>2, <2>3 DEF ForkInv
<1>7. ParentInv'
  <2>1. \A q \in Slots \ {p} : Live(q) => Live(q)'
    BY <1>3, Zenon DEF Live
  <2>2. \A q \in Slots : parent'[q] # NULL =>
          parent'[q] \in Slots \ {p} /\ Live(parent'[q]) /\ state[q] # "UNUSED"
    <3>1. Live(initproc) /\ initproc \in Slots \ {p}
      BY <1>0, <1>2, ProcAssumption, Zenon DEF ProcAssumption, InitInv
    <3>2. p # NULL /\ \A q \in Slots : parent[q] # NULL =>
            parent[q] \in Slots /\ Live(parent[q]) /\ state[q] # "UNUSED"
      BY <1>0, ProcAssumption, Zenon DEF ProcAssumption, TypeOK, ParentInv
    <3>. QED BY <1>3, <3>1, <3>2, Zenon
  <2>3. \A q \in Slots : parent'[q] = NULL <=> parent[q] = NULL
    BY <1>3, ProcAssumption, Zenon DEF ProcAssumption
  <2>4. \A q \in Slots : /\ state[q] # "UNUSED" => state'[q] # "UNUSED"
                         /\ state'[q] \notin {"UNUSED", "USED"}
                              => state[q] \notin {"UNUSED", "USED"}
    BY <1>1, <1>3
  <2>. QED BY <1>0, <2>1, <2>2, <2>3, <2>4, Zenon DEF ParentInv, Live
<1>8. InitInv'
  <2>1. Kids(initproc) \subseteq Kids(initproc)'
    BY <1>3, Zenon DEF Kids
  <2>2. Live(initproc)' /\ parent'[initproc] = NULL
    BY <1>0, <1>2, <1>3, ProcAssumption, Zenon DEF ProcAssumption, InitInv, Live
  <2>. QED BY <1>0, <1>1, <2>1, <2>2, Zenon DEF InitInv
<1>9. NoLostExit'
  <2> SUFFICES ASSUME NEW q \in Slots, state'[q] = "SLEEPING", pc'[q] = "wait"
               PROVE  Kids(q)' # {} /\ Zombies(q)' = {} /\ ~killed'[q]
    BY Zenon DEF NoLostExit
  <2>1. q # p /\ state[q] = "SLEEPING" /\ pc[q] = "wait" /\ chan[q] \notin exit_wakes(p)
    BY <1>1, <1>3
  <2>2. chan[q] = q
    BY <1>0, <2>1, Zenon DEF PlaceInv
  <2>3. parent[p] # q /\ (q = initproc => Kids(p) = {})
    BY <2>1, <2>2, Zenon DEF exit_wakes
  <2>4. Kids(q)' = Kids(q)
    BY <1>3, <2>1, <2>3, Zenon DEF Kids
  <2>5. p \notin Kids(q)
    BY <2>3, Zenon DEF Kids
  <2>6. Kids(q) # {} /\ Zombies(q) = {} /\ ~killed[q]
    BY <1>0, <2>1, Zenon DEF NoLostExit
  <2>7. Zombies(q)' = {}
    <3>1. \A r \in Kids(q) : r \in Slots
      BY Zenon DEF Kids
    <3>. QED BY <1>3, <2>4, <2>5, <2>6, <3>1, Zenon DEF Zombies
  <2>. QED BY <1>1, <2>4, <2>6, <2>7, Zenon
<1>. QED
  BY <1>4, <1>5, <1>6, <1>7, <1>8, <1>9, Zenon DEF IInv
LEMMA WaitReapIInv ==
  ASSUME IInv, NEW p \in Slots, kwait_reap(p)
  PROVE  IInv'
<1>0. TypeOK /\ PlaceInv /\ ForkInv /\ ParentInv /\ InitInv /\ NoLostExit
  BY Zenon DEF IInv
<1>p. PICK z \in Slots : /\ First(z, Zombies(p)) /\ freeproc(z)
                       /\ pc' = [pc EXCEPT ![z] = "none", ![p] = "user"]
                       /\ shell' = next_shell(p, z)
  BY Zenon DEF kwait_reap
<1>1. /\ state[p] = "RUNNING" /\ pc[p] = "wait" /\ state[z] = "ZOMBIE" /\ parent[z] = p
      /\ z # p /\ UNCHANGED <<child, halted>>
  BY <1>p, Zenon DEF kwait_reap, At, First, Zombies, Kids
<1>2. /\ z # initproc /\ pc[z] = "exit" /\ child[z] = NULL /\ child[p] = NULL
      /\ \A q \in Slots : parent[q] # z /\ child[q] # z
  <2>1. z # NULL
    BY ProcAssumption, Zenon DEF ProcAssumption
  <2>2. z # initproc /\ pc[z] = "exit"
    BY <1>0, <1>1, Zenon DEF InitInv, Live, PlaceInv
  <2>3. \A q \in Slots : parent[q] # z
    BY <1>0, <1>1, <2>1, Zenon DEF ParentInv, Live
  <2>4. \A q \in Slots : child[q] # z
    BY <1>0, <1>1, <2>1, Zenon DEF ForkInv
  <2>5. child[z] = NULL /\ child[p] = NULL
    BY <1>0, <1>1, <2>2, Zenon DEF ForkInv
  <2>. QED BY <2>2, <2>3, <2>4, <2>5, Zenon
<1>3. \A q \in Slots : /\ state'[q] = IF q = z THEN "UNUSED" ELSE state[q]
                       /\ parent'[q] = IF q = z THEN NULL ELSE parent[q]
                       /\ chan'[q] = IF q = z THEN NULL ELSE chan[q]
                       /\ pc'[q] = IF q = z THEN "none" ELSE IF q = p THEN "user" ELSE pc[q]
  BY <1>0, <1>1, <1>p, Zenon DEF TypeOK, freeproc
<1>4. \A q \in Slots : q # z => killed'[q] = killed[q]
  BY <1>0, <1>p, Zenon DEF TypeOK, freeproc
<1>5. TypeOK'
  <2>1. killed' \in [Slots -> BOOLEAN] /\ halted' \in BOOLEAN
    BY <1>0, <1>1, <1>p, Zenon DEF TypeOK, freeproc
  <2>2. shell' \in Slots \cup {NULL}
    BY <1>0, <1>p, Zenon DEF TypeOK, next_shell
  <2>. QED BY <1>0, <1>1, <1>p, <2>1, <2>2, Zenon DEF TypeOK, States, PCs, Chans, freeproc
<1>6. PlaceInv'
  BY <1>0, <1>1, <1>3 DEF PlaceInv
<1>7. ForkInv'
  <2>1. \A q \in Slots : child[q] # NULL => child[q] \in Slots \ {z} /\ q # p /\ q # z
    BY <1>0, <1>2, Zenon DEF TypeOK
  <2>. QED BY <1>0, <1>1, <1>2, <1>3, <2>1 DEF ForkInv
<1>8. ParentInv'
  BY <1>0, <1>1, <1>2, <1>3 DEF ParentInv, Live, TypeOK
<1>9. InitInv'
  <2>1. Kids(initproc) \ {z} = Kids(initproc)'
    BY <1>3, ProcAssumption, Zenon DEF ProcAssumption, Kids
  <2>2. Live(initproc)' /\ parent'[initproc] = NULL
    BY <1>0, <1>2, <1>3, ProcAssumption, Zenon DEF ProcAssumption, InitInv, Live
  <2>3. CASE p = initproc
    <3>1. pc'[initproc] = "user" /\ (shell' # NULL => shell' = shell /\ shell # z)
      BY <1>1, <1>3, <1>p, <2>3, Zenon DEF next_shell
    <3>. QED BY <1>0, <1>1, <2>1, <2>2, <2>3, <3>1, Zenon DEF InitInv
  <2>4. CASE p # initproc
    <3>1. shell' = shell
      BY <1>p, <2>4, Zenon DEF next_shell
    <3>2. pc'[initproc] = pc[initproc]
      BY <1>2, <1>3, <2>4, ProcAssumption, Zenon DEF ProcAssumption
    <3>3. Kids(initproc)' = Kids(initproc)
      BY <1>1, <2>1, <2>4, Zenon DEF Kids
    <3>. QED BY <1>0, <1>1, <2>2, <3>1, <3>2, <3>3, Zenon DEF InitInv
  <2>. QED BY <2>3, <2>4, Zenon
<1>10. NoLostExit'
  <2> SUFFICES ASSUME NEW q \in Slots, state'[q] = "SLEEPING", pc'[q] = "wait"
               PROVE  Kids(q)' # {} /\ Zombies(q)' = {} /\ ~killed'[q]
    BY Zenon DEF NoLostExit
  <2>1. q # p /\ q # z /\ state[q] = "SLEEPING" /\ pc[q] = "wait"
    BY <1>1, <1>3, Zenon
  <2>2. Kids(q)' = Kids(q) /\ z \notin Kids(q) /\ Kids(q) \subseteq Slots
    <3>1. z \notin Kids(q) /\ Kids(q) \subseteq Slots
      BY <1>1, <2>1, Zenon DEF Kids
    <3>2. NULL # q
      BY ProcAssumption, Zenon DEF ProcAssumption
    <3>3. Kids(q)' = {r \in Slots : parent'[r] = q}
      BY Zenon DEF Kids
    <3>. QED BY <1>3, <3>1, <3>2, <3>3, Zenon DEF Kids
  <2>3. Kids(q) # {} /\ Zombies(q) = {} /\ ~killed[q]
    BY <1>0, <2>1, Zenon DEF NoLostExit
  <2>4. Zombies(q)' = {}
    BY <1>3, <2>2, <2>3, Zenon DEF Zombies
  <2>. QED BY <1>4, <2>1, <2>2, <2>3, <2>4, Zenon
<1>. QED
  BY <1>5, <1>6, <1>7, <1>8, <1>9, <1>10, Zenon DEF IInv
LEMMA KillIInv ==
  ASSUME IInv, NEW p \in Slots, NEW z \in Slots, kkill(p, z)
  PROVE  IInv'
<1>0. TypeOK /\ PlaceInv /\ ForkInv /\ ParentInv /\ InitInv /\ NoLostExit
  BY Zenon DEF IInv
<1>1. /\ state[p] = "RUNNING" /\ pc[p] = "sys" /\ p # initproc
      /\ UNCHANGED <<parent, chan, child, shell, halted>>
  BY Zenon DEF kkill, At
<1>2. /\ \A q \in Slots : pc'[q] = IF q = p THEN "user" ELSE pc[q]
      /\ \A q \in Slots : state'[q] = IF q = z /\ state[z] = "SLEEPING"
                                       THEN "RUNNABLE" ELSE state[q]
  BY <1>0, Zenon DEF TypeOK, kkill, kill_state
<1>3. \A q \in Slots : q # z => killed'[q] = killed[q]
  BY <1>0, Zenon DEF TypeOK, kkill
<1>4. TypeOK'
  <2>1. killed' \in [Slots -> BOOLEAN] /\ halted' \in BOOLEAN
    BY <1>0, Zenon DEF TypeOK, kkill
  <2>2. state' \in [Slots -> States]
    BY <1>0, Zenon DEF TypeOK, kkill, kill_state, States
  <2>3. pc' \in [Slots -> PCs]
    BY <1>0, Zenon DEF TypeOK, kkill, PCs
  <2>. QED BY <1>0, <1>1, <2>1, <2>2, <2>3, Zenon DEF TypeOK
<1>5. PlaceInv'
  BY <1>0, <1>1, <1>2, Zenon DEF PlaceInv
<1>6. ForkInv'
  <2>1. \A q \in Slots : child[q] # NULL => child[q] \in Slots /\ q # p
    BY <1>0, <1>1 DEF TypeOK, ForkInv
  <2>2. \A q \in Slots : state[q] \in Awake \cup {"USED"} => state'[q] = state[q]
    BY <1>2, Zenon DEF Awake
  <2>. QED BY <1>0, <1>1, <1>2, <2>1, <2>2 DEF ForkInv
<1>7. ParentInv'
  BY <1>0, <1>1, <1>2, SMTT(30) DEF ParentInv, Live, TypeOK
<1>8. InitInv'
  BY <1>0, <1>1, <1>2, <1>3, ProcAssumption, Zenon DEF ProcAssumption, InitInv, Live, Kids
<1>9. NoLostExit'
  BY <1>0, <1>1, <1>2, <1>3 DEF NoLostExit, Kids, Zombies
<1>. QED
  BY <1>4, <1>5, <1>6, <1>7, <1>8, <1>9, Zenon DEF IInv

\* A fork that fails leaves the table as it was, but for p->killed and p->chan of a
\* slot that stays free.
LEMMA ForkFailsIInv ==
  ASSUME IInv, NEW p \in Slots, kfork_fails(p)
  PROVE  IInv'
<1>0. TypeOK /\ PlaceInv /\ ForkInv /\ ParentInv /\ InitInv /\ NoLostExit
  BY Zenon DEF IInv
<1> DEFINE to == IF p = initproc THEN "exit" ELSE "user"
<1>1. /\ state[p] = "RUNNING" /\ pc[p] = "sys" /\ pc' = [pc EXCEPT ![p] = to]
      /\ UNCHANGED <<child, shell, halted>>
  BY Zenon DEF kfork_fails, At
<1>2. to \in PCs /\ to \in {"user", "exit"}
  BY Zenon DEF PCs
<1> HIDE DEF to
<1>3. CASE UNCHANGED <<state, parent, chan, killed>>
  <2>1. to \notin {"none", "fork1", "fork2"} /\ to # "wait" /\ to \in {"user", "sys", "wait", "exit"}
    BY <1>2
  <2>2. pc[p] \notin {"fork1", "fork2"}
    BY <1>1
  <2>. QED BY <1>1, <1>2, <1>3, <2>1, <2>2, MoveIInv, Zenon
<1>4. ASSUME NEW z \in Slots, First(z, {q \in Slots : state[q] = "UNUSED"}), freeproc(z)
      PROVE  IInv'
  <2>1. state[z] = "UNUSED" /\ parent[z] = NULL
    BY <1>0, <1>4, Zenon DEF First, ParentInv
  <2>2. state' = state /\ parent' = parent
    BY <1>0, <1>4, <2>1, Zenon DEF freeproc, TypeOK
  <2>3. \A q \in Slots : /\ chan'[q] = IF q = z THEN NULL ELSE chan[q]
                         /\ pc'[q] = IF q = p THEN to ELSE pc[q]
                         /\ q # z => killed'[q] = killed[q]
    BY <1>0, <1>1, <1>4, Zenon DEF freeproc, TypeOK
  <2>4. TypeOK'
    <3>1. killed' \in [Slots -> BOOLEAN] /\ halted' \in BOOLEAN
      BY <1>0, <1>1, <1>4, Zenon DEF freeproc, TypeOK
    <3>2. chan' \in [Slots -> Chans \cup {NULL}] /\ pc' \in [Slots -> PCs]
      BY <1>0, <1>1, <1>2, <1>4, Zenon DEF freeproc, TypeOK
    <3>. QED BY <1>0, <1>1, <2>2, <3>1, <3>2, Zenon DEF TypeOK
  <2>5. PlaceInv'
    BY <1>0, <1>1, <1>2, <2>1, <2>2, <2>3 DEF PlaceInv
  <2>6. ForkInv'
    BY <1>0, <1>1, <1>2, <2>2, <2>3 DEF ForkInv
  <2>7. ParentInv'
    BY <1>0, <2>2, Zenon DEF ParentInv, Live
  <2>8. InitInv'
    BY <1>0, <1>1, <1>2, <2>2, <2>3, ProcAssumption DEF ProcAssumption, InitInv, Live, Kids
  <2>9. NoLostExit'
    BY <1>0, <1>1, <1>2, <2>1, <2>2, <2>3 DEF NoLostExit, Kids, Zombies
  <2>. QED BY <2>4, <2>5, <2>6, <2>7, <2>8, <2>9, Zenon DEF IInv
<1>. QED BY <1>3, <1>4, Zenon DEF kfork_fails

LEMMA HaltIInv ==
  ASSUME IInv, NEW p \in Slots, kexit_panic(p)
  PROVE  IInv'
BY DEF kexit_panic, IInv, TypeOK, PlaceInv, ForkInv, ParentInv, InitInv, NoLostExit, Live, Kids, Zombies

\* The steps in which a process only goes from one place to the next.
LEMMA PlainStepIInv ==
  ASSUME IInv, NEW p \in Slots,
         \/ syscall(p) \/ syscall_return(p) \/ usertrap_exit(p) \/ sys_exit(p) \/ kwait(p)
         \/ kwait_badaddr(p) \/ kwait_none(p) \/ sys_pause(p) \/ sys_pause_return(p)
  PROVE  IInv'
<1> USE DEF At, PCs
<1>1. CASE syscall(p)
  BY <1>1, MoveIInv, Zenon DEF syscall
<1>2. CASE syscall_return(p)
  BY <1>2, MoveIInv, Zenon DEF syscall_return
<1>3. CASE usertrap_exit(p)
  BY <1>3, MoveIInv, Zenon DEF usertrap_exit
<1>4. CASE sys_exit(p)
  BY <1>4, MoveIInv, Zenon DEF sys_exit
<1>5. CASE kwait(p)
  BY <1>5, MoveIInv, Zenon DEF kwait
<1>6. CASE kwait_badaddr(p)
  BY <1>6, MoveIInv, Zenon DEF kwait_badaddr
<1>7. CASE kwait_none(p)
  <2>1. CASE p = initproc
    BY <1>7, <2>1, MoveIInv, Zenon DEF kwait_none
  <2>2. CASE p # initproc
    BY <1>7, <2>2, MoveIInv, Zenon DEF kwait_none
  <2>. QED BY <2>1, <2>2, Zenon
<1>8. CASE sys_pause(p)
  BY <1>8, MoveIInv, Zenon DEF sys_pause
<1>9. CASE sys_pause_return(p)
  BY <1>9, MoveIInv, Zenon DEF sys_pause_return
<1>. QED
  BY <1>1, <1>2, <1>3, <1>4, <1>5, <1>6, <1>7, <1>8, <1>9, Zenon

LEMMA NextIInv == IInv /\ [Next]_vars => IInv'
<1> SUFFICES ASSUME IInv, [Next]_vars PROVE IInv'
  OBVIOUS
<1>1. ASSUME NEW p \in Slots, Step(p) PROVE IInv'
  <2>1. CASE kexit_sleep(p)
    <3>1. disk \in Chans
      BY Zenon DEF Chans
    <3>2. /\ At(p, "exit") /\ disk = disk /\ sleep(p, disk)
          /\ UNCHANGED <<parent, killed, pc, child, shell, halted>>
      BY <2>1, Zenon DEF kexit_sleep
    <3>. QED BY <3>1, <3>2, SleepIInv, Zenon
  <2>2. CASE sys_pause_sleep(p)
    <3>1. ticks \in Chans
      BY Zenon DEF Chans
    <3>2. /\ At(p, "pause") /\ ticks = ticks /\ sleep(p, ticks)
          /\ UNCHANGED <<parent, killed, pc, child, shell, halted>>
      BY <2>2, Zenon DEF sys_pause_sleep
    <3>. QED BY <3>1, <3>2, SleepIInv, Zenon
  <2>3. CASE kfork(p)
    BY <2>3, ForkIInv, Zenon
  <2>4. CASE kfork_parent(p)
    BY <2>4, ForkParentIInv, Zenon
  <2>5. CASE kfork_run(p)
    BY <2>5, ForkRunIInv, Zenon
  <2>6. CASE kfork_fails(p)
    BY <2>6, ForkFailsIInv, Zenon
  <2>7. CASE kexit_final(p)
    BY <2>7, ExitFinalIInv, Zenon
  <2>8. CASE kwait_reap(p)
    BY <2>8, WaitReapIInv, Zenon
  <2>9. CASE kwait_sleep(p)
    BY <2>9, WaitSleepIInv, Zenon
  <2>10. ASSUME NEW q \in Slots, kkill(p, q) PROVE IInv'
    BY <2>10, KillIInv, Zenon
  <2>11. CASE \/ syscall(p) \/ syscall_return(p) \/ usertrap_exit(p) \/ sys_exit(p) \/ kwait(p)
              \/ kwait_badaddr(p) \/ kwait_none(p) \/ sys_pause(p) \/ sys_pause_return(p)
    BY <2>11, PlainStepIInv, Zenon
  <2>12. CASE kexit_panic(p)
    BY <2>12, HaltIInv, Zenon
  <2>. QED
    BY <1>1, <2>1, <2>2, <2>3, <2>4, <2>5, <2>6, <2>7, <2>8, <2>9, <2>10, <2>11, <2>12, Zenon DEF Step
<1>2. CASE UNCHANGED vars
  BY <1>2 DEF vars, IInv, TypeOK, PlaceInv, ForkInv, ParentInv, InitInv, NoLostExit, Live, Kids, Zombies
<1>. QED
  BY <1>1, <1>2, SchedulerIInv, YieldIInv, DevintrIInv, Zenon DEF Next, Halted
\* A step of the table leaves init out of kexit, or leaves it doomed.
LEMMA PanicStep == IInv /\ PanicInv /\ [Next]_vars => PanicInv'
<1> SUFFICES ASSUME IInv, PanicInv, [Next]_vars, pc'[initproc] = "exit" \/ halted'
             PROVE  Doomed'
  BY Zenon DEF PanicInv
<1>0. TypeOK /\ InitInv /\ initproc \in Slots
  BY ProcAssumption, Zenon DEF IInv, ProcAssumption
<1>1. ASSUME UNCHANGED <<killed, shell>>, pc[initproc] = "exit" \/ halted \/ Doomed
      PROVE  Doomed'
  BY <1>1, Zenon DEF PanicInv, Doomed
<1>2. ASSUME NEW p \in Slots, Step(p) PROVE Doomed'
  <2>1. ASSUME NEW to, p = initproc => to # "exit", pc' = [pc EXCEPT ![p] = to],
               UNCHANGED <<killed, shell, halted>>
        PROVE  Doomed'
    BY <1>0, <1>1, <2>1, Zenon DEF TypeOK
  <2>2. CASE \/ syscall(p) \/ syscall_return(p) \/ sys_exit(p) \/ kwait(p) \/ kwait_badaddr(p)
             \/ sys_pause(p) \/ sys_pause_return(p) \/ kfork_parent(p)
    <3>1. UNCHANGED <<killed, shell, halted>>
      BY <2>2, Zenon DEF syscall, syscall_return, sys_exit, kwait, kwait_badaddr, sys_pause,
                         sys_pause_return, kfork_parent
    <3>2. \E t \in PCs : (p = initproc => t # "exit") /\ pc' = [pc EXCEPT ![p] = t]
      BY <2>2, Zenon DEF syscall, syscall_return, sys_exit, kwait, kwait_badaddr, sys_pause,
                         sys_pause_return, kfork_parent, PCs
    <3>. QED BY <2>1, <3>1, <3>2, Zenon
  <2>3. CASE kexit_sleep(p) \/ kexit_final(p) \/ kwait_sleep(p) \/ sys_pause_sleep(p) \/ kexit_panic(p)
    <3>1. UNCHANGED <<killed, shell, pc>> /\ (halted' = halted \/ pc[initproc] = "exit")
      BY <2>3, Zenon DEF kexit_sleep, kexit_final, kwait_sleep, sys_pause_sleep, kexit_panic, At
    <3>. QED BY <1>1, <3>1, Zenon
  <2>4. CASE usertrap_exit(p)
    <3>1. UNCHANGED <<killed, shell, halted>> /\ killed[p] /\ pc' = [pc EXCEPT ![p] = "exit"]
      BY <2>4, Zenon DEF usertrap_exit
    <3>. QED BY <1>0, <1>1, <3>1, Zenon DEF TypeOK, Doomed
  <2>5. CASE kwait_none(p)
    <3>1. /\ UNCHANGED <<killed, shell, halted>> /\ (Kids(p) = {} \/ killed[p]) /\ pc[p] = "wait"
          /\ pc' = [pc EXCEPT ![p] = IF p = initproc THEN "exit" ELSE "user"]
      BY <2>5, Zenon DEF kwait_none, At
    <3>2. CASE p = initproc
      <4>1. Kids(p) # {}
        BY <1>0, <3>1, <3>2 DEF InitInv
      <4>. QED BY <1>1, <3>1, <3>2, <4>1, Zenon DEF Doomed
    <3>3. CASE p # initproc
      BY <1>0, <1>1, <3>1, <3>3, Zenon DEF TypeOK
    <3>. QED BY <3>2, <3>3, Zenon
  <2>6. CASE kfork_run(p)
    <3>1. /\ UNCHANGED <<killed, shell, halted>>
          /\ pc' = [pc EXCEPT ![p] = "user", ![child[p]] = "user"]
      BY <2>6, Zenon DEF kfork_run
    <3>2. pc'[initproc] = "user" \/ pc'[initproc] = pc[initproc]
      BY <1>0, <3>1, Zenon DEF TypeOK
    <3>. QED BY <1>1, <3>1, <3>2
  <2>7. CASE kfork(p)
    <3>1. /\ pc' = [pc EXCEPT ![p] = "fork1"] /\ ~halted /\ UNCHANGED <<killed, halted>>
          /\ p # initproc => shell' = shell
      BY <2>7, Zenon DEF kfork, At
    <3>2. p # initproc
      BY <1>0, <3>1 DEF TypeOK
    <3>. QED BY <1>0, <1>1, <3>1, <3>2, Zenon DEF TypeOK
  <2>8. CASE kfork_fails(p)
    <3>1. /\ pc' = [pc EXCEPT ![p] = IF p = initproc THEN "exit" ELSE "user"]
          /\ UNCHANGED <<shell, halted>> /\ (p = initproc => shell = NULL)
      BY <2>8, Zenon DEF kfork_fails
    <3>2. killed'[initproc] = killed[initproc]
      BY <1>0, <2>8, Zenon DEF kfork_fails, freeproc, First, TypeOK, InitInv, Live
    <3>3. CASE p = initproc
      BY <3>1, <3>3, Zenon DEF Doomed
    <3>4. CASE p # initproc
      BY <1>0, <3>1, <3>2, <3>4, Zenon DEF TypeOK, PanicInv, Doomed
    <3>. QED BY <3>3, <3>4, Zenon
  <2>9. CASE kwait_reap(p)
    <3>1. PICK z \in Slots : /\ First(z, Zombies(p)) /\ freeproc(z)
                            /\ pc' = [pc EXCEPT ![z] = "none", ![p] = "user"]
                            /\ shell' = next_shell(p, z)
      BY <2>9, Zenon DEF kwait_reap
    <3>2. state[z] = "ZOMBIE" /\ z # initproc /\ halted' = halted
      BY <1>0, <2>9, <3>1, Zenon DEF First, Zombies, InitInv, Live, kwait_reap
    <3>3. killed'[initproc] = killed[initproc] /\ (shell = NULL => shell' = NULL)
      BY <1>0, <3>1, <3>2, Zenon DEF freeproc, TypeOK, next_shell
    <3>4. pc'[initproc] = "user" \/ pc'[initproc] = pc[initproc]
      BY <1>0, <3>1, <3>2, Zenon DEF TypeOK
    <3>5. pc[initproc] = "exit" \/ halted
      BY <3>2, <3>4
    <3>. QED BY <3>3, <3>5, Zenon DEF PanicInv, Doomed
  <2>10. ASSUME NEW z \in Slots, kkill(p, z) PROVE Doomed'
    <3>1. /\ pc' = [pc EXCEPT ![p] = "user"] /\ p # initproc /\ UNCHANGED <<shell, halted>>
          /\ killed' = [killed EXCEPT ![z] = TRUE]
      BY <2>10, Zenon DEF kkill
    <3>2. killed[initproc] => killed'[initproc]
      BY <1>0, <3>1, Zenon DEF TypeOK
    <3>3. pc'[initproc] = pc[initproc]
      BY <1>0, <3>1, Zenon DEF TypeOK
    <3>. QED BY <3>1, <3>2, <3>3, Zenon DEF PanicInv, Doomed
  <2>. QED BY <1>2, <2>2, <2>3, <2>4, <2>5, <2>6, <2>7, <2>8, <2>9, <2>10, Zenon DEF Step
<1>3. ASSUME NEW p \in Slots, scheduler(p) \/ yield(p) PROVE Doomed'
  BY <1>1, <1>3, Zenon DEF scheduler, yield
<1>4. ASSUME NEW c, devintr(c) PROVE Doomed'
  BY <1>1, <1>4, Zenon DEF devintr
<1>5. CASE UNCHANGED vars
  BY <1>1, <1>5, Zenon DEF vars
<1>. QED BY <1>2, <1>3, <1>4, <1>5, Zenon DEF Next, Halted
--------------------------------------------------------------------------------
(* What follows from the invariant. *)

\* The inductive invariant of the process table.
THEOREM ProcInvariant == Spec => []IInv
BY InitIInv, NextIInv, PTL DEF Spec

\* Every field of struct proc keeps its type, for a table of any size.
THEOREM ProcTypeOK == Spec => []TypeOK
<1>1. IInv => TypeOK
  BY Zenon DEF IInv
<1>. QED BY <1>1, ProcInvariant, PTL

\* kexit and reparent leave no process without a live parent, whichever of an
\* exiting parent and an exiting child gets to wait_lock first.
THEOREM ProcFamilyTree == Spec => []FamilyTree
<1>1. IInv => FamilyTree
  BY Zenon DEF IInv, ParentInv, FamilyTree
<1>. QED BY <1>1, ProcInvariant, PTL

\* No process is asleep in kwait with a zombie child, with no child or killed.
THEOREM ProcNoLostExit == Spec => []NoLostExit
<1>1. IInv => NoLostExit
  BY Zenon DEF IInv
<1>. QED BY <1>1, ProcInvariant, PTL

\* init has its shell as a child whenever it is in kwait, and exits, which makes kexit
\* panic, only when it was killed or could not fork the next shell.
THEOREM ProcInitHasShell == Spec => []InitHasShell
<1>1. IInv /\ PanicInv => InitHasShell
  <2>1. IInv => (pc[initproc] = "wait" => shell \in Kids(initproc))
    BY DEF IInv, InitInv
  <2>. QED BY <2>1, Zenon DEF PanicInv, Doomed, InitHasShell
<1>2. Init => PanicInv
  BY Zenon DEF Init, PanicInv, Doomed
<1>. QED BY <1>1, <1>2, PanicStep, ProcInvariant, PTL DEF Spec

\* The only step that ends a zombie is the kwait of its own parent.
LEMMA ZombieStep ==
  ASSUME IInv, Next, NEW q \in Slots, state[q] = "ZOMBIE", state'[q] # "ZOMBIE"
  PROVE  state'[q] = "UNUSED" /\ At(parent[q], "wait")
<1>0. TypeOK /\ ForkInv
  BY Zenon DEF IInv
<1>1. ASSUME NEW p \in Slots, kwait_reap(p)
      PROVE  state'[q] = "UNUSED" /\ At(parent[q], "wait")
  <2>1. PICK z \in Slots : First(z, Zombies(p)) /\ freeproc(z)
    BY <1>1, Zenon DEF kwait_reap
  <2>2. state' = [state EXCEPT ![z] = "UNUSED"] /\ parent[z] = p /\ At(p, "wait")
    BY <1>1, <2>1, Zenon DEF freeproc, First, Zombies, Kids, kwait_reap
  <2>. QED BY <1>0, <2>2, Zenon DEF TypeOK
<1>2. ASSUME NEW p \in Slots, kfork(p) \/ kfork_run(p) \/ kfork_fails(p) PROVE FALSE
  <2>1. CASE kfork(p)
    BY <1>0, <2>1, Zenon DEF TypeOK, kfork, allocproc, First
  <2>2. CASE kfork_run(p)
    <3>1. state[child[p]] = "USED"
      BY <2>2, ChildFacts, Zenon DEF kfork_run, At
    <3>. QED BY <1>0, <2>2, <3>1, Zenon DEF TypeOK, kfork_run
  <2>3. CASE kfork_fails(p)
    BY <1>0, <2>3, Zenon DEF TypeOK, kfork_fails, freeproc, First
  <2>. QED BY <1>2, <2>1, <2>2, <2>3, Zenon
<1>3. ASSUME NEW p \in Slots, scheduler(p) \/ yield(p) PROVE FALSE
  BY <1>0, <1>3, Zenon DEF TypeOK, scheduler, yield
<1>4. ASSUME NEW p \in Slots, kexit_sleep(p) \/ kwait_sleep(p) \/ sys_pause_sleep(p) PROVE FALSE
  BY <1>0, <1>4, Zenon DEF TypeOK, kexit_sleep, kwait_sleep, sys_pause_sleep, sleep, At
<1>5. ASSUME NEW p \in Slots, kexit_final(p) PROVE FALSE
  BY <1>0, <1>5, Zenon DEF TypeOK, kexit_final, Wake
<1>6. ASSUME NEW p \in Slots, NEW z \in Slots, kkill(p, z) PROVE FALSE
  BY <1>0, <1>6, Zenon DEF TypeOK, kkill, kill_state
<1>7. ASSUME NEW c, devintr(c) PROVE FALSE
  BY <1>0, <1>7, Zenon DEF TypeOK, devintr, Wake
<1>8. state' # state
  OBVIOUS
<1>9. ASSUME NEW p \in Slots, Step(p) PROVE state'[q] = "UNUSED" /\ At(parent[q], "wait")
  BY <1>1, <1>2, <1>4, <1>5, <1>6, <1>8, <1>9, Zenon
  DEF Step, syscall, syscall_return, usertrap_exit, kfork_parent, kexit_panic, sys_exit,
      kwait, kwait_badaddr, kwait_none, sys_pause, sys_pause_return
<1>. QED
  BY <1>3, <1>7, <1>8, <1>9, Zenon DEF Next, Halted, vars

\* A zombie keeps its slot, and its status, until its parent's kwait frees it.
THEOREM ProcZombieUntilReaped == Spec => ZombieUntilReaped
<1>1. IInv /\ [Next]_vars =>
        [\A q \in Slots :
           (state[q] = "ZOMBIE" /\ state'[q] # "ZOMBIE") =>
             state'[q] = "UNUSED" /\ At(parent[q], "wait")]_vars
  BY ZombieStep, Zenon
<1>. QED BY <1>1, ProcInvariant, PTL DEF Spec, ZombieUntilReaped

--------------------------------------------------------------------------------
(* Pages. *)

CONSTANTS NPAGES, end, MAX_ORDER, Size, MAXREF
VARIABLES freelist, page_state, refcnt, boot, k_pc, idx, order

K == INSTANCE Kalloc WITH pc <- k_pc

\* Page q is in a free block.
IsFree(q) == \E o \in K!Orders : \E i \in freelist[o] : q \in K!Block(i, o)

Aligned(i, o) == \E k \in Nat : i = k * Size[o]

\* Free blocks do not overlap.
Disjoint ==
  \A o1, o2 \in K!Orders : \A i1 \in freelist[o1], i2 \in freelist[o2] :
    \A q \in K!Pages : q \in K!Block(i1, o1) /\ q \in K!Block(i2, o2) => o1 = o2 /\ i1 = i2

\* Nor does one overlap the block in hand.
HandApart == \A q \in K!InHand : ~IsFree(q)

\* No block reaches past the last page.
Inside ==
  /\ \A o \in K!Orders : \A i \in freelist[o] : K!Block(i, o) \subseteq K!Pages
  /\ K!InHand \subseteq K!Pages

\* The pages that are neither referenced nor the kernel's are free or in hand.
Accounted ==
  \A q \in K!Pages :
    IsFree(q) \/ q \in K!InHand <=> end <= q /\ q < boot /\ refcnt[q] = 0

\* Before freerange reaches it a page has no reference.
Unreleased == \A q \in K!Pages : q >= boot => refcnt[q] = 0

Marked ==
  \A q \in K!Pages : q \in page_state <=> IsFree(q) \/ (k_pc = "merge" /\ q \in K!InHand)

\* Blocks start at multiples of their size.
AllAligned ==
  /\ \A o \in K!Orders : \A i \in freelist[o] : Aligned(i, o)
  /\ k_pc # "idle" => Aligned(idx, order)

\* No block is free together with its buddy.
NoBuddies ==
  \A o \in K!Orders : o < MAX_ORDER => \A i \in freelist[o] : K!buddy(i, o) \notin freelist[o]

KInv ==
  /\ K!TypeOK
  /\ Disjoint
  /\ HandApart
  /\ Inside
  /\ Accounted
  /\ Unreleased
  /\ Marked
  /\ AllAligned
  /\ NoBuddies

--------------------------------------------------------------------------------
(* Blocks and buddies. *)

LEMMA Sizes ==
  ASSUME K!Constants
  PROVE  /\ \A o \in K!Orders : o \in Nat /\ Size[o] \in Nat \ {0}
         /\ 0 \in K!Orders /\ Size[0] = 1
         /\ \A o \in K!Orders : o < MAX_ORDER => o + 1 \in K!Orders /\ Size[o + 1] = 2 * Size[o]
         /\ \A o \in K!Orders : o > 0 => o - 1 \in K!Orders /\ Size[o] = 2 * Size[o - 1]
         /\ NPAGES \in Nat /\ end \in Nat /\ end <= NPAGES /\ MAX_ORDER \in Nat
         /\ K!Pages \subseteq Nat
<1>1. MAX_ORDER \in Nat /\ NPAGES \in Nat /\ end \in Nat /\ end <= NPAGES
  BY DEF K!Constants
<1>2. \A o \in K!Orders : o \in Nat /\ Size[o] \in Nat \ {0}
  BY <1>1 DEF K!Constants, K!Orders
<1>3. 0 \in K!Orders /\ Size[0] = 1
  BY <1>1 DEF K!Constants, K!Orders
<1>4. \A o \in K!Orders : o < MAX_ORDER => o + 1 \in K!Orders /\ Size[o + 1] = 2 * Size[o]
  BY <1>1 DEF K!Constants, K!Orders
<1>5. \A o \in K!Orders : o > 0 => o - 1 \in K!Orders /\ Size[o] = 2 * Size[o - 1]
  <2> SUFFICES ASSUME NEW o \in K!Orders, o > 0
               PROVE  o - 1 \in K!Orders /\ Size[o] = 2 * Size[o - 1]
    OBVIOUS
  <2>1. o - 1 \in K!Orders /\ o - 1 < MAX_ORDER /\ (o - 1) + 1 = o
    BY <1>1 DEF K!Orders
  <2>. QED BY <1>4, <2>1
<1>6. K!Pages \subseteq Nat
  BY <1>1 DEF K!Pages
<1>. QED BY <1>1, <1>2, <1>3, <1>4, <1>5, <1>6

LEMMA InBlock ==
  ASSUME K!Constants, NEW i \in Int, NEW o \in K!Orders, NEW q \in Int
  PROVE  /\ q \in K!Block(i, o) <=> i <= q /\ q < i + Size[o]
         /\ i \in K!Block(i, o)
BY Sizes DEF K!Block

\* The number of a block among those of its order.
LEMMA BlockNumber ==
  ASSUME NEW s \in Nat \ {0}, NEW k \in Nat
  PROVE  (k * s) \div s = k
<1> DEFINE d == (k * s) \div s
<1>1. k * s \in Nat
  OBVIOUS
<1>2. d \in Nat /\ s * d <= k * s /\ k * s < s * d + s
  BY <1>1
<1> HIDE DEF d
<1>3. k * s = s * k /\ s * d + s = s * (d + 1)
  BY <1>2
<1>4. s * d <= s * k /\ s * k < s * (d + 1)
  BY <1>2, <1>3
<1>5. d <= k
  BY <1>2, <1>4
<1>6. k < d + 1
  BY <1>2, <1>4
<1>. QED BY <1>2, <1>5, <1>6 DEF d

\* Buddies are neighbours, one at an even and one at an odd multiple of their size.
LEMMA BuddyOf ==
  ASSUME K!Constants, NEW o \in K!Orders, NEW k \in Nat
  PROVE  K!buddy(k * Size[o], o)
           = IF k % 2 = 0 THEN k * Size[o] + Size[o] ELSE k * Size[o] - Size[o]
<1>1. (k * Size[o]) \div Size[o] = k
  BY Sizes, BlockNumber
<1>. QED BY <1>1 DEF K!buddy

LEMMA Multiples ==
  ASSUME NEW s \in Nat \ {0}, NEW k \in Nat
  PROVE  /\ k * s \in Nat
         /\ (k + 1) * s = k * s + s
         /\ (2 * k) * s = k * (2 * s)
         /\ (2 * k + 1) * s = k * (2 * s) + s
OBVIOUS

LEMMA BuddyBack ==
  ASSUME K!Constants, NEW o \in K!Orders, NEW i, Aligned(i, o)
  PROVE  /\ i \in Nat /\ K!buddy(i, o) \in Int
         /\ K!buddy(i, o) # i
         /\ \A j : Aligned(j, o) /\ K!buddy(j, o) = i => j = K!buddy(i, o)
         /\ K!buddy(i, o) >= 0 => Aligned(K!buddy(i, o), o)
<1> DEFINE s == Size[o]
<1>1. s \in Nat \ {0}
  BY Sizes
<1>2. PICK k \in Nat : i = k * s
  BY DEF Aligned
<1>3. K!buddy(i, o) = IF k % 2 = 0 THEN k * s + s ELSE k * s - s
  BY <1>2, BuddyOf
<1>4. k * s \in Nat
  BY <1>1, Multiples
<1>5. ASSUME NEW j, Aligned(j, o), K!buddy(j, o) = i
      PROVE  j = K!buddy(i, o)
  <2>1. PICK m \in Nat : j = m * s
    BY <1>5 DEF Aligned
  <2>2. i = IF m % 2 = 0 THEN m * s + s ELSE m * s - s
    BY <1>5, <2>1, BuddyOf
  <2>3. CASE m % 2 = 0
    <3>1. k * s = (m + 1) * s /\ m * s \in Nat
      BY <1>1, <1>2, <2>2, <2>3, Multiples
    <3>2. k = m + 1
      BY <1>1, <3>1
    <3>3. k % 2 = 1
      BY <2>3, <3>2
    <3>. QED BY <1>1, <1>2, <1>3, <1>4, <2>1, <2>2, <2>3, <3>1, <3>3
  <2>4. CASE m % 2 # 0
    <3>1. m \in Nat \ {0} /\ m - 1 \in Nat
      BY <2>4
    <3>2. k * s = (m - 1) * s /\ m * s \in Nat
      <4>1. ((m - 1) + 1) * s = (m - 1) * s + s /\ (m - 1) + 1 = m /\ m * s \in Nat
            /\ (m - 1) * s \in Nat
        BY <1>1, <3>1, Multiples
      <4>. QED BY <1>1, <1>2, <2>2, <2>4, <4>1
    <3>3. k = m - 1
      BY <1>1, <3>1, <3>2
    <3>4. k % 2 = 0
      BY <2>4, <3>3
    <3>. QED BY <1>1, <1>2, <1>3, <1>4, <2>1, <2>2, <2>4, <3>2, <3>4
  <2>. QED BY <2>3, <2>4
<1>6. K!buddy(i, o) >= 0 => Aligned(K!buddy(i, o), o)
  <2>1. CASE k % 2 = 0
    <3>1. (k + 1) * s = k * s + s
      BY <1>1, Multiples, Zenon
    <3>2. k + 1 \in Nat
      OBVIOUS
    <3>. QED BY <1>3, <2>1, <3>1, <3>2, Zenon DEF Aligned
  <2>2. CASE k % 2 # 0
    <3>1. k - 1 \in Nat /\ (k - 1) + 1 = k
      BY <2>2
    <3>2. k * s = (k - 1) * s + s /\ (k - 1) * s \in Nat
      BY <1>1, <3>1, Multiples
    <3>. QED BY <1>1, <1>3, <1>4, <2>2, <3>1, <3>2 DEF Aligned
  <2>. QED BY <2>1, <2>2
<1>. QED BY <1>1, <1>2, <1>3, <1>4, <1>5, <1>6

--------------------------------------------------------------------------------
(* Free lists. *)

LEMMA FreeUnion ==
  ASSUME NEW q
  PROVE  q \in K!FreePages <=> IsFree(q)
BY DEF K!FreePages, IsFree

LEMMA PushFree ==
  ASSUME freelist \in [K!Orders -> SUBSET K!Pages], NEW o \in K!Orders, NEW i, K!push(o, i)
  PROVE  /\ \A o2 \in K!Orders : \A j : j \in freelist'[o2] <=> j \in freelist[o2] \/ (o2 = o /\ j = i)
         /\ \A q : IsFree(q)' <=> IsFree(q) \/ q \in K!Block(i, o)
<1>1. \A o2 \in K!Orders : \A j : j \in freelist'[o2] <=> j \in freelist[o2] \/ (o2 = o /\ j = i)
  BY DEF K!push
<1>. QED BY <1>1 DEF IsFree, K!Block

LEMMA PopFree ==
  ASSUME freelist \in [K!Orders -> SUBSET K!Pages], Disjoint, NEW o \in K!Orders, NEW i \in freelist[o],
         freelist' = [freelist EXCEPT ![o] = @ \ {i}]
  PROVE  /\ \A o2 \in K!Orders : \A j :
              j \in freelist'[o2] <=> j \in freelist[o2] /\ ~(o2 = o /\ j = i)
         /\ \A q \in K!Pages : IsFree(q)' <=> IsFree(q) /\ q \notin K!Block(i, o)
<1>1. \A o2 \in K!Orders : \A j :
        j \in freelist'[o2] <=> j \in freelist[o2] /\ ~(o2 = o /\ j = i)
  OBVIOUS
<1>2. \A q \in K!Pages : IsFree(q)' <=> IsFree(q) /\ q \notin K!Block(i, o)
  <2> TAKE q \in K!Pages
  <2>1. IsFree(q)' => IsFree(q) /\ q \notin K!Block(i, o)
    BY <1>1 DEF IsFree, Disjoint, K!Block
  <2>2. IsFree(q) /\ q \notin K!Block(i, o) => IsFree(q)'
    BY <1>1 DEF IsFree, K!Block
  <2>. QED BY <2>1, <2>2
<1>. QED BY <1>1, <1>2

\* What the invariant says of the block in hand.
LEMMA HandFacts ==
  ASSUME K!Constants, KInv, k_pc # "idle"
  PROVE  /\ idx \in K!Pages /\ idx \in Nat /\ order \in K!Orders /\ Aligned(idx, order)
         /\ K!InHand = K!Block(idx, order) /\ K!Block(idx, order) \subseteq K!Pages
         /\ freelist \in [K!Orders -> SUBSET K!Pages]
<1>1. order \in K!Orders /\ idx \in K!Pages \cup {0} /\ freelist \in [K!Orders -> SUBSET K!Pages]
  BY Zenon DEF KInv, K!TypeOK
<1>2. K!InHand = K!Block(idx, order) /\ K!Block(idx, order) \subseteq K!Pages
  BY Zenon DEF KInv, Inside, K!InHand
<1>3. idx \in K!Block(idx, order) /\ idx \in Int
  <2>1. idx \in Int
    BY <1>1, Sizes
  <2>. QED BY <1>1, <2>1, InBlock
<1>4. Aligned(idx, order)
  BY Zenon DEF KInv, AllAligned
<1>. QED BY <1>1, <1>2, <1>3, <1>4, Sizes

LEMMA StartFacts ==
  ASSUME K!Constants, KInv, NEW o \in K!Orders, NEW i \in freelist[o]
  PROVE  /\ i \in K!Pages /\ i \in Nat /\ K!Block(i, o) \subseteq K!Pages /\ Aligned(i, o)
         /\ \A q \in K!Block(i, o) : IsFree(q) /\ q \notin K!InHand
<1>1. i \in K!Pages /\ K!Block(i, o) \subseteq K!Pages /\ Aligned(i, o)
  BY DEF KInv, K!TypeOK, Inside, AllAligned
<1>2. \A q \in K!Block(i, o) : IsFree(q) /\ q \notin K!InHand
  BY Zenon DEF IsFree, KInv, HandApart
<1>. QED BY <1>1, <1>2, Sizes

--------------------------------------------------------------------------------
(* The steps. *)

\* A page that nobody has is taken in hand, to be merged.
LEMMA StartMergeStep ==
  ASSUME K!Constants, KInv, NEW q \in K!Pages, k_pc = "idle", K!StartMerge(q), ~IsFree(q),
         boot' \in end .. NPAGES, refcnt' \in [K!Pages -> Nat],
         \A r \in K!Pages : (end <= r /\ r < boot' /\ refcnt'[r] = 0)
                            <=> (end <= r /\ r < boot /\ refcnt[r] = 0) \/ r = q,
         Unreleased'
  PROVE  KInv'
<1>1. /\ page_state' = page_state \cup {q} /\ k_pc' = "merge" /\ idx' = q /\ order' = 0
      /\ freelist' = freelist /\ K!InHand = {}
  BY DEF K!StartMerge, K!InHand
<1>2. K!Block(q, 0) = {q} /\ 0 \in K!Orders /\ Aligned(q, 0)
  <2>1. q \in Int /\ 0 \in K!Orders /\ Size[0] = 1
    BY Sizes
  <2>2. K!Block(q, 0) = {q}
    BY <2>1 DEF K!Block
  <2>3. q \in Nat /\ q = q * Size[0]
    BY <2>1, Sizes
  <2>. QED BY <2>1, <2>2, <2>3 DEF Aligned
<1>3. K!InHand' = {q}
  BY <1>1, <1>2 DEF K!InHand, K!Block
<1>4. \A r : IsFree(r)' <=> IsFree(r)
  BY <1>1 DEF IsFree, K!Block
<1>5. K!TypeOK'
  BY <1>1, <1>2 DEF KInv, K!TypeOK
<1>6. Disjoint' /\ NoBuddies'
  BY <1>1 DEF KInv, Disjoint, NoBuddies, K!Block, K!buddy
<1>7. HandApart'
  BY <1>3, <1>4 DEF HandApart
<1>8. Inside'
  BY <1>1, <1>3 DEF KInv, Inside, K!Block
<1>9. Accounted'
  BY <1>1, <1>3, <1>4 DEF KInv, Accounted
<1>10. Marked'
  BY <1>1, <1>3, <1>4 DEF KInv, Marked
<1>11. AllAligned'
  BY <1>1, <1>2 DEF KInv, AllAligned, Aligned
<1>. QED BY <1>5, <1>6, <1>7, <1>8, <1>9, <1>10, <1>11 DEF KInv

\* A count that is not zero changes to another that is not.
LEMMA CountStep ==
  ASSUME K!Constants, KInv, boot' = boot, UNCHANGED <<freelist, page_state, k_pc, idx, order>>,
         refcnt' \in [K!Pages -> Nat], \A r \in K!Pages : refcnt'[r] = 0 <=> refcnt[r] = 0
  PROVE  KInv'
<1>1. /\ freelist' = freelist /\ page_state' = page_state /\ k_pc' = k_pc /\ idx' = idx /\ order' = order
      /\ K!InHand' = K!InHand
  BY DEF K!InHand, K!Block
<1>2. \A r : IsFree(r)' <=> IsFree(r)
  BY <1>1 DEF IsFree, K!Block
<1>3. K!TypeOK'
  BY <1>1 DEF KInv, K!TypeOK
<1>4. Disjoint' /\ NoBuddies' /\ Inside' /\ AllAligned'
  BY <1>1 DEF KInv, Disjoint, NoBuddies, Inside, AllAligned, Aligned, K!Block, K!buddy
<1>5. HandApart' /\ Accounted' /\ Marked' /\ Unreleased'
  BY <1>1, <1>2 DEF KInv, HandApart, Accounted, Marked, Unreleased
<1>. QED BY <1>3, <1>4, <1>5 DEF KInv

LEMMA FreerangeStep ==
  ASSUME K!Constants, KInv, K!freerange
  PROVE  KInv'
<1>1. /\ k_pc = "idle" /\ boot < NPAGES /\ boot' = boot + 1 /\ K!StartMerge(boot)
      /\ refcnt' = refcnt
  BY DEF K!freerange
<1>2. boot \in end .. NPAGES /\ refcnt \in [K!Pages -> Nat]
  BY DEF KInv, K!TypeOK
<1>3. boot \in K!Pages /\ boot' \in end .. NPAGES
  BY <1>1, <1>2, Sizes DEF K!Pages
<1>4. ~IsFree(boot)
  BY <1>2, <1>3, Sizes DEF KInv, Accounted
<1>5. refcnt[boot] = 0
  BY <1>2, <1>3 DEF KInv, Unreleased
<1>6. \A r \in K!Pages : (end <= r /\ r < boot' /\ refcnt'[r] = 0)
                         <=> (end <= r /\ r < boot /\ refcnt[r] = 0) \/ r = boot
  BY <1>1, <1>2, <1>5, Sizes
<1>7. Unreleased'
  BY <1>1, <1>2, Sizes DEF KInv, Unreleased
<1>. QED BY <1>1, <1>2, <1>3, <1>4, <1>6, <1>7, StartMergeStep

LEMMA KfreeStep ==
  ASSUME K!Constants, KInv, NEW q \in K!Pages, K!kfree(q)
  PROVE  KInv'
<1>1. /\ k_pc = "idle" /\ boot = NPAGES /\ q >= end /\ refcnt[q] >= 1
      /\ refcnt' = [refcnt EXCEPT ![q] = @ - 1] /\ boot' = boot
  BY DEF K!kfree
<1>2. refcnt \in [K!Pages -> Nat] /\ refcnt' \in [K!Pages -> Nat] /\ boot' \in end .. NPAGES
  BY <1>1, Sizes DEF KInv, K!TypeOK
<1>3. CASE refcnt[q] > 1 /\ UNCHANGED <<freelist, page_state, k_pc, idx, order>>
  BY <1>1, <1>2, <1>3, CountStep
<1>4. CASE refcnt[q] = 1 /\ K!StartMerge(q)
  <2>1. ~IsFree(q)
    BY <1>1, <1>4 DEF KInv, Accounted
  <2>2. \A r \in K!Pages : (end <= r /\ r < boot' /\ refcnt'[r] = 0)
                           <=> (end <= r /\ r < boot /\ refcnt[r] = 0) \/ r = q
    BY <1>1, <1>2, <1>4, Sizes DEF K!Pages
  <2>3. Unreleased'
    BY <1>1, <1>2, Sizes DEF K!Pages, Unreleased
  <2>. QED BY <1>1, <1>2, <1>4, <2>1, <2>2, <2>3, StartMergeStep
<1>. QED BY <1>3, <1>4 DEF K!kfree

LEMMA KaddrefStep ==
  ASSUME K!Constants, KInv, NEW q \in K!Pages, K!kaddref(q)
  PROVE  KInv'
<1>1. /\ refcnt[q] >= 1 /\ refcnt' = [refcnt EXCEPT ![q] = @ + 1] /\ boot' = boot
      /\ UNCHANGED <<freelist, page_state, k_pc, idx, order>>
  <2>1. refcnt[q] \in 1 .. MAXREF - 1
    BY DEF K!kaddref
  <2>2. refcnt[q] >= 1
    BY <2>1 DEF K!Constants
  <2>. QED BY <2>2 DEF K!kaddref
<1>2. refcnt' \in [K!Pages -> Nat] /\ \A r \in K!Pages : refcnt'[r] = 0 <=> refcnt[r] = 0
  BY <1>1 DEF KInv, K!TypeOK
<1>. QED BY <1>1, <1>2, CountStep
\* A block apart from the free ones may join them.
LEMMA ApartDisjoint ==
  ASSUME Disjoint, NEW o \in K!Orders, NEW i, \A q \in K!Block(i, o) : ~IsFree(q),
         \A o2 \in K!Orders : \A j : j \in freelist'[o2] <=> j \in freelist[o2] \/ (o2 = o /\ j = i)
  PROVE  Disjoint'
<1> SUFFICES ASSUME NEW o1 \in K!Orders, NEW o2 \in K!Orders, NEW i1 \in freelist'[o1],
                    NEW i2 \in freelist'[o2], NEW q \in K!Pages, q \in K!Block(i1, o1), q \in K!Block(i2, o2)
             PROVE  o1 = o2 /\ i1 = i2
  BY DEF Disjoint, K!Block
<1>1. CASE i1 \in freelist[o1] /\ i2 \in freelist[o2]
  BY <1>1, Zenon DEF Disjoint
<1>2. CASE i1 \in freelist[o1] /\ o2 = o /\ i2 = i
  BY <1>2, Zenon DEF IsFree
<1>3. CASE o1 = o /\ i1 = i /\ i2 \in freelist[o2]
  BY <1>3, Zenon DEF IsFree
<1>. QED BY <1>1, <1>2, <1>3

\* So may one whose buddy is not free, as far as buddies go.
LEMMA PushBuddies ==
  ASSUME K!Constants, KInv, NEW o \in K!Orders, NEW i, Aligned(i, o),
         o < MAX_ORDER => K!buddy(i, o) \notin freelist[o],
         \A o2 \in K!Orders : \A j : j \in freelist'[o2] <=> j \in freelist[o2] \/ (o2 = o /\ j = i)
  PROVE  NoBuddies'
<1> SUFFICES ASSUME NEW o2 \in K!Orders, o2 < MAX_ORDER, NEW j \in freelist'[o2],
                    K!buddy(j, o2) \in freelist'[o2]
             PROVE  FALSE
  BY DEF NoBuddies, K!buddy
<1>1. CASE j \in freelist[o2] /\ K!buddy(j, o2) \in freelist[o2]
  BY <1>1, Zenon DEF KInv, NoBuddies
<1>2. CASE o2 = o /\ j = i /\ K!buddy(j, o2) \in freelist[o2]
  BY <1>2
<1>3. CASE o2 = o /\ j \in freelist[o2] /\ K!buddy(j, o2) = i
  <2>1. Aligned(j, o)
    BY <1>3, Zenon DEF KInv, AllAligned
  <2>. QED BY <1>3, <2>1, BuddyBack
<1>4. CASE o2 = o /\ j = i /\ K!buddy(j, o2) = i
  BY <1>4, BuddyBack
<1>. QED BY <1>1, <1>2, <1>3, <1>4


\* The block in hand and its buddy make the block of the next order.
LEMMA MergeStep ==
  ASSUME K!Constants, KInv, K!merge
  PROVE  KInv'
<1> DEFINE b == K!buddy(idx, order)
           i == IF b < idx THEN b ELSE idx
<1>1. /\ k_pc = "merge" /\ order < MAX_ORDER /\ b \in K!Pages /\ b \in freelist[order]
      /\ k_pc' = k_pc /\ refcnt' = refcnt /\ boot' = boot /\ order' = order + 1
      /\ freelist' = [freelist EXCEPT ![order] = @ \ {b}]
      /\ page_state' = (page_state \ (K!Block(idx, order) \cup K!Block(b, order)))
                         \cup K!Block(i, order + 1)
      /\ idx' = i
  BY DEF K!merge, K!mergeable
<1>2. /\ idx \in K!Pages /\ idx \in Nat /\ order \in K!Orders /\ Aligned(idx, order)
      /\ K!InHand = K!Block(idx, order) /\ K!Block(idx, order) \subseteq K!Pages
      /\ freelist \in [K!Orders -> SUBSET K!Pages]
  BY <1>1, HandFacts
<1>3. /\ b \in Nat /\ K!Block(b, order) \subseteq K!Pages
      /\ \A q \in K!Block(b, order) : IsFree(q) /\ q \notin K!InHand
  BY <1>1, <1>2, StartFacts, Zenon
<1>4. /\ order + 1 \in K!Orders /\ Size[order + 1] = 2 * Size[order] /\ Size[order] \in Nat \ {0}
  BY <1>1, <1>2, Sizes
<1>5. (b = idx + Size[order] \/ b = idx - Size[order]) /\ i \in K!Pages /\ Aligned(i, order + 1)
  <2>1. PICK k \in Nat : idx = k * Size[order]
    BY <1>2 DEF Aligned
  <2>2. b = IF k % 2 = 0 THEN k * Size[order] + Size[order] ELSE k * Size[order] - Size[order]
    BY <1>2, <2>1, BuddyOf
  <2> HIDE DEF b
  <2>3. i \in K!Pages
    BY <1>1, <1>2
  <2>4. CASE k % 2 = 0
    <3>1. PICK m \in Nat : k = 2 * m
      BY <2>4
    <3>2. i = idx /\ b = idx + Size[order]
      BY <1>2, <1>4, <2>1, <2>2, <2>4
    <3>3. (2 * m) * Size[order] = m * (2 * Size[order])
      BY <1>4, <3>1, Multiples
    <3>4. i = m * Size[order + 1]
      BY <1>4, <2>1, <3>1, <3>2, <3>3
    <3>. QED BY <2>3, <3>2, <3>4 DEF Aligned
  <2>5. CASE k % 2 # 0
    <3>1. PICK m \in Nat : k = 2 * m + 1
      BY <2>5
    <3>2. i = b /\ b = idx - Size[order]
      BY <1>2, <1>4, <2>1, <2>2, <2>5
    <3>3. (2 * m + 1) * Size[order] = m * (2 * Size[order]) + Size[order] /\ m * (2 * Size[order]) \in Nat
      BY <1>4, <3>1, Multiples
    <3>4. i = m * Size[order + 1]
      BY <1>4, <2>1, <3>1, <3>2, <3>3
    <3>. QED BY <2>3, <3>2, <3>4 DEF Aligned
  <2>. QED BY <2>4, <2>5
<1> HIDE DEF b
<1>6. \A q \in Int : q \in K!Block(i, order + 1) <=> q \in K!Block(idx, order) \/ q \in K!Block(b, order)
  <2>1. CASE b = idx + Size[order]
    <3>1. i = idx
      BY <1>2, <1>4, <2>1
    <3>. QED BY <1>2, <1>4, <2>1, <3>1, SMTT(60) DEF K!Block
  <2>2. CASE b = idx - Size[order]
    <3>1. i = b
      BY <1>2, <1>4, <2>2
    <3>. QED BY <1>2, <1>4, <2>2, <3>1, SMTT(60) DEF K!Block
  <2>. QED BY <1>5, <2>1, <2>2
<1>7. K!Block(i, order + 1) \subseteq K!Pages
  <2>1. i \in Int /\ K!Block(i, order + 1) \subseteq Int
    BY <1>2, <1>3, <1>4 DEF K!Block
  <2>. QED BY <1>2, <1>3, <1>6, <2>1
<1> HIDE DEF i
<1>8. K!InHand' = K!Block(i, order + 1)
  BY <1>1 DEF K!InHand, K!Block
<1>9. /\ \A o2 \in K!Orders : \A j :
           j \in freelist'[o2] <=> j \in freelist[o2] /\ ~(o2 = order /\ j = b)
      /\ \A q \in K!Pages : IsFree(q)' <=> IsFree(q) /\ q \notin K!Block(b, order)
  <2>1. Disjoint
    BY DEF KInv
  <2>. QED BY <1>1, <1>2, <2>1, PopFree, Zenon
<1>10. \A q \in K!Pages : q \in K!InHand' <=> q \in K!InHand \/ q \in K!Block(b, order)
  BY <1>2, <1>6, <1>8, Sizes
<1>11. K!TypeOK'
  <2>1. freelist' \in [K!Orders -> SUBSET K!Pages]
    BY <1>1, <1>2
  <2>2. page_state' \in SUBSET K!Pages
    BY <1>1, <1>7 DEF KInv, K!TypeOK
  <2>. QED BY <1>1, <1>4, <1>5, <2>1, <2>2 DEF KInv, K!TypeOK
<1>12. Disjoint'
  BY <1>9 DEF KInv, Disjoint, K!Block
<1>13. NoBuddies'
  BY <1>9 DEF KInv, NoBuddies, K!buddy
<1>14. HandApart'
  BY <1>7, <1>8, <1>9, <1>10 DEF KInv, HandApart
<1>15. Inside'
  <2>1. \A o \in K!Orders : \A j \in freelist'[o] : K!Block(j, o) \subseteq K!Pages
    BY <1>9 DEF KInv, Inside
  <2>. QED BY <1>7, <1>8, <2>1 DEF Inside, K!Block
<1>16. Accounted' /\ Unreleased'
  BY <1>1, <1>3, <1>9, <1>10 DEF KInv, Accounted, Unreleased
<1>17. Marked'
  <2>1. \A q \in K!Pages : q \in page_state' <=> q \in page_state \/ q \in K!InHand'
    BY <1>1, <1>2, <1>6, <1>8, Sizes
  <2>. QED BY <1>1, <1>3, <1>9, <1>10, <2>1 DEF KInv, Marked
<1>18. AllAligned'
  <2>1. \A o \in K!Orders : \A j \in freelist'[o] : Aligned(j, o)
    BY <1>9 DEF KInv, AllAligned
  <2>. QED BY <1>1, <1>5, <2>1 DEF AllAligned, Aligned
<1>. QED BY <1>11, <1>12, <1>13, <1>14, <1>15, <1>16, <1>17, <1>18 DEF KInv

\* The block in hand goes to its list, where its buddy is not.
LEMMA MergeEndsStep ==
  ASSUME K!Constants, KInv, K!merge_ends
  PROVE  KInv'
<1>1. /\ k_pc = "merge" /\ ~K!mergeable(idx, order) /\ K!push(order, idx) /\ k_pc' = "idle"
      /\ page_state' = page_state /\ refcnt' = refcnt /\ boot' = boot /\ idx' = idx /\ order' = order
  BY DEF K!merge_ends, K!merge_stops
<1>2. /\ idx \in K!Pages /\ idx \in Nat /\ order \in K!Orders /\ Aligned(idx, order)
      /\ K!InHand = K!Block(idx, order) /\ K!Block(idx, order) \subseteq K!Pages
      /\ freelist \in [K!Orders -> SUBSET K!Pages]
  BY <1>1, HandFacts
<1>3. /\ \A o2 \in K!Orders : \A j :
           j \in freelist'[o2] <=> j \in freelist[o2] \/ (o2 = order /\ j = idx)
      /\ \A q : IsFree(q)' <=> IsFree(q) \/ q \in K!Block(idx, order)
  BY <1>1, <1>2, PushFree
<1>4. K!InHand' = {}
  BY <1>1 DEF K!InHand
<1>5. K!TypeOK'
  BY <1>1, <1>2 DEF KInv, K!TypeOK, K!push
<1>6. Disjoint'
  BY <1>2, <1>3, ApartDisjoint DEF KInv, HandApart
<1>7. order < MAX_ORDER => K!buddy(idx, order) \notin freelist[order]
  <2> SUFFICES ASSUME order < MAX_ORDER, K!buddy(idx, order) \in freelist[order]
               PROVE  FALSE
    OBVIOUS
  <2>1. K!buddy(idx, order) \in K!Pages /\ K!Block(K!buddy(idx, order), order) \subseteq K!Pages
        /\ \A q \in K!Block(K!buddy(idx, order), order) : IsFree(q)
    BY <1>2, StartFacts, Zenon
  <2>2. K!buddy(idx, order) \in K!Block(K!buddy(idx, order), order)
    <3>1. K!buddy(idx, order) \in Int
      BY <2>1, Sizes
    <3>. QED BY <1>2, <3>1, InBlock
  <2>3. K!buddy(idx, order) \in page_state
    BY <2>1, <2>2 DEF KInv, Marked
  <2>. QED BY <1>1, <2>1, <2>3 DEF K!mergeable
<1>8. NoBuddies'
  BY <1>2, <1>3, <1>7, PushBuddies
<1>9. HandApart' /\ Inside' /\ AllAligned'
  <2>1. HandApart'
    BY <1>4 DEF HandApart
  <2>2. Inside'
    BY <1>2, <1>3, <1>4, Zenon DEF KInv, Inside, K!Block
  <2>3. AllAligned'
    BY <1>1, <1>2, <1>3, ZenonT(60) DEF KInv, AllAligned, Aligned
  <2>. QED BY <2>1, <2>2, <2>3
<1>10. Accounted' /\ Unreleased' /\ Marked'
  BY <1>1, <1>2, <1>3, <1>4 DEF KInv, Accounted, Unreleased, Marked
<1>. QED BY <1>5, <1>6, <1>8, <1>9, <1>10 DEF KInv

LEMMA KallocStep ==
  ASSUME K!Constants, KInv, K!kalloc
  PROVE  KInv'
<1>1. k_pc = "idle" /\ k_pc' = "split" /\ refcnt' = refcnt /\ boot' = boot /\ K!InHand = {}
  BY DEF K!kalloc, K!InHand
<1>2. PICK o \in K!Orders, i \in K!Pages :
        /\ i \in freelist[o]
        /\ freelist' = [freelist EXCEPT ![o] = @ \ {i}]
        /\ page_state' = page_state \ K!Block(i, o)
        /\ idx' = i /\ order' = o
  BY Zenon DEF K!kalloc, K!taken
<1>3. /\ i \in Nat /\ K!Block(i, o) \subseteq K!Pages /\ Aligned(i, o)
      /\ \A q \in K!Block(i, o) : IsFree(q)
  BY <1>2, StartFacts
<1>4. /\ freelist \in [K!Orders -> SUBSET K!Pages] /\ Disjoint
  BY DEF KInv, K!TypeOK
<1>5. /\ \A o2 \in K!Orders : \A j :
           j \in freelist'[o2] <=> j \in freelist[o2] /\ ~(o2 = o /\ j = i)
      /\ \A q \in K!Pages : IsFree(q)' <=> IsFree(q) /\ q \notin K!Block(i, o)
  BY <1>2, <1>4, PopFree, Zenon
<1>6. K!InHand' = K!Block(i, o)
  BY <1>1, <1>2 DEF K!InHand, K!Block
<1>7. K!TypeOK'
  BY <1>1, <1>2 DEF KInv, K!TypeOK
<1>8. Disjoint' /\ NoBuddies'
  BY <1>5 DEF KInv, Disjoint, NoBuddies, K!Block, K!buddy
<1>9. HandApart'
  BY <1>3, <1>5, <1>6, Zenon DEF HandApart
<1>10. Inside'
  <2>1. \A o2 \in K!Orders : \A j \in freelist'[o2] : K!Block(j, o2) \subseteq K!Pages
    BY <1>5 DEF KInv, Inside
  <2>. QED BY <1>3, <1>6, <2>1 DEF Inside, K!Block
<1>11. Accounted' /\ Unreleased'
  BY <1>1, <1>3, <1>5, <1>6, ZenonT(60) DEF KInv, Accounted, Unreleased
<1>12. Marked'
  BY <1>1, <1>2, <1>3, <1>5 DEF KInv, Marked
<1>13. AllAligned'
  <2>1. \A o2 \in K!Orders : \A j \in freelist'[o2] : Aligned(j, o2)
    BY <1>5 DEF KInv, AllAligned
  <2>. QED BY <1>1, <1>2, <1>3, <2>1 DEF AllAligned, Aligned
<1>. QED BY <1>7, <1>8, <1>9, <1>10, <1>11, <1>12, <1>13 DEF KInv

\* The upper half of the block in hand goes to its list; its buddy stays in hand.
LEMMA SplitStep ==
  ASSUME K!Constants, KInv, K!split
  PROVE  KInv'
<1> DEFINE o == order - 1
           b == idx + Size[o]
<1>1. /\ k_pc = "split" /\ order > 0 /\ page_state' = page_state \cup K!Block(b, o) /\ K!push(o, b)
      /\ order' = o /\ refcnt' = refcnt /\ boot' = boot /\ k_pc' = k_pc /\ idx' = idx
  BY DEF K!split
<1>2. /\ idx \in K!Pages /\ idx \in Nat /\ order \in K!Orders /\ Aligned(idx, order)
      /\ K!InHand = K!Block(idx, order) /\ K!Block(idx, order) \subseteq K!Pages
      /\ freelist \in [K!Orders -> SUBSET K!Pages]
  BY <1>1, HandFacts
<1>3. /\ o \in K!Orders /\ Size[order] = 2 * Size[o] /\ Size[o] \in Nat \ {0}
      /\ o < MAX_ORDER /\ o + 1 = order
  BY <1>1, <1>2, Sizes DEF K!Orders
<1>4. Aligned(idx, o) /\ Aligned(b, o) /\ K!buddy(b, o) = idx
  <2>1. PICK k \in Nat : idx = k * Size[order]
    BY <1>2 DEF Aligned
  <2>2. idx = (2 * k) * Size[o] /\ b = (2 * k + 1) * Size[o] /\ 2 * k \in Nat /\ 2 * k + 1 \in Nat
    BY <1>3, <2>1, Multiples
  <2>3. (2 * k + 1) % 2 # 0
    OBVIOUS
  <2>4. K!buddy((2 * k + 1) * Size[o], o) = (2 * k + 1) * Size[o] - Size[o]
    BY <1>3, <2>2, <2>3, BuddyOf
  <2>5. K!buddy(b, o) = b - Size[o]
    BY <2>2, <2>4
  <2>6. b - Size[o] = idx
    BY <1>2, <1>3
  <2>. QED BY <2>2, <2>5, <2>6 DEF Aligned
<1>5. b \in Nat /\ \A q \in Int : q \in K!Block(idx, order)
                     <=> q \in K!Block(idx, o) \/ q \in K!Block(b, o)
  BY <1>2, <1>3, SMTT(60) DEF K!Block
<1>6. \A q \in Int : ~(q \in K!Block(idx, o) /\ q \in K!Block(b, o))
  BY <1>2, <1>3 DEF K!Block
<1>7. K!Block(idx, o) \subseteq K!Pages /\ K!Block(b, o) \subseteq K!Pages /\ b \in K!Block(b, o) /\ idx \in K!Block(idx, o)
  <2>1. K!Block(idx, o) \subseteq Int /\ K!Block(b, o) \subseteq Int
    BY <1>2, <1>3 DEF K!Block
  <2>2. b \in K!Block(b, o) /\ idx \in K!Block(idx, o)
    BY <1>2, <1>3, <1>5, InBlock
  <2>. QED BY <1>2, <1>5, <2>1, <2>2
<1> HIDE DEF b, o
<1>8. K!InHand' = K!Block(idx, o)
  BY <1>1 DEF K!InHand, K!Block
<1>9. /\ \A o2 \in K!Orders : \A j :
           j \in freelist'[o2] <=> j \in freelist[o2] \/ (o2 = o /\ j = b)
      /\ \A q : IsFree(q)' <=> IsFree(q) \/ q \in K!Block(b, o)
  BY <1>1, <1>2, <1>3, PushFree
<1>10. \A q \in K!Pages : q \in K!InHand <=> q \in K!InHand' \/ q \in K!Block(b, o)
  BY <1>2, <1>5, <1>8, Sizes
<1>11. K!TypeOK'
  <2>1. b \in K!Pages
    BY <1>7
  <2>2. freelist' \in [K!Orders -> SUBSET K!Pages]
    BY <1>1, <1>2, <1>3, <2>1 DEF K!push
  <2>. QED BY <1>1, <1>2, <1>3, <1>7, <2>2, Zenon DEF KInv, K!TypeOK
<1>12. \A q \in K!Block(b, o) : ~IsFree(q)
  BY <1>7, <1>10 DEF KInv, HandApart
<1>13. Disjoint'
  BY <1>3, <1>9, <1>12, ApartDisjoint DEF KInv
<1>14. NoBuddies'
  <2>1. idx \notin freelist[o]
    BY <1>3, <1>7, <1>8, <1>10, ZenonT(60) DEF KInv, HandApart, IsFree
  <2>. QED BY <1>3, <1>4, <1>9, <2>1, PushBuddies
<1>15. HandApart'
  <2>1. \A q \in K!Block(idx, o) : q \in Int /\ q \in K!Pages
    BY <1>7, Sizes
  <2>. QED BY <1>6, <1>8, <1>9, <1>10, <2>1 DEF KInv, HandApart
<1>16. Inside'
  <2>1. \A o2 \in K!Orders : \A j \in freelist'[o2] : K!Block(j, o2) \subseteq K!Pages
    BY <1>7, <1>9 DEF KInv, Inside
  <2>. QED BY <1>7, <1>8, <2>1 DEF Inside, K!Block
<1>17. Accounted' /\ Unreleased'
  BY <1>1, <1>9, <1>10 DEF KInv, Accounted, Unreleased
<1>18. Marked'
  BY <1>1, <1>9 DEF KInv, Marked
<1>19. AllAligned'
  <2>1. \A o2 \in K!Orders : \A j \in freelist'[o2] : Aligned(j, o2)
    BY <1>4, <1>9 DEF KInv, AllAligned
  <2>. QED BY <1>1, <1>4, <2>1 DEF AllAligned, Aligned
<1>. QED BY <1>11, <1>13, <1>14, <1>15, <1>16, <1>17, <1>18, <1>19 DEF KInv

\* The page in hand gets its reference.
LEMMA SplitEndsStep ==
  ASSUME K!Constants, KInv, K!split_ends
  PROVE  KInv'
<1>1. /\ k_pc = "split" /\ order = 0 /\ refcnt' = [refcnt EXCEPT ![idx] = 1] /\ k_pc' = "idle"
      /\ freelist' = freelist /\ page_state' = page_state /\ boot' = boot
      /\ idx' = idx /\ order' = order
  BY DEF K!split_ends
<1>2. /\ idx \in K!Pages /\ idx \in Nat /\ K!InHand = K!Block(idx, 0)
  BY <1>1, HandFacts
<1>3. K!InHand = {idx} /\ K!InHand' = {}
  BY <1>1, <1>2, Sizes DEF K!Block, K!InHand
<1>4. \A r : IsFree(r)' <=> IsFree(r)
  BY <1>1 DEF IsFree, K!Block
<1>5. K!TypeOK'
  BY <1>1, <1>2 DEF KInv, K!TypeOK
<1>6. Disjoint' /\ NoBuddies' /\ Inside' /\ AllAligned' /\ HandApart'
  BY <1>1, <1>3 DEF KInv, Disjoint, NoBuddies, Inside, AllAligned, Aligned, HandApart, K!Block, K!buddy
<1>7. refcnt \in [K!Pages -> Nat] /\ ~IsFree(idx) /\ idx < boot
  BY <1>2, <1>3 DEF KInv, K!TypeOK, HandApart, Accounted
<1>8. Accounted' /\ Marked'
  BY <1>1, <1>2, <1>3, <1>4, <1>7 DEF KInv, Accounted, Marked
<1>9. Unreleased'
  <2>1. boot \in Nat
    BY Sizes DEF KInv, K!TypeOK
  <2>. QED BY <1>1, <1>2, <1>7, <2>1 DEF KInv, Unreleased
<1>. QED BY <1>5, <1>6, <1>8, <1>9 DEF KInv

--------------------------------------------------------------------------------
(* Theorems. *)

LEMMA InitHolds ==
  ASSUME K!Constants, K!Init
  PROVE  KInv
<1>1. /\ freelist = [o \in K!Orders |-> {}] /\ page_state = {} /\ refcnt = [q \in K!Pages |-> 0]
      /\ boot = end /\ k_pc = "idle" /\ idx = 0 /\ order = 0 /\ K!InHand = {}
  BY DEF K!Init, K!InHand
<1>2. \A q : ~IsFree(q)
  BY <1>1 DEF IsFree
<1>3. K!TypeOK
  BY <1>1, Sizes DEF K!TypeOK
<1>4. Disjoint /\ HandApart /\ Inside /\ AllAligned /\ NoBuddies
  BY <1>1 DEF Disjoint, HandApart, Inside, AllAligned, NoBuddies
<1>5. Accounted /\ Unreleased /\ Marked
  BY <1>1, <1>2, Sizes DEF Accounted, Unreleased, Marked
<1>. QED BY <1>3, <1>4, <1>5 DEF KInv

LEMMA NextHolds ==
  ASSUME K!Constants, KInv, [K!Next]_(K!vars)
  PROVE  KInv'
<1>1. CASE K!Next
  BY <1>1, FreerangeStep, KfreeStep, KaddrefStep, MergeStep, MergeEndsStep, KallocStep, SplitStep,
     SplitEndsStep, Zenon DEF K!Next
<1>2. CASE UNCHANGED K!vars
  BY <1>2, CountStep DEF K!vars, KInv, K!TypeOK
<1>. QED BY <1>1, <1>2

\* The invariant of the allocator.
THEOREM KallocInvariant ==
  ASSUME K!Constants
  PROVE  K!Spec => []KInv
BY InitHolds, NextHolds, PTL DEF K!Spec

LEMMA IInvPages ==
  ASSUME K!Constants, KInv
  PROVE  K!PagesExact
<1>1. \A q : q \in K!FreePages <=> IsFree(q)
  BY FreeUnion, ZenonT(60)
<1>2. K!FreePages \subseteq K!Pages
  BY DEF KInv, Inside, K!FreePages
<1>3. \A q \in K!Pages : (q \in K!FreePages \cup K!InHand) <=> (end <= q /\ q < boot /\ refcnt[q] = 0)
  BY <1>1, Zenon DEF KInv, Accounted
<1>4. \A o1, o2 \in K!Orders : \A i1 \in freelist[o1], i2 \in freelist[o2] :
        <<o1, i1>> # <<o2, i2>> => K!Block(i1, o1) \cap K!Block(i2, o2) = {}
  <2> SUFFICES ASSUME NEW o1 \in K!Orders, NEW o2 \in K!Orders, NEW i1 \in freelist[o1],
                      NEW i2 \in freelist[o2], NEW q, q \in K!Block(i1, o1), q \in K!Block(i2, o2)
               PROVE  o1 = o2 /\ i1 = i2
    BY Zenon
  <2>1. q \in K!Pages
    BY Zenon DEF KInv, Inside
  <2>. QED BY <2>1, Zenon DEF KInv, Disjoint
<1>5. K!FreePages \cap K!InHand = {}
  BY <1>1, Zenon DEF KInv, HandApart
<1>6. page_state = K!FreePages \cup (IF k_pc = "merge" THEN K!InHand ELSE {})
  <2>1. page_state \subseteq K!Pages /\ K!InHand \subseteq K!Pages
    BY DEF KInv, K!TypeOK, Inside
  <2>. QED BY <1>1, <1>2, <2>1 DEF KInv, Marked
<1>. QED BY <1>3, <1>4, <1>5, <1>6 DEF K!PagesExact

\* kalloc, kfree, kaddref and freerange never lose a page, hand one out twice or
\* leave it in two blocks, and page_state marks the free ones.
THEOREM KallocPagesExact ==
  ASSUME K!Constants
  PROVE  K!Spec => []K!PagesExact
BY KallocInvariant, IInvPages, PTL

LEMMA IInvMerged ==
  ASSUME K!Constants, KInv
  PROVE  K!MergedFully
<1>1. \A o \in K!Orders : \A i \in freelist[o] : i % Size[o] = 0
  <2> SUFFICES ASSUME NEW o \in K!Orders, NEW i \in freelist[o]
               PROVE  i % Size[o] = 0
    OBVIOUS
  <2>1. Size[o] \in Nat \ {0}
    BY Sizes
  <2>2. PICK k \in Nat : i = k * Size[o]
    BY Zenon DEF KInv, AllAligned, Aligned
  <2>3. i \div Size[o] = k
    BY <2>1, <2>2, BlockNumber
  <2>4. i \in Nat /\ i = Size[o] * (i \div Size[o]) + (i % Size[o])
    BY <2>1, <2>2
  <2>5. i % Size[o] \in Nat /\ Size[o] * k = k * Size[o]
    BY <2>1, <2>4
  <2>. QED BY <2>2, <2>3, <2>4, <2>5
<1>. QED BY <1>1 DEF KInv, NoBuddies, K!MergedFully

\* kfree merges, and kalloc splits, so that free blocks are aligned and no two of
\* them could be one.
THEOREM KallocMergedFully ==
  ASSUME K!Constants
  PROVE  K!Spec => []K!MergedFully
BY KallocInvariant, IInvMerged, PTL

--------------------------------------------------------------------------------
(* The UART: uart.c for any number of writers and any depth of the transmitter. *)

CONSTANTS Writers, MAXN, FIFO
VARIABLES held, thre, tx_busy, u_pc, left, sync

U == INSTANCE Uart WITH pc <- u_pc

\* A write that is not over has characters left.
UartInv ==
  /\ U!TypeOK
  /\ U!NoLostInterrupt
  /\ \A p \in Writers : u_pc[p] # "user" => left[p] > 0

LEMMA InitUart ==
  ASSUME U!Constants, U!Init
  PROVE  UartInv
<1>1. held = 0 /\ 0 \in 0 .. FIFO /\ 0 \in 0 .. MAXN
  BY DEF U!Constants, U!Init
<1>2. /\ thre = FALSE /\ tx_busy = FALSE /\ sync = FALSE
      /\ u_pc = [p \in Writers |-> "user"] /\ left = [p \in Writers |-> 0]
  BY DEF U!Init
<1>. QED BY <1>1, <1>2, Zenon DEF UartInv, U!TypeOK, U!NoLostInterrupt

\* A character goes to the transmitter, which is then not empty.
LEMMA PutHolds ==
  ASSUME U!Constants, U!TypeOK, U!put
  PROVE  held' \in 0 .. FIFO /\ held' > 0 /\ thre' = FALSE
BY DEF U!Constants, U!TypeOK, U!put

LEMMA NextUart ==
  ASSUME U!Constants, UartInv, [U!Next]_(U!vars)
  PROVE  UartInv'
<1> USE DEF UartInv, U!TypeOK, U!NoLostInterrupt
<1>1. CASE U!device_send
  BY <1>1 DEF U!device_send, U!Constants
<1>2. ASSUME NEW p \in Writers, NEW k \in 1 .. MAXN, U!uartwrite(p, k)
      PROVE  UartInv'
  BY <1>2 DEF U!uartwrite, U!Constants
<1>3. ASSUME NEW p \in Writers, U!uartwrite_loop(p)
      PROVE  UartInv'
  <2>1. CASE tx_busy
    BY <1>3, <2>1 DEF U!uartwrite_loop
  <2>2. CASE ~tx_busy
    <3>1. /\ u_pc[p] = "run" /\ U!put /\ tx_busy' = TRUE /\ left' = [left EXCEPT ![p] = @ - 1]
          /\ u_pc' = [u_pc EXCEPT ![p] = IF left[p] = 1 THEN "user" ELSE "asleep"] /\ sync' = sync
      BY <1>3, <2>2 DEF U!uartwrite_loop
    <3>2. held' \in 0 .. FIFO /\ held' > 0 /\ thre' = FALSE
      BY <3>1, PutHolds, Zenon
    <3>3. left[p] \in 1 .. MAXN /\ left' \in [Writers -> 0 .. MAXN]
      BY <3>1 DEF U!Constants
    <3>4. u_pc' \in [Writers -> {"user", "run", "asleep"}] /\ sync' \in BOOLEAN
      BY <3>1
    <3>5. \A q \in Writers : u_pc'[q] # "user" => left'[q] > 0
      BY <3>1, <3>3
    <3>. QED BY <3>1, <3>2, <3>3, <3>4, <3>5, Zenon
  <2>. QED BY <2>1, <2>2
<1>4. CASE U!uartputc_sync
  BY <1>4 DEF U!uartputc_sync
<1>5. CASE U!uartputc_sync_put
  BY <1>5, PutHolds, Zenon DEF U!uartputc_sync_put
<1>6. ASSUME NEW rx \in BOOLEAN, NEW echo \in BOOLEAN, U!uartintr(rx, echo)
      PROVE  UartInv'
  <2>1. CASE held = 0
    BY <1>6, <2>1, Zenon DEF U!uartintr, U!intr_clears, U!intr_wakes, U!woken
  <2>2. CASE held # 0
    <3>1. /\ thre' = FALSE /\ tx_busy' = tx_busy /\ u_pc' = u_pc /\ held' = held /\ left' = left
          /\ sync' = (rx /\ echo)
      BY <1>6, <2>2, Zenon DEF U!uartintr, U!intr_clears
    <3>2. held > 0
      BY <2>2
    <3>3. thre' \in BOOLEAN /\ sync' \in BOOLEAN
      BY <3>1, Zenon
    <3>. QED BY <3>1, <3>2, <3>3, Zenon
  <2>. QED BY <2>1, <2>2
<1>7. ASSUME NEW p \in Writers, U!kkill(p)
      PROVE  UartInv'
  BY <1>7 DEF U!kkill
<1>8. CASE UNCHANGED U!vars
  BY <1>8 DEF U!vars
<1>. QED BY <1>1, <1>2, <1>3, <1>4, <1>5, <1>6, <1>7, <1>8, Zenon DEF U!Next

\* uart.c, for any number of writers and any length of the transmitter: whoever sleeps in
\* uartwrite has an interrupt coming that will wake it, whatever the kernel prints.
THEOREM UartNoLostInterrupt ==
  ASSUME U!Constants
  PROVE  U!Spec => []U!NoLostInterrupt
<1>1. UartInv => U!NoLostInterrupt
  BY DEF UartInv
<1>. QED BY <1>1, InitUart, NextUart, PTL DEF U!Spec

================================================================================
