------------------------------- MODULE LogProofs -------------------------------
(***************************************************************************)
(* Proofs about Log, for every number of processes, blocks and contents    *)
(* and every log size: type correctness, the inductive invariant that ties *)
(* the phases of commit() and of recovery to the disk, the buffers and the *)
(* pins, and, from it, that log.c implements AtomicDisk.                   *)
(***************************************************************************)
EXTENDS Log, FiniteSetTheorems, TLAPS

InOp == {p \in Procs : pc[p] \in OpPC}
Installing == \E p \in Procs : pc[p] \in {"install", "erase"}

Injective(s) == \A i, j \in 1..Len(s) : s[i] = s[j] => i = j

\* log.outstanding counts the processes between begin_op and end_op.
CountInv == outstanding = Cardinality(InOp)

\* One process commits at a time, and no operation runs meanwhile.
CommitInv ==
  /\ committing <=> \E p \in Procs : pc[p] \in CommitPC
  /\ committing => InOp = {}
  /\ \A p, q \in Procs : pc[p] \in CommitPC /\ pc[q] \in CommitPC => p = q

\* Before initlog is done no process has entered the log.
BootInv ==
  boot # "up" =>
    /\ \A p \in Procs : pc[p] = "idle"
    /\ ~committing
    /\ \A b \in Blocks : pins[b] = 0 /\ cache[b] \in {NoBuf, disk[b]}
    /\ boot = "read_head" => lh = <<>>
    /\ boot = "install" =>
         /\ lh = head
         /\ tail <= Len(lh) + 1
         /\ \A i \in 1..Len(lh) : i < tail => disk[lh[i]] = logblk[i]

\* A modified buffer has one holder and stays in the cache.
HeldInv ==
  /\ \A p \in Procs : held[p] # NoBuf <=> pc[p] = "modified"
  /\ \A p, q \in Procs : held[p] = held[q] /\ held[p] # NoBuf => p = q
  /\ \A p \in Procs : held[p] # NoBuf => cache[held[p]] # NoBuf

\* A logged block that install_trans has not written home yet.
Pending(b) ==
  \E i \in 1..Len(lh) : lh[i] = b /\ (Installing => i >= tail)

\* Pins mark exactly the pending blocks; every other buffer is clean, but for
\* those that were released with a change that was not logged.
PinInv ==
  boot = "up" =>
    \A b \in Blocks :
      /\ pins[b] = IF Pending(b) THEN 1 ELSE 0
      /\ Pending(b) => cache[b] # NoBuf
      /\ (~Pending(b) /\ \A p \in Procs : held[p] # b) =>
           cache[b] \in {NoBuf, disk[b]} \/ b \in unlogged
      /\ b \in unlogged => \A i \in 1..Len(lh) : lh[i] # b

\* What each phase of commit() has achieved.
PhaseInv ==
  boot = "up" =>
    /\ ~Installing => head = <<>>
    /\ ~committing /\ outstanding = 0 => lh = <<>>
    /\ \A p \in Procs :
         /\ pc[p] = "write_log" =>
              /\ tail <= Len(lh)
              /\ \A i \in 1..Len(lh) : i < tail => logblk[i] = cache[lh[i]]
         /\ pc[p] = "write_head" =>
              \A i \in 1..Len(lh) : logblk[i] = cache[lh[i]]
         /\ pc[p] \in {"install", "erase"} =>
              /\ head = lh
              /\ \A i \in 1..Len(lh) :
                   IF i < tail THEN disk[lh[i]] = logblk[i]
                               ELSE cache[lh[i]] = logblk[i]
         /\ pc[p] = "install" => tail <= Len(lh)
         /\ pc[p] = "erase" => tail = Len(lh) + 1
         /\ pc[p] \in {"write_log", "write_head"} => lh # <<>>
         /\ pc[p] = "finish" => lh = <<>>

IInv ==
  /\ TypeOK
  /\ Injective(lh) /\ Injective(head)
  /\ CountInv /\ CommitInv /\ BootInv /\ HeldInv /\ PinInv /\ PhaseInv

--------------------------------------------------------------------------------
(* Counting operations. *)

\* outstanding is zero exactly when no process is inside an operation, and a
\* process that finds it one is alone (the test in end_op).
LEMMA Counting ==
  ASSUME TypeOK, CountInv
  PROVE  /\ IsFiniteSet(InOp)
         /\ outstanding = 0 <=> InOp = {}
         /\ outstanding = 1 => \A p, q \in InOp : p = q
<1>1. IsFiniteSet(InOp)
  BY LogAssumption, FS_Subset, Zenon DEF InOp
<1>2. outstanding = 0 <=> InOp = {}
  BY <1>1, FS_EmptySet, Zenon DEF CountInv
<1>3. ASSUME outstanding = 1, NEW p \in InOp, NEW q \in InOp, p # q
      PROVE  FALSE
  <2>1. /\ IsFiniteSet(InOp \ {p})
        /\ Cardinality(InOp \ {p}) = Cardinality(InOp) - 1
    BY <1>1, <1>3, FS_RemoveElement, Zenon
  <2>2. Cardinality(InOp \ {p}) = 0
    BY <2>1, <1>3 DEF CountInv
  <2>3. InOp \ {p} = {}
    BY <2>1, <2>2, FS_EmptySet, Zenon
  <2>. QED BY <2>3, <1>3, Zenon
<1>. QED BY <1>1, <1>2, <1>3, Zenon

\* A step that moves no process into or out of an operation keeps the count.
LEMMA CountKept ==
  ASSUME CountInv, InOp' = InOp, outstanding' = outstanding
  PROVE  CountInv'
BY Zenon DEF CountInv

--------------------------------------------------------------------------------
(* The invariant holds initially and every step preserves it. *)

LEMMA InitIInv == Init => IInv
<1> SUFFICES ASSUME Init PROVE IInv
  OBVIOUS
<1>1. TypeOK
  <2>1. wrote \in [Procs -> SUBSET Blocks] /\ committing \in BOOLEAN
    BY Zenon DEF Init
  <2>. QED BY <2>1, LogAssumption DEF LogAssumption, Init, TypeOK, PC
<1>2. InOp = {}
  BY Zenon DEF Init, InOp, OpPC
<1>3. CountInv
  BY <1>2, FS_EmptySet, Zenon DEF Init, CountInv
<1>. QED
  BY <1>1, <1>2, <1>3
  DEF Init, IInv, Injective, CommitInv, BootInv, HeldInv, PinInv, PhaseInv, CommitPC

LEMMA CrashIInv == IInv /\ Crash => IInv'
<1> SUFFICES ASSUME IInv, Crash PROVE IInv'
  OBVIOUS
<1>1. TypeOK'
  <2>1. (wrote \in [Procs -> SUBSET Blocks] /\ committing \in BOOLEAN)'
    BY Zenon DEF Crash
  <2>. QED
    BY <2>1, LogAssumption DEF LogAssumption, IInv, Crash, TypeOK, PC, durableVars
<1>2. InOp' = {}
  BY Zenon DEF Crash, InOp, OpPC
<1>3. CountInv'
  BY <1>2, FS_EmptySet, Zenon DEF Crash, CountInv
<1>. QED
  BY <1>1, <1>2, <1>3
  DEF Crash, IInv, Injective, CommitInv, BootInv, HeldInv, PinInv, PhaseInv,
      CommitPC, durableVars

\* While the system boots every process is idle, so nothing is installing and
\* no buffer is held.
LEMMA Booting ==
  ASSUME IInv, boot # "up"
  PROVE  /\ InOp = {}
         /\ ~Installing
         /\ outstanding = 0
         /\ \A p \in Procs : held[p] = NoBuf
BY Counting, Zenon DEF IInv, BootInv, InOp, OpPC, Installing, HeldInv

LEMMA ReadHeadIInv == IInv /\ read_head => IInv'
<1> SUFFICES ASSUME IInv, read_head PROVE IInv'
  OBVIOUS
<1> USE DEF read_head, durableVars, bufVars, procVars
<1>1. TypeOK'
  BY LogAssumption DEF LogAssumption, IInv, TypeOK
<1>2. CountInv'
  BY CountKept, Zenon DEF IInv, InOp
<1>. QED
  BY <1>1, <1>2
  DEF IInv, Injective, CommitInv, BootInv, HeldInv, PinInv, PhaseInv, InOp, TypeOK

LEMMA RecoverInstallIInv == IInv /\ recover_install => IInv'
<1> SUFFICES ASSUME IInv, recover_install PROVE IInv'
  OBVIOUS
<1> USE DEF recover_install, InstallOne, procVars
<1>1. tail \in 1..Len(lh) /\ lh[tail] \in Blocks /\ logblk[tail] \in Vals
  BY LogAssumption DEF LogAssumption, IInv, TypeOK
<1>2. TypeOK'
  BY <1>1, LogAssumption DEF LogAssumption, IInv, TypeOK
<1>3. CountInv'
  BY CountKept, Zenon DEF IInv, InOp
<1>4. BootInv'
  BY <1>1, <1>2 DEF IInv, BootInv, Injective, TypeOK
<1>5. HeldInv'
  BY Booting, Zenon DEF IInv, HeldInv
<1>. QED
  BY <1>2, <1>3, <1>4, <1>5
  DEF IInv, Injective, CommitInv, PinInv, PhaseInv, InOp

LEMMA RecoverClearIInv == IInv /\ recover_clear => IInv'
<1> SUFFICES ASSUME IInv, recover_clear PROVE IInv'
  OBVIOUS
<1> USE DEF recover_clear, bufVars, procVars
<1>1. TypeOK'
  BY LogAssumption DEF LogAssumption, IInv, TypeOK
<1>2. CountInv'
  BY CountKept, Zenon DEF IInv, InOp
<1>3. PinInv'
  BY DEF IInv, BootInv, PinInv, Pending
<1>4. PhaseInv'
  BY Zenon DEF IInv, BootInv, PhaseInv
<1>. QED
  BY <1>1, <1>2, <1>3, <1>4 DEF IInv, Injective, CommitInv, BootInv, HeldInv, InOp

\* The steps of a process happen only once the system is up.
LEMMA UpWhenRunning ==
  ASSUME IInv, NEW p \in Procs, pc[p] # "idle"
  PROVE  boot = "up"
BY Zenon DEF IInv, BootInv

\* What the invariant says of one block's pins.
LEMMA PinsAt ==
  ASSUME IInv, boot = "up", NEW b \in Blocks
  PROVE  /\ pins[b] = IF Pending(b) THEN 1 ELSE 0
         /\ Pending(b) => cache[b] # NoBuf
         /\ (~Pending(b) /\ \A p \in Procs : held[p] # b) =>
              cache[b] \in {NoBuf, disk[b]} \/ b \in unlogged
         /\ b \in unlogged => \A i \in 1..Len(lh) : lh[i] # b
BY Zenon DEF IInv, PinInv

LEMMA BeginSleepIInv ==
  ASSUME IInv, NEW p \in Procs, begin_op_sleep(p)
  PROVE  IInv'
<1> USE DEF begin_op_sleep, durableVars, logVars, bufVars
<1>1. TypeOK'
  BY Zenon DEF IInv, TypeOK, PC
<1>2. InOp' = InOp /\ Installing' = Installing
  BY Zenon DEF IInv, TypeOK, InOp, OpPC, Installing
<1>3. CountInv'
  BY <1>2, CountKept, Zenon DEF IInv
<1>4. CommitInv'
  BY <1>2, Zenon DEF IInv, TypeOK, CommitInv, CommitPC
<1>5. HeldInv'
  BY Zenon DEF IInv, TypeOK, HeldInv
<1>6. PinInv'
  BY <1>2, Zenon DEF IInv, PinInv, Pending
<1>7. PhaseInv'
  BY <1>2, Zenon DEF IInv, TypeOK, PhaseInv
<1>. QED
  BY <1>1, <1>3, <1>4, <1>5, <1>6, <1>7, Zenon DEF IInv, Injective, BootInv

LEMMA BeginIInv ==
  ASSUME IInv, NEW p \in Procs, begin_op(p)
  PROVE  IInv'
<1> USE DEF begin_op, durableVars, bufVars
<1>1. TypeOK'
  <2>1. (wrote \in [Procs -> SUBSET Blocks])'
    BY Zenon DEF IInv, TypeOK
  <2>. QED BY <2>1 DEF IInv, TypeOK, PC, OpPC
<1>2. ~committing
  BY Zenon DEF begin_op_waits
<1>3. p \notin InOp /\ InOp' = InOp \cup {p} /\ Installing' = Installing
  BY Zenon DEF IInv, TypeOK, InOp, OpPC, Installing
<1>4. CountInv'
  BY <1>3, Counting, FS_AddElement, Zenon DEF IInv, CountInv
<1>5. CommitInv'
  BY <1>2, Zenon DEF IInv, TypeOK, CommitInv, CommitPC
<1>6. HeldInv'
  BY Zenon DEF IInv, TypeOK, HeldInv
<1>7. PinInv'
  BY <1>3, Zenon DEF IInv, PinInv, Pending
<1>8. PhaseInv'
  BY <1>3 DEF IInv, TypeOK, PhaseInv
<1>. QED
  BY <1>1, <1>4, <1>5, <1>6, <1>7, <1>8, Zenon DEF IInv, Injective, BootInv

LEMMA ModifyIInv ==
  ASSUME IInv, NEW p \in Procs, NEW b \in Blocks, NEW v \in Vals, modify(p, b, v)
  PROVE  IInv'
<1> USE DEF modify, durableVars, logVars
<1>1. TypeOK'
  BY Zenon DEF IInv, TypeOK, PC, OpPC
<1>2. InOp' = InOp /\ Installing' = Installing /\ p \in InOp
  BY Zenon DEF IInv, TypeOK, InOp, OpPC, Installing
<1>3. ~committing /\ boot = "up"
  BY <1>2, UpWhenRunning, Zenon DEF IInv, CommitInv
<1>4. CountInv'
  BY <1>2, CountKept, Zenon DEF IInv
<1>5. CommitInv'
  BY <1>2, <1>3, Zenon DEF IInv, TypeOK, CommitInv, CommitPC
<1>6. HeldInv'
  BY LogAssumption, Zenon DEF LogAssumption, IInv, TypeOK, HeldInv
<1>7. PinInv'
  <2> SUFFICES ASSUME NEW c \in Blocks
               PROVE  (/\ pins[c] = IF Pending(c) THEN 1 ELSE 0
                       /\ Pending(c) => cache[c] # NoBuf
                       /\ (~Pending(c) /\ \A q \in Procs : held[q] # c)
                            => cache[c] \in {NoBuf, disk[c]} \/ c \in unlogged
                       /\ c \in unlogged => \A i \in 1..Len(lh) : lh[i] # c)'
    BY Zenon DEF PinInv
  <2>1. Pending(c)' <=> Pending(c)
    BY <1>2, Zenon DEF Pending
  <2>2. CASE c = b
    BY <1>3, <2>1, <2>2, LogAssumption, Zenon DEF LogAssumption, IInv, TypeOK, PinInv
  <2>3. CASE c # b
    <3>1. (\A q \in Procs : held'[q] # c) => \A q \in Procs : held[q] # c
      BY <2>3, LogAssumption, ZenonT(60) DEF LogAssumption, IInv, TypeOK, HeldInv
    <3>. QED BY <1>3, <2>1, <2>3, <3>1, Zenon DEF IInv, TypeOK, PinInv
  <2>. QED BY <2>2, <2>3, Zenon
<1>8. PhaseInv'
  BY <1>2, <1>3, Zenon DEF IInv, TypeOK, PhaseInv, CommitInv, CommitPC
<1>. QED
  BY <1>1, <1>3, <1>4, <1>5, <1>6, <1>7, <1>8, ZenonT(60) DEF IInv, Injective, BootInv

\* What Append does to the header.
LEMMA AppendFacts ==
  ASSUME NEW S, NEW s \in Seq(S), NEW e \in S
  PROVE  /\ Append(s, e) \in Seq(S)
         /\ Len(Append(s, e)) = Len(s) + 1
         /\ \A i \in 1..Len(s) : Append(s, e)[i] = s[i]
         /\ Append(s, e)[Len(s) + 1] = e
OBVIOUS

LEMMA LogWriteIInv ==
  ASSUME IInv, NEW p \in Procs, log_write(p)
  PROVE  IInv'
<1> DEFINE b == held[p]
<1> USE DEF log_write, durableVars
<1>1. b \in Blocks /\ cache[b] # NoBuf
  BY Zenon DEF IInv, TypeOK, HeldInv
<1>2. InOp' = InOp /\ Installing' = Installing /\ p \in InOp
  BY Zenon DEF IInv, TypeOK, InOp, OpPC, Installing
<1>3. ~committing /\ boot = "up" /\ ~Installing
  BY <1>2, UpWhenRunning, Zenon DEF IInv, CommitInv, Installing, CommitPC
<1>4. \/ lh' = lh /\ pins' = pins /\ \E i \in 1..Len(lh) : lh[i] = b
      \/ /\ lh' = Append(lh, b) /\ pins' = [pins EXCEPT ![b] = @ + 1]
         /\ \A i \in 1..Len(lh) : lh[i] # b
  BY Zenon DEF record, Elems
<1>5. TypeOK'
  <2>1. (wrote \in [Procs -> SUBSET Blocks])'
    BY <1>1, Zenon DEF IInv, TypeOK
  <2>2. (lh \in Seq(Blocks) /\ Len(lh) <= LOGBLOCKS)'
    <3>1. lh \in Seq(Blocks) /\ Len(lh) < LOGBLOCKS /\ LOGBLOCKS \in Nat
      BY LogAssumption DEF LogAssumption, IInv, TypeOK, log_write_panics
    <3>. HIDE DEF log_write
    <3>. QED BY <1>1, <1>4, <3>1, AppendFacts
  <2>3. (pins \in [Blocks -> Nat])'
    BY <1>1, <1>4 DEF IInv, TypeOK
  <2>. QED BY <2>1, <2>2, <2>3, Zenon DEF IInv, TypeOK, PC, OpPC
<1>6. Injective(lh)'
  <2>1. lh \in Seq(Blocks) /\ Injective(lh)
    BY Zenon DEF IInv, TypeOK
  <2>2. CASE lh' = lh
    BY <2>1, <2>2, Zenon DEF Injective
  <2>3. CASE lh' = Append(lh, b) /\ \A i \in 1..Len(lh) : lh[i] # b
    <3>1. /\ Len(lh') = Len(lh) + 1 /\ Len(lh) \in Nat /\ lh'[Len(lh) + 1] = b
          /\ \A i \in 1..Len(lh) : lh'[i] = lh[i]
      BY <1>1, <2>1, <2>3, AppendFacts
    <3>. HIDE DEF log_write, b
    <3>. QED BY <2>1, <2>3, <3>1 DEF Injective
  <2>. QED BY <1>4, <2>2, <2>3
<1>7. CountInv'
  BY <1>2, CountKept, Zenon DEF IInv
<1>8. CommitInv'
  BY <1>2, <1>3, Zenon DEF IInv, TypeOK, CommitInv, CommitPC
<1>9. HeldInv'
  BY SMTT(30) DEF IInv, TypeOK, HeldInv
<1>10. PinInv'
  <2> SUFFICES ASSUME NEW c \in Blocks
               PROVE  (/\ pins[c] = IF Pending(c) THEN 1 ELSE 0
                       /\ Pending(c) => cache[c] # NoBuf
                       /\ (~Pending(c) /\ \A q \in Procs : held[q] # c)
                            => cache[c] \in {NoBuf, disk[c]} \/ c \in unlogged
                       /\ c \in unlogged => \A i \in 1..Len(lh) : lh[i] # c)'
    BY Zenon DEF PinInv
  <2>1. Pending(c)' <=> Pending(c) \/ c = b
    <3>1. lh \in Seq(Blocks)
      BY Zenon DEF IInv, TypeOK
    <3>. HIDE DEF log_write, b
    <3>. QED BY <1>1, <1>2, <1>3, <1>4, <3>1, AppendFacts DEF Pending
  <2>2. c # b => (held'[p] # c /\ (\A q \in Procs : held'[q] # c) => \A q \in Procs : held[q] # c)
    BY LogAssumption, SMTT(60) DEF LogAssumption, IInv, TypeOK
  <2>3. Pending(b) <=> \E i \in 1..Len(lh) : lh[i] = b
    BY <1>3, Zenon DEF Pending
  <2>4. /\ pins[c] = IF Pending(c) THEN 1 ELSE 0
        /\ Pending(c) => cache[c] # NoBuf
        /\ (~Pending(c) /\ \A q \in Procs : held[q] # c)
             => cache[c] \in {NoBuf, disk[c]} \/ c \in unlogged
        /\ c \in unlogged => \A i \in 1..Len(lh) : lh[i] # c
    <3>1. PinInv
      BY Zenon DEF IInv
    <3>. HIDE DEF log_write, b
    <3>. QED BY <1>3, <3>1, Zenon DEF PinInv
  <2>5. pins \in [Blocks -> Nat] /\ cache' = cache /\ disk' = disk /\ unlogged' = unlogged \ {b}
    BY Zenon DEF IInv, TypeOK
  <2>. HIDE DEF log_write, b
  <2>6. pins'[c] = IF Pending(c)' THEN 1 ELSE 0
    BY <1>1, <1>4, <2>1, <2>3, <2>4, <2>5
  <2>7. Pending(c)' => cache'[c] # NoBuf
    BY <1>1, <2>1, <2>4, <2>5, Zenon
  <2>8. (~Pending(c)' /\ \A q \in Procs : held'[q] # c)
          => cache'[c] \in {NoBuf, disk'[c]} \/ c \in unlogged'
    BY <2>1, <2>2, <2>4, <2>5, Zenon
  <2>9. c \in unlogged' => \A i \in 1..Len(lh') : lh'[i] # c
    <3>1. c \in unlogged' => ~Pending(c)'
      BY <2>1, <2>4, <2>5, Zenon DEF Pending
    <3>. QED BY <1>2, <1>3, <3>1, Zenon DEF Pending
  <2>. QED
    BY <2>6, <2>7, <2>8, <2>9, Zenon
<1>11. PhaseInv'
  <2>1. InOp' # {} /\ outstanding' # 0
    BY <1>2, Counting, SMTT(30) DEF IInv
  <2>. QED
    BY <1>2, <1>3, <2>1, Zenon DEF IInv, TypeOK, PhaseInv, CommitInv, CommitPC
<1>. QED
  BY <1>3, <1>5, <1>6, <1>7, <1>8, <1>9, <1>10, <1>11, Zenon DEF IInv, Injective, BootInv

LEMMA WriteiFailsIInv ==
  ASSUME IInv, NEW p \in Procs, writei_fails(p)
  PROVE  IInv'
<1> DEFINE b == held[p]
<1>0. b \in Blocks
  BY Zenon DEF writei_fails, IInv, TypeOK, HeldInv
<1>1. /\ pc[p] = "modified" /\ pc' = [pc EXCEPT ![p] = "inop"] /\ held' = [held EXCEPT ![p] = NoBuf]
      /\ UNCHANGED <<disk, logblk, head, lh, outstanding, committing, tail, cache, pins, wrote, boot>>
  BY Zenon DEF writei_fails, durableVars, logVars
<1>2. \/ unlogged' = unlogged \ {b} /\ (b \in Elems(lh) \/ cache[b] = disk[b])
      \/ unlogged' = unlogged \cup {b} /\ b \notin Elems(lh)
  BY Zenon DEF writei_fails
<1>3. TypeOK'
  BY <1>0, <1>1, <1>2, Zenon DEF IInv, TypeOK, PC, OpPC
<1>4. InOp' = InOp /\ Installing' = Installing /\ p \in InOp
  BY <1>1, Zenon DEF IInv, TypeOK, InOp, OpPC, Installing
<1>5. ~committing /\ boot = "up" /\ ~Installing
  BY <1>1, <1>4, UpWhenRunning, Zenon DEF IInv, CommitInv, Installing, CommitPC
<1>6. CountInv'
  BY <1>1, <1>4, CountKept, Zenon DEF IInv
<1>7. CommitInv'
  BY <1>1, <1>4, <1>5, Zenon DEF IInv, TypeOK, CommitInv, CommitPC
<1>8. HeldInv'
  BY <1>1, SMTT(30) DEF IInv, TypeOK, HeldInv
<1> HIDE DEF b
<1>9. PinInv'
  <2> SUFFICES ASSUME NEW c \in Blocks
               PROVE  (/\ pins[c] = IF Pending(c) THEN 1 ELSE 0
                       /\ Pending(c) => cache[c] # NoBuf
                       /\ (~Pending(c) /\ \A q \in Procs : held[q] # c)
                            => cache[c] \in {NoBuf, disk[c]} \/ c \in unlogged
                       /\ c \in unlogged => \A i \in 1..Len(lh) : lh[i] # c)'
    BY Zenon DEF PinInv
  <2>1. Pending(c)' <=> Pending(c)
    BY <1>1, <1>4, Zenon DEF Pending
  <2>2. c \in Elems(lh) <=> Pending(c)
    BY <1>5, Zenon DEF Pending, Elems
  <2>3. pins'[c] = (IF Pending(c)' THEN 1 ELSE 0) /\ (Pending(c)' => cache'[c] # NoBuf)
    BY <1>1, <1>5, <2>1, PinsAt, Zenon
  <2>4. c # b => ((\A q \in Procs : held'[q] # c) => \A q \in Procs : held[q] # c)
    BY <1>0, <1>1, LogAssumption, Zenon DEF LogAssumption, IInv, TypeOK, b
  <2>5. CASE c = b
    <3>1. CASE c \in Elems(lh)
      <4>1. unlogged' = unlogged \ {c} /\ Pending(c)'
        BY <1>2, <2>1, <2>2, <2>5, <3>1, Zenon
      <4>. QED BY <2>3, <4>1, Zenon
    <3>2. CASE c \notin Elems(lh)
      <4>1. \A i \in 1..Len(lh') : lh'[i] # c
        BY <1>1, <3>2, Zenon DEF Elems
      <4>2. cache'[c] = disk'[c] \/ c \in unlogged'
        BY <1>1, <1>2, <2>5, <3>2, Zenon
      <4>. QED BY <2>3, <4>1, <4>2, Zenon
    <3>. QED BY <3>1, <3>2, Zenon
  <2>6. CASE c # b
    <3>1. c \in unlogged' <=> c \in unlogged
      BY <1>2, <2>6, Zenon
    <3>2. /\ (~Pending(c) /\ \A q \in Procs : held[q] # c) =>
               cache[c] \in {NoBuf, disk[c]} \/ c \in unlogged
          /\ c \in unlogged => \A i \in 1..Len(lh) : lh[i] # c
      BY <1>5, PinsAt, Zenon
    <3>. QED BY <1>1, <2>1, <2>3, <2>4, <2>6, <3>1, <3>2, Zenon
  <2>. QED BY <2>5, <2>6, Zenon
<1>10. PhaseInv'
  BY <1>1, <1>4, <1>5, Zenon DEF IInv, TypeOK, PhaseInv, CommitInv, CommitPC
<1>. QED
  BY <1>1, <1>3, <1>5, <1>6, <1>7, <1>8, <1>9, <1>10, Zenon DEF IInv, Injective, BootInv

LEMMA EndIInv ==
  ASSUME IInv, NEW p \in Procs, end_op(p)
  PROVE  IInv'
<1> USE DEF end_op, durableVars, bufVars
<1>1. p \in InOp /\ outstanding # 0 /\ ~committing /\ boot = "up" /\ ~Installing
  BY Counting, UpWhenRunning, Zenon
  DEF IInv, InOp, OpPC, CommitInv, Installing, CommitPC
<1>2. \A q \in Procs : pc[q] \notin CommitPC
  BY <1>1, Zenon DEF IInv, CommitInv
<1>3. \A q \in Procs : q # p =>
        (pc'[q] = pc[q] \/ (pc[q] = "sleeping" /\ pc'[q] = "woken"))
  BY Zenon DEF IInv, TypeOK, WakeLog
<1>4. \/ outstanding = 1 /\ committing' = TRUE /\ pc'[p] = "commit"
      \/ outstanding # 1 /\ committing' = FALSE /\ pc'[p] = "idle"
  BY <1>1, Zenon DEF IInv, TypeOK, WakeLog
<1>5. pc' \in [Procs -> PC]
  <2>1. \A q \in Procs : pc'[q] \in PC
    BY <1>3, <1>4, Zenon DEF IInv, TypeOK, PC, CommitPC
  <2>. QED
    BY <2>1 DEF IInv, TypeOK, WakeLog
<1> HIDE DEF end_op
<1>6. /\ outstanding' = outstanding - 1
      /\ UNCHANGED <<disk, logblk, head, lh, tail, cache, pins, unlogged, held, wrote, boot>>
  BY Zenon DEF end_op
<1>7. pc[p] = "inop"
  BY Zenon DEF end_op
<1>8. TypeOK'
  <2>1. committing' \in BOOLEAN
    BY <1>4, Zenon
  <2>2. outstanding' \in Nat
    BY <1>1, <1>6 DEF IInv, TypeOK
  <2>. QED BY <1>5, <1>6, <2>1, <2>2, Zenon DEF IInv, TypeOK
<1>9. InOp' = InOp \ {p}
  BY <1>3, <1>4, Zenon DEF InOp, OpPC
<1>10. CountInv'
  BY <1>1, <1>6, <1>9, Counting, FS_RemoveElement, Zenon DEF IInv, CountInv
<1>11. Installing' = Installing
  BY <1>2, <1>3, <1>4, Zenon DEF Installing, CommitPC
<1>12. CommitInv'
  <2>1. CASE outstanding = 1
    <3>1. InOp' = {}
      BY <1>1, <1>9, <2>1, Counting, Zenon DEF IInv
    <3>. QED BY <1>2, <1>3, <1>4, <2>1, <3>1, Zenon DEF CommitInv, CommitPC
  <2>2. CASE outstanding # 1
    BY <1>2, <1>3, <1>4, <2>2, Zenon DEF CommitInv, CommitPC
  <2>. QED BY <2>1, <2>2, Zenon
<1>13. HeldInv'
  BY <1>3, <1>4, <1>6, <1>7, Zenon DEF IInv, HeldInv
<1>14. PinInv'
  <2>1. \A b : Pending(b)' <=> Pending(b)
    BY <1>6, <1>11, Zenon DEF Pending
  <2>. QED BY <1>1, <1>6, <2>1, PinsAt, Zenon DEF PinInv
<1>15. PhaseInv'
  <2>1. ~committing' => outstanding' # 0
    BY <1>1, <1>4, <1>6 DEF IInv, TypeOK
  <2>. QED
    BY <1>1, <1>2, <1>3, <1>4, <1>6, <1>11, <2>1 DEF IInv, PhaseInv, CommitPC
<1>. QED
  BY <1>1, <1>6, <1>8, <1>10, <1>12, <1>13, <1>14, <1>15, SMTT(30) DEF IInv, Injective, BootInv

\* What the steps of commit() have in common: the committer is the only process
\* in a commit phase and no operation runs, so no buffer is held.
LEMMA Committer ==
  ASSUME IInv, NEW p \in Procs, pc[p] \in CommitPC
  PROVE  /\ boot = "up" /\ committing /\ outstanding = 0 /\ InOp = {}
         /\ \A q \in Procs : q # p => pc[q] \notin CommitPC
         /\ \A q \in Procs : held[q] = NoBuf
         /\ Installing <=> pc[p] \in {"install", "erase"}
<1>1. boot = "up"
  BY UpWhenRunning, Zenon DEF CommitPC
<1>2. committing /\ InOp = {} /\ \A q \in Procs : q # p => pc[q] \notin CommitPC
  BY Zenon DEF IInv, CommitInv
<1>3. outstanding = 0
  BY <1>2, Counting, Zenon DEF IInv
<1>4. \A q \in Procs : held[q] = NoBuf
  BY <1>2, Zenon DEF IInv, HeldInv, InOp, OpPC
<1>5. Installing <=> pc[p] \in {"install", "erase"}
  BY <1>2, Zenon DEF Installing, CommitPC
<1>. QED BY <1>1, <1>2, <1>3, <1>4, <1>5, Zenon

\* What the invariant says of the committer's own phase.
LEMMA PhaseAt ==
  ASSUME IInv, NEW p \in Procs, pc[p] \in CommitPC
  PROVE  /\ pc[p] \notin {"install", "erase"} => head = <<>>
         /\ pc[p] = "write_log" =>
              /\ tail <= Len(lh)
              /\ \A i \in 1..Len(lh) : i < tail => logblk[i] = cache[lh[i]]
         /\ pc[p] = "write_head" =>
              \A i \in 1..Len(lh) : logblk[i] = cache[lh[i]]
         /\ pc[p] \in {"install", "erase"} =>
              /\ head = lh
              /\ \A i \in 1..Len(lh) :
                   IF i < tail THEN disk[lh[i]] = logblk[i]
                               ELSE cache[lh[i]] = logblk[i]
         /\ pc[p] = "install" => tail <= Len(lh)
         /\ pc[p] = "erase" => tail = Len(lh) + 1
         /\ pc[p] \in {"write_log", "write_head"} => lh # <<>>
         /\ pc[p] = "finish" => lh = <<>>
<1>1. PhaseInv /\ boot = "up" /\ (Installing <=> pc[p] \in {"install", "erase"})
  BY Committer, Zenon DEF IInv
<1>. QED BY <1>1, Zenon DEF PhaseInv

\* A step from one phase of commit() to another keeps the counting, exclusion,
\* boot and buffer-holding parts of the invariant.
LEMMA PhaseStep ==
  ASSUME IInv, NEW p \in Procs, pc[p] \in CommitPC,
         NEW next \in CommitPC, pc' = [pc EXCEPT ![p] = next],
         UNCHANGED <<outstanding, committing, held, boot>>
  PROVE  /\ CountInv' /\ CommitInv' /\ BootInv' /\ HeldInv'
         /\ Installing' <=> next \in {"install", "erase"}
         /\ \A q \in Procs : pc'[q] = IF q = p THEN next ELSE pc[q]
<1>1. \A q \in Procs : pc'[q] = IF q = p THEN next ELSE pc[q]
  BY Zenon DEF IInv, TypeOK
<1>2. InOp' = InOp
  BY <1>1, Zenon DEF InOp, OpPC, CommitPC
<1>3. CountInv'
  BY <1>2, CountKept, Zenon DEF IInv
<1>4. CommitInv'
  BY <1>1, <1>2, Committer, Zenon DEF CommitInv
<1>5. BootInv'
  BY Committer, Zenon DEF BootInv
<1>6. HeldInv'
  BY <1>1, Committer DEF IInv, HeldInv, CommitPC
<1>7. Installing' <=> next \in {"install", "erase"}
  BY <1>1, Committer, Zenon DEF Installing, CommitPC
<1>. QED BY <1>1, <1>3, <1>4, <1>5, <1>6, <1>7, Zenon

LEMMA CommitIInv ==
  ASSUME IInv, NEW p \in Procs, commit(p)
  PROVE  IInv'
<1> DEFINE next == IF lh = <<>> THEN "finish" ELSE "write_log"
<1> USE DEF commit, durableVars, bufVars
<1>1. pc[p] \in CommitPC /\ next \in CommitPC /\ pc' = [pc EXCEPT ![p] = next]
  BY Zenon DEF CommitPC
<1>2. /\ CountInv' /\ CommitInv' /\ BootInv' /\ HeldInv'
      /\ Installing' <=> next \in {"install", "erase"}
      /\ \A q \in Procs : pc'[q] = IF q = p THEN next ELSE pc[q]
  BY <1>1, PhaseStep, ZenonT(60)
<1>3. ~Installing /\ ~Installing'
  BY <1>1, <1>2, Committer, Zenon
<1>4. TypeOK'
  BY <1>1, LogAssumption DEF LogAssumption, IInv, TypeOK, PC
<1>5. PinInv'
  BY <1>3, SMTT(30) DEF IInv, PinInv, Pending
<1>6. PhaseInv'
  <2>1. lh # <<>> => 1 <= Len(lh)
    <3>1. lh \in Seq(Blocks)
      BY Zenon DEF IInv, TypeOK
    <3>. HIDE DEF commit
    <3>. QED BY <3>1
  <2>2. /\ \A q \in Procs : q # p => pc[q] \notin CommitPC
        /\ boot = "up" /\ committing /\ PhaseInv
    BY <1>1, Committer, Zenon DEF IInv
  <2>3. UNCHANGED <<head, lh, committing, boot>> /\ tail' = 1
    OBVIOUS
  <2>. HIDE DEF commit
  <2>4. \A q \in Procs : q # p => pc'[q] \notin CommitPC
    BY <1>2, <2>2, Zenon
  <2>5. pc'[p] = next
    BY <1>2, Zenon
  <2>. QED BY <1>3, <2>1, <2>2, <2>3, <2>4, <2>5 DEF PhaseInv, CommitPC
<1>. QED
  BY <1>2, <1>4, <1>5, <1>6, Zenon DEF IInv, Injective

LEMMA WriteLogIInv ==
  ASSUME IInv, NEW p \in Procs, write_log(p)
  PROVE  IInv'
<1> DEFINE next == IF tail = Len(lh) THEN "write_head" ELSE "write_log"
<1> USE DEF write_log
<1>1. pc[p] \in CommitPC /\ next \in CommitPC /\ pc' = [pc EXCEPT ![p] = next]
  BY Zenon DEF CommitPC
<1>2. /\ CountInv' /\ CommitInv' /\ BootInv' /\ HeldInv'
      /\ Installing' <=> next \in {"install", "erase"}
      /\ \A q \in Procs : pc'[q] = IF q = p THEN next ELSE pc[q]
  BY <1>1, PhaseStep, Zenon
<1>3. ~Installing /\ ~Installing'
  BY <1>1, <1>2, Committer, Zenon
<1>4. tail \in 1..Len(lh) /\ tail \in 1..LOGBLOCKS /\ lh[tail] \in Blocks
  <2>1. TypeOK /\ tail <= Len(lh)
    BY <1>1, PhaseAt, Zenon DEF IInv
  <2>. QED BY <2>1, LogAssumption, SMTT(60) DEF LogAssumption, TypeOK
<1>5. cache[lh[tail]] # NoBuf
  <2>1. Pending(lh[tail])
    BY <1>3, <1>4, Zenon DEF Pending
  <2>. QED BY <1>1, <1>4, <2>1, Committer, PinsAt, Zenon
<1>6. cache' = cache /\ logblk' = [logblk EXCEPT ![tail] = cache[lh[tail]]]
  <2>1. cache \in [Blocks -> Vals \cup {NoBuf}]
    BY Zenon DEF IInv, TypeOK
  <2>2. cache' = [cache EXCEPT ![lh[tail]] = cache[lh[tail]]]
    BY <1>5, Zenon DEF Bread
  <2>3. logblk' = [logblk EXCEPT ![tail] = cache[lh[tail]]]
    BY <1>5, SMTT(30) DEF Bread
  <2>. HIDE DEF write_log
  <2>. QED BY <1>4, <2>1, <2>2, <2>3, Zenon
<1>7. TypeOK'
  BY <1>1, <1>4, <1>5, <1>6, LogAssumption, SMTT(30) DEF LogAssumption, IInv, TypeOK, PC
<1>8. PinInv'
  <2>1. \A b : Pending(b)' <=> Pending(b)
    BY <1>3, Zenon DEF Pending
  <2>2. boot = "up" /\ UNCHANGED <<pins, held, disk, cache, unlogged, lh>>
    BY <1>1, <1>6, Committer, Zenon
  <2>. QED BY <2>1, <2>2, PinsAt, Zenon DEF PinInv
<1>9. PhaseInv'
  <2>1. \A i \in 1..Len(lh) : i < tail + 1 => logblk'[i] = cache'[lh'[i]]
    BY <1>1, <1>4, <1>6, PhaseAt, SMTT(30) DEF IInv, TypeOK
  <2>2. tail # Len(lh) => tail' <= Len(lh')
    BY <1>4 DEF IInv, TypeOK
  <2>3. lh' # <<>>
    BY <1>1, PhaseAt, Zenon
  <2>4. \A q \in Procs : q # p => pc'[q] \notin CommitPC
    BY <1>1, <1>2, Committer, Zenon
  <2>5. head' = <<>> /\ committing'
    BY <1>1, Committer, PhaseAt, Zenon
  <2>6. tail = Len(lh) => \A i \in 1..Len(lh) : logblk'[i] = cache'[lh'[i]]
    <3>1. tail = Len(lh) => \A i \in 1..Len(lh) : i < tail + 1
      BY <1>4
    <3>. HIDE DEF write_log
    <3>. QED BY <2>1, <3>1, Zenon
  <2>. QED
    <3> HIDE DEF write_log
    <3>1. tail' = tail + 1 /\ lh' = lh
      BY Zenon DEF write_log
    <3>2. CASE tail = Len(lh)
      BY <1>2, <2>3, <2>4, <2>5, <2>6, <3>1, <3>2, ZenonT(60) DEF PhaseInv, CommitPC
    <3>3. CASE tail # Len(lh)
      BY <1>2, <2>1, <2>2, <2>3, <2>4, <2>5, <3>1, <3>3, SMTT(60) DEF PhaseInv, CommitPC
    <3>. QED BY <3>2, <3>3, Zenon
<1>. QED
  BY <1>2, <1>7, <1>8, <1>9, Zenon DEF IInv, Injective

LEMMA WriteHeadIInv ==
  ASSUME IInv, NEW p \in Procs, write_head(p)
  PROVE  IInv'
<1> USE DEF write_head, bufVars
<1>1. pc[p] \in CommitPC /\ "install" \in CommitPC
  BY Zenon DEF CommitPC
<1>2. /\ CountInv' /\ CommitInv' /\ BootInv' /\ HeldInv' /\ Installing'
      /\ \A q \in Procs : pc'[q] = IF q = p THEN "install" ELSE pc[q]
  BY <1>1, PhaseStep, Zenon
<1>3. ~Installing
  BY <1>1, Committer, Zenon
<1>4. TypeOK'
  BY <1>1, LogAssumption DEF LogAssumption, IInv, TypeOK, PC
<1>5. \A b \in Blocks : Pending(b)' <=> Pending(b)
  BY <1>2, <1>3 DEF Pending, IInv, TypeOK
<1>6. PinInv'
  BY <1>1, <1>5, Committer, PinsAt, Zenon DEF PinInv
<1>7. PhaseInv'
  <2>1. \A q \in Procs : q # p => pc'[q] \notin CommitPC
    BY <1>1, <1>2, Committer, Zenon
  <2>2. lh # <<>> /\ \A i \in 1..Len(lh) : logblk[i] = cache[lh[i]]
    BY <1>1, PhaseAt, Zenon
  <2>3. 1 <= Len(lh)
    BY <2>2 DEF IInv, TypeOK
  <2>. QED
    BY <1>1, <1>2, <2>1, <2>2, <2>3, Committer, SMTT(30) DEF PhaseInv, CommitPC
<1>. QED
  BY <1>2, <1>4, <1>6, <1>7 DEF IInv, Injective

LEMMA InstallIInv ==
  ASSUME IInv, NEW p \in Procs, install_trans(p)
  PROVE  IInv'
<1> DEFINE next == IF tail = Len(lh) THEN "erase" ELSE "install"
<1> DEFINE b == lh[tail]
<1> USE DEF install_trans, InstallOne
<1>1. pc[p] \in CommitPC /\ next \in CommitPC /\ pc' = [pc EXCEPT ![p] = next]
  BY Zenon DEF CommitPC
<1>2. /\ CountInv' /\ CommitInv' /\ BootInv' /\ HeldInv' /\ Installing'
      /\ \A q \in Procs : pc'[q] = IF q = p THEN next ELSE pc[q]
  BY <1>1, PhaseStep, Zenon
<1>3. Installing /\ \A q \in Procs : held[q] = NoBuf
  BY <1>1, Committer, Zenon
<1>4. tail \in 1..Len(lh) /\ tail \in 1..LOGBLOCKS /\ b \in Blocks /\ logblk[tail] \in Vals
  BY LogAssumption, SMTT(30) DEF LogAssumption, IInv, TypeOK
<1>5. Pending(b) /\ pins[b] = 1
  <2>1. Pending(b)
    BY <1>4 DEF Pending
  <2>. QED BY <1>1, <1>4, <2>1, Committer, PinsAt, Zenon
<1>6. TypeOK'
  <2>1. (pins \in [Blocks -> Nat])'
    BY <1>4, <1>5 DEF IInv, TypeOK
  <2>2. (tail \in 1..(LOGBLOCKS + 1))'
    BY <1>4, LogAssumption DEF LogAssumption
  <2>3. (pc \in [Procs -> PC])'
    BY <1>1, Zenon DEF IInv, TypeOK, PC
  <2>. QED BY <1>4, <2>1, <2>2, <2>3, SMTT(60) DEF IInv, TypeOK
<1>7. PinInv'
  <2> SUFFICES ASSUME NEW c \in Blocks
               PROVE  (/\ pins[c] = IF Pending(c) THEN 1 ELSE 0
                       /\ Pending(c) => cache[c] # NoBuf
                       /\ (~Pending(c) /\ \A q \in Procs : held[q] # c)
                            => cache[c] \in {NoBuf, disk[c]} \/ c \in unlogged
                       /\ c \in unlogged => \A i \in 1..Len(lh) : lh[i] # c)'
    BY Zenon DEF PinInv
  <2>1. Pending(c)' <=> Pending(c) /\ c # b
    <3>1. \A i \in 1..Len(lh) : i >= tail + 1 <=> i >= tail /\ lh[i] # b
      BY <1>4, SMTT(30) DEF IInv, TypeOK, Injective
    <3>2. tail' = tail + 1 /\ lh' = lh
      OBVIOUS
    <3>. HIDE DEF install_trans, b
    <3>. QED BY <1>2, <1>3, <3>1, <3>2, Zenon DEF Pending
  <2>2. CASE c = b
    <3>1. pins'[c] = 0 /\ cache'[c] = disk'[c]
      BY <1>4, <1>5, <2>2, SMTT(30) DEF IInv, TypeOK
    <3>2. boot = "up" /\ unlogged' = unlogged /\ lh' = lh
      BY <1>1, Committer, Zenon DEF install_trans
    <3>3. c \in unlogged => \A i \in 1..Len(lh) : lh[i] # c
      BY <3>2, PinsAt, Zenon
    <3>. HIDE DEF install_trans, b
    <3>. QED BY <2>1, <2>2, <3>1, <3>2, <3>3, Zenon
  <2>3. CASE c # b
    <3>1. cache'[c] = cache[c] /\ disk'[c] = disk[c] /\ pins'[c] = pins[c] /\ held' = held
      BY <1>4, <2>3, SMTT(30) DEF IInv, TypeOK
    <3>2. boot = "up"
      BY <1>1, Committer, SMTT(30)
    <3>. QED BY <2>1, <2>3, <3>1, <3>2, PinsAt, Zenon
  <2>. QED BY <2>2, <2>3, Zenon
<1>8. PhaseInv'
  <2>1. \A q \in Procs : q # p => pc'[q] \notin CommitPC
    BY <1>1, <1>2, Committer, Zenon
  <2>2. /\ head = lh
        /\ \A i \in 1..Len(lh) : IF i < tail THEN disk[lh[i]] = logblk[i]
                                             ELSE cache[lh[i]] = logblk[i]
    BY <1>1, PhaseAt, Zenon
  <2>3. \A i \in 1..Len(lh) : i # tail => lh[i] # b
    BY <1>4, Zenon DEF IInv, Injective
  <2>4. \A i \in 1..Len(lh) : IF i < tail + 1 THEN disk'[lh[i]] = logblk[i]
                                             ELSE cache'[lh[i]] = logblk[i]
    BY <1>4, <2>2, <2>3 DEF IInv, TypeOK
  <2>5. IF tail = Len(lh) THEN tail' = Len(lh) + 1 ELSE tail' <= Len(lh)
    BY <1>4 DEF IInv, TypeOK
  <2>. QED
    BY <1>1, <1>2, <2>1, <2>2, <2>4, <2>5, Committer, SMTT(30) DEF PhaseInv, CommitPC
<1>. QED
  BY <1>2, <1>6, <1>7, <1>8, ZenonT(60) DEF IInv, Injective

LEMMA EraseIInv ==
  ASSUME IInv, NEW p \in Procs, erase(p)
  PROVE  IInv'
<1> USE DEF erase, bufVars
<1>1. pc[p] \in CommitPC /\ "finish" \in CommitPC
  BY Zenon DEF CommitPC
<1>2. /\ CountInv' /\ CommitInv' /\ BootInv' /\ HeldInv' /\ ~Installing'
      /\ \A q \in Procs : pc'[q] = IF q = p THEN "finish" ELSE pc[q]
  BY <1>1, PhaseStep, Zenon
<1>3. TypeOK'
  BY <1>1, LogAssumption, SMTT(30) DEF LogAssumption, IInv, TypeOK, PC
<1>4. \A b \in Blocks : ~Pending(b) /\ ~Pending(b)'
  <2>1. tail = Len(lh) + 1 /\ Installing
    BY <1>1, PhaseAt, Committer, Zenon
  <2>2. Len(lh) \in Nat
    BY DEF IInv, TypeOK
  <2>. QED BY <2>1, <2>2, SMTT(30) DEF Pending
<1>5. PinInv'
  <2>1. boot = "up" /\ UNCHANGED <<pins, cache, disk, held, unlogged>>
    BY <1>1, Committer, Zenon DEF erase, bufVars
  <2>2. \A i \in 1..Len(lh') : FALSE
    BY SMT
  <2>. HIDE DEF erase
  <2>3. ASSUME NEW c \in Blocks
        PROVE  (/\ pins[c] = IF Pending(c) THEN 1 ELSE 0
                /\ Pending(c) => cache[c] # NoBuf
                /\ (~Pending(c) /\ \A q \in Procs : held[q] # c)
                     => cache[c] \in {NoBuf, disk[c]} \/ c \in unlogged
                /\ c \in unlogged => \A i \in 1..Len(lh) : lh[i] # c)'
    BY <1>4, <2>1, <2>2, PinsAt, Zenon
  <2>. QED BY <2>3, Zenon DEF PinInv
<1>6. PhaseInv'
  <2>1. \A q \in Procs : q # p => pc'[q] \notin CommitPC
    BY <1>1, <1>2, Committer, ZenonT(30)
  <2>2. head' = <<>> /\ lh' = <<>> /\ committing'
    BY <1>1, Committer, Zenon
  <2>. QED BY <1>2, <2>1, <2>2, SMTT(30) DEF PhaseInv, CommitPC
<1>. QED
  BY <1>2, <1>3, <1>5, <1>6 DEF IInv, Injective

LEMMA EndCommitIInv ==
  ASSUME IInv, NEW p \in Procs, end_commit(p)
  PROVE  IInv'
<1>1. pc[p] \in CommitPC /\ pc[p] = "finish"
  BY Zenon DEF end_commit, CommitPC
<1>2. /\ boot = "up" /\ outstanding = 0 /\ InOp = {} /\ ~Installing
      /\ \A q \in Procs : q # p => pc[q] \notin CommitPC
      /\ \A q \in Procs : held[q] = NoBuf
  BY <1>1, Committer, Zenon
<1>3. \A q \in Procs : IF q = p THEN pc'[q] = "idle"
        ELSE pc'[q] = pc[q] \/ (pc[q] = "sleeping" /\ pc'[q] = "woken")
  BY Zenon DEF end_commit, IInv, TypeOK, WakeLog
<1>4. UNCHANGED <<disk, logblk, head, lh, tail, cache, pins, unlogged, outstanding, held, wrote, boot>>
  BY Zenon DEF end_commit, durableVars, bufVars
<1>5. ~committing' /\ committing' \in BOOLEAN
  BY Zenon DEF end_commit
<1>6. TypeOK'
  <2>1. pc' \in [Procs -> PC]
    BY Zenon DEF end_commit, IInv, TypeOK, WakeLog, PC
  <2>. QED BY <1>4, <1>5, <2>1, Zenon DEF IInv, TypeOK
<1>7. InOp' = InOp /\ ~Installing' /\ \A q \in Procs : pc'[q] \notin CommitPC
  BY <1>2, <1>3, Zenon DEF InOp, OpPC, Installing, CommitPC
<1>8. CountInv'
  BY <1>4, <1>7, CountKept, Zenon DEF IInv
<1>9. CommitInv'
  BY <1>5, <1>7, Zenon DEF CommitInv
<1>10. HeldInv'
  <2>1. \A q \in Procs : pc'[q] # "modified" /\ held'[q] = NoBuf
    BY <1>2, <1>3, <1>4, Zenon DEF InOp, OpPC
  <2>. QED BY <2>1, Zenon DEF HeldInv
<1>11. PinInv'
  <2>1. \A b : Pending(b)' <=> Pending(b)
    BY <1>2, <1>4, <1>7, ZenonT(30) DEF Pending
  <2>. QED BY <1>2, <1>4, <2>1, PinsAt, Zenon DEF PinInv
<1>12. PhaseInv'
  BY <1>1, <1>2, <1>4, <1>7, Zenon DEF IInv, PhaseInv, CommitPC
<1>. QED
  BY <1>2, <1>4, <1>6, <1>8, <1>9, <1>10, <1>11, <1>12, SMTT(30) DEF IInv, Injective, BootInv

\* Only the cache changes, and only at a block that is neither pending nor
\* held: the phases, which speak of pending blocks, are not disturbed.
LEMMA CacheStep ==
  ASSUME IInv, NEW b \in Blocks, boot = "up",
         ~Pending(b), \A p \in Procs : held[p] # b,
         NEW v \in {NoBuf, disk[b]}, cache' = [cache EXCEPT ![b] = v],
         unlogged' \in {unlogged, unlogged \ {b}},
         UNCHANGED <<disk, logblk, head, lh, outstanding, committing, tail, pins,
                     pc, held, wrote, boot>>
  PROVE  IInv'
<1>1. TypeOK'
  BY Zenon DEF IInv, TypeOK
<1>2. InOp' = InOp /\ Installing' = Installing /\ \A c : Pending(c)' <=> Pending(c)
  BY Zenon DEF InOp, Installing, Pending
<1>3. CountInv' /\ CommitInv' /\ BootInv'
  BY <1>2, CountKept, Zenon DEF IInv, CommitInv, BootInv
<1>4. HeldInv'
  BY Zenon DEF IInv, TypeOK, HeldInv
<1>5. PinInv'
  <2> SUFFICES ASSUME NEW c \in Blocks
               PROVE  (/\ pins[c] = IF Pending(c) THEN 1 ELSE 0
                       /\ Pending(c) => cache[c] # NoBuf
                       /\ (~Pending(c) /\ \A q \in Procs : held[q] # c)
                            => cache[c] \in {NoBuf, disk[c]} \/ c \in unlogged
                       /\ c \in unlogged => \A i \in 1..Len(lh) : lh[i] # c)'
    BY Zenon DEF PinInv
  <2>1. cache'[c] = (IF c = b THEN v ELSE cache[c]) /\ (c \in unlogged' => c \in unlogged)
        /\ (c # b /\ c \in unlogged => c \in unlogged')
    BY Zenon DEF IInv, TypeOK
  <2>. QED BY <1>2, <2>1, PinsAt, Zenon
<1>6. \A i \in 1..Len(lh) : (Installing => i >= tail) => cache'[lh[i]] = cache[lh[i]]
  BY SMTT(30) DEF Pending, IInv, TypeOK
<1>7. \A i \in 1..Len(lh) : i < tail \/ i >= tail
  BY DEF IInv, TypeOK
<1>8. PhaseInv'
  <2> SUFFICES ASSUME NEW p \in Procs
      PROVE (/\ pc[p] = "write_log" =>
                  \A i \in 1..Len(lh) : i < tail => logblk[i] = cache[lh[i]]
             /\ pc[p] = "write_head" =>
                  \A i \in 1..Len(lh) : logblk[i] = cache[lh[i]]
             /\ pc[p] \in {"install", "erase"} =>
                  \A i \in 1..Len(lh) :
                    IF i < tail THEN disk[lh[i]] = logblk[i]
                                ELSE cache[lh[i]] = logblk[i])'
    BY <1>2, Zenon DEF IInv, PhaseInv
  <2>1. CASE pc[p] \in {"write_log", "write_head"}
    <3>1. ~Installing
      BY <2>1, Committer, Zenon DEF CommitPC
    <3>. QED BY <1>6, <2>1, <3>1, PhaseAt, Zenon DEF CommitPC
  <2>2. CASE pc[p] \in {"install", "erase"}
    BY <1>6, <1>7, <2>2, PhaseAt, Zenon DEF CommitPC
  <2>. QED BY <2>1, <2>2, Zenon
<1>. QED
  BY <1>1, <1>3, <1>4, <1>5, <1>8, Zenon DEF IInv, Injective

LEMMA ReadBlockIInv ==
  ASSUME IInv, NEW b \in Blocks, read_block(b)
  PROVE  IInv'
<1>1. ~Pending(b) /\ \A p \in Procs : held[p] # b
  BY LogAssumption, Zenon DEF LogAssumption, read_block, IInv, PinInv, HeldInv
<1>. QED
  BY <1>1, CacheStep, Zenon DEF read_block, durableVars, logVars, procVars

LEMMA RecycleIInv ==
  ASSUME IInv, NEW b \in Blocks, recycle(b)
  PROVE  IInv'
<1>1. ~Pending(b)
  <2>1. boot = "up" /\ pins[b] = 0
    BY Zenon DEF recycle
  <2>2. Pending(b) => pins[b] = 1
    BY <2>1, PinsAt, Zenon
  <2>. QED BY <2>1, <2>2
<1>. QED
  BY <1>1, CacheStep, Zenon DEF recycle, durableVars, logVars, procVars

LEMMA StutterIInv == IInv /\ UNCHANGED vars => IInv'
<1> SUFFICES ASSUME IInv, UNCHANGED vars PROVE IInv'
  OBVIOUS
<1> USE DEF vars
<1>1. InOp' = InOp /\ Installing' = Installing /\ \A b : Pending(b)' <=> Pending(b)
  BY Zenon DEF InOp, Installing, Pending
<1>2. TypeOK' /\ CountInv' /\ HeldInv'
  BY CountKept, <1>1, SMTT(30) DEF IInv, TypeOK, HeldInv
<1>3. CommitInv' /\ BootInv'
  BY <1>1, Zenon DEF IInv, CommitInv, BootInv
<1>4. PinInv'
  BY <1>1, ZenonT(30) DEF IInv, PinInv
<1>5. PhaseInv'
  BY <1>1, Zenon DEF IInv, PhaseInv
<1>. QED BY <1>2, <1>3, <1>4, <1>5, Zenon DEF IInv, Injective

LEMMA NextIInv == IInv /\ [Next]_vars => IInv'
<1> SUFFICES ASSUME IInv, [Next]_vars PROVE IInv'
  OBVIOUS
<1>1. CASE recover
  BY <1>1, ReadHeadIInv, RecoverInstallIInv, RecoverClearIInv, Zenon DEF recover
<1>2. ASSUME NEW p \in Procs,
             \/ begin_op_sleep(p) \/ begin_op(p)
             \/ \E b \in Blocks, v \in Vals : modify(p, b, v)
             \/ writei_fails(p) \/ log_write(p) \/ end_op(p)
      PROVE  IInv'
  BY <1>2, BeginSleepIInv, BeginIInv, ModifyIInv, WriteiFailsIInv, LogWriteIInv, EndIInv, Zenon
<1>3. ASSUME NEW p \in Procs,
             \/ commit(p) \/ write_log(p) \/ write_head(p) \/ install_trans(p)
             \/ erase(p) \/ end_commit(p)
      PROVE  IInv'
  BY <1>3, CommitIInv, WriteLogIInv, WriteHeadIInv, InstallIInv, EraseIInv, EndCommitIInv, Zenon
<1>4. ASSUME NEW b \in Blocks, read_block(b) \/ recycle(b)
      PROVE  IInv'
  BY <1>4, ReadBlockIInv, RecycleIInv, Zenon
<1>5. CASE Crash
  BY <1>5, CrashIInv, Zenon
<1>6. CASE UNCHANGED vars
  BY <1>6, StutterIInv, Zenon
<1>. QED
  BY <1>1, <1>2, <1>3, <1>4, <1>5, <1>6, Zenon DEF Next

\* The inductive invariant of log.c and of the recovery in initlog.
THEOREM LogInvariant == Spec => []IInv
BY InitIInv, NextIInv, PTL DEF Spec

\* Type correctness: in particular log.lh never outgrows block[LOGBLOCKS].
THEOREM LogTypeOK == Spec => []TypeOK
<1>1. IInv => TypeOK
  BY Zenon DEF IInv
<1>. QED BY <1>1, LogInvariant, PTL

\* A buffer bget may recycle equals its disk block, unless a failing writei released
\* it with a change that was not logged.
THEOREM LogRecyclableIsClean == Spec => []RecyclableIsClean
<1>1. IInv => RecyclableIsClean
  BY DEF IInv, PinInv, RecyclableIsClean
<1>. QED BY <1>1, LogInvariant, PTL

\* Outside a commit, the pins of log_write are exactly the logged blocks.
THEOREM LogPinsBalance == Spec => []PinsBalance
<1>1. ASSUME IInv PROVE PinsBalance
  <2> SUFFICES ASSUME boot = "up", ~committing, NEW b \in Blocks
               PROVE  pins[b] = IF b \in Elems(lh) THEN 1 ELSE 0
    BY Zenon DEF PinsBalance
  <2>1. ~Installing
    BY <1>1, Zenon DEF IInv, CommitInv, Installing, CommitPC
  <2>2. Pending(b) <=> b \in Elems(lh)
    BY <2>1, Zenon DEF Pending, Elems
  <2>. QED BY <1>1, <2>2, Zenon DEF IInv, PinInv
<1>. QED BY <1>1, LogInvariant, PTL

--------------------------------------------------------------------------------
(* Sleepers, and the room that begin_op reserves. *)

\* A step of a process that neither goes to sleep nor lets anybody go on.
LEMMA SleepersKept ==
  ASSUME IInv, NoLostSleeper, NEW p \in Procs, NEW to, to # "sleeping",
         pc' = [pc EXCEPT ![p] = to], outstanding' = outstanding, committing' = committing,
         begin_op_waits => begin_op_waits'
  PROVE  NoLostSleeper'
<1>1. pc \in [Procs -> PC]
  BY Zenon DEF IInv, TypeOK
<1>. QED BY <1>1, Zenon DEF NoLostSleeper

\* log_write only takes room away.
LEMMA WaitsWhenLogged ==
  ASSUME IInv, NEW p \in Procs, log_write(p), begin_op_waits
  PROVE  begin_op_waits'
<1>1. /\ outstanding \in Nat /\ outstanding' = outstanding /\ committing' = committing
      /\ lh \in Seq(Blocks) /\ held[p] \in Blocks
  BY Zenon DEF log_write, IInv, TypeOK, HeldInv
<1>2. lh' = lh \/ lh' = Append(lh, held[p])
  BY Zenon DEF log_write, record
<1>3. Len(lh) \in Nat /\ Len(lh') \in Nat /\ Len(lh') >= Len(lh)
  BY <1>1, <1>2, AppendFacts
<1>4. (outstanding + 1) * MAXOPBLOCKS \in Nat /\ LOGBLOCKS \in Nat
  BY <1>1, LogAssumption DEF LogAssumption
<1>. QED BY <1>1, <1>3, <1>4 DEF begin_op_waits

LEMMA SleeperStep ==
  ASSUME IInv, NoLostSleeper, [Next]_vars
  PROVE  NoLostSleeper'
<1>1. outstanding \in Nat /\ pc \in [Procs -> PC] /\ committing \in BOOLEAN
  BY Zenon DEF IInv, TypeOK
<1>0. CASE UNCHANGED <<pc, outstanding, committing, lh>>
  BY <1>0, Zenon DEF NoLostSleeper, begin_op_waits
<1>2. CASE recover
  <2>1. boot # "up" /\ pc' = pc
    BY <1>2, Zenon DEF recover, read_head, recover_install, recover_clear, procVars
  <2>. QED BY <2>1, Zenon DEF IInv, BootInv, NoLostSleeper
<1>3. ASSUME NEW p \in Procs, begin_op_sleep(p)
      PROVE  NoLostSleeper'
  <2>1. outstanding = 0 => committing
    <3>1. outstanding = 0 /\ ~committing => Len(lh) = 0
      BY <1>3, Zenon DEF IInv, PhaseInv, begin_op_sleep
    <3>. QED BY <1>3, <3>1, LogAssumption DEF begin_op_sleep, begin_op_waits, LogAssumption
  <2>2. outstanding > 0 \/ committing
    BY <1>1, <2>1
  <2>3. begin_op_waits'
    BY <1>3, Zenon DEF begin_op_sleep, begin_op_waits, logVars
  <2>. QED BY <1>3, <2>2, <2>3, Zenon DEF begin_op_sleep, NoLostSleeper, logVars
<1>4. ASSUME NEW p \in Procs, begin_op(p)
      PROVE  NoLostSleeper'
  <2>1. \A q \in Procs : pc[q] # "sleeping"
    BY <1>4, Zenon DEF begin_op, NoLostSleeper
  <2>. QED BY <1>1, <1>4, <2>1, Zenon DEF begin_op, NoLostSleeper
<1>5. ASSUME NEW p \in Procs, \/ \E b \in Blocks, v \in Vals : modify(p, b, v)
                              \/ writei_fails(p) \/ commit(p) \/ write_log(p)
                              \/ write_head(p) \/ install_trans(p)
      PROVE  NoLostSleeper'
  <2>1. outstanding' = outstanding /\ committing' = committing /\ lh' = lh
    BY <1>5, Zenon
    DEF modify, writei_fails, commit, write_log, write_head, install_trans, InstallOne, logVars
  <2>2. \E to : to # "sleeping" /\ pc' = [pc EXCEPT ![p] = to]
    BY <1>5, ZenonT(60)
    DEF modify, writei_fails, commit, write_log, write_head, install_trans
  <2>3. begin_op_waits => begin_op_waits'
    BY <2>1, Zenon DEF begin_op_waits
  <2>. QED BY <2>1, <2>2, <2>3, SleepersKept, Zenon
<1>6. ASSUME NEW p \in Procs, log_write(p) \/ erase(p)
      PROVE  NoLostSleeper'
  <2>1. outstanding' = outstanding /\ committing' = committing
    BY <1>6, Zenon DEF log_write, erase
  <2>2. \E to : to # "sleeping" /\ pc' = [pc EXCEPT ![p] = to]
    BY <1>6, Zenon DEF log_write, erase
  <2>3. CASE erase(p)
    <3>1. committing
      BY <2>3, Committer, Zenon DEF erase, CommitPC
    <3>. QED BY <2>1, <2>2, <3>1, SleepersKept, Zenon DEF begin_op_waits
  <2>4. CASE log_write(p)
    BY <2>1, <2>2, <2>4, SleepersKept, WaitsWhenLogged, Zenon
  <2>. QED BY <1>6, <2>3, <2>4, Zenon
<1>7. ASSUME NEW p \in Procs, end_op(p)
      PROVE  NoLostSleeper'
  <2>1. CASE outstanding = 1
    BY <1>7, <2>1, Zenon DEF end_op, NoLostSleeper, begin_op_waits
  <2>2. CASE outstanding # 1
    BY <1>1, <1>7, <2>2, Zenon DEF end_op, NoLostSleeper, WakeLog
  <2>. QED BY <2>1, <2>2, Zenon
<1>8. ASSUME NEW p \in Procs, end_commit(p)
      PROVE  NoLostSleeper'
  BY <1>1, <1>8, Zenon DEF end_commit, NoLostSleeper, WakeLog
<1>10. ASSUME NEW b \in Blocks, read_block(b) \/ recycle(b)
       PROVE  NoLostSleeper'
  BY <1>0, <1>10, Zenon DEF read_block, recycle, procVars, logVars
<1>11. CASE Crash
  BY <1>11, Zenon DEF Crash, NoLostSleeper
<1>12. CASE UNCHANGED vars
  BY <1>0, <1>12, Zenon DEF vars
<1>. QED
  BY <1>2, <1>3, <1>4, <1>5, <1>6, <1>7, <1>8, <1>10, <1>11, <1>12, Zenon DEF Next

\* No process sleeps in begin_op for a commit that is over or for room that has come
\* back, nor when there is no end_op or commit left to wake it.
THEOREM LogNoLostSleeper == Spec => []NoLostSleeper
<1>1. Init => NoLostSleeper
  BY Zenon DEF Init, NoLostSleeper
<1>2. IInv /\ NoLostSleeper /\ [Next]_vars => NoLostSleeper'
  BY SleeperStep, Zenon
<1>. QED BY <1>1, <1>2, LogInvariant, PTL DEF Spec

\* The blocks that begin_op reserved for the operations in progress and that they have
\* not logged yet, numbered for each of them.
Room ==
  {e \in Procs \X (1..MAXOPBLOCKS) : pc[e[1]] \in OpPC /\ Cardinality(wrote[e[1]]) < e[2]}

\* The log has room for what is reserved.
RoomInv ==
  /\ \A p \in InOp :
       /\ IsFiniteSet(wrote[p]) /\ Cardinality(wrote[p]) <= OpBlocks
       /\ wrote[p] \subseteq Elems(lh)
  /\ \A p \in Procs :
       pc[p] = "modified" => held[p] \in wrote[p] \/ Cardinality(wrote[p]) < OpBlocks
  /\ Len(lh) + Cardinality(Room) <= LOGBLOCKS

\* Each operation has reserved at most MAXOPBLOCKS.
LEMMA RoomSize ==
  ASSUME IInv
  PROVE  /\ IsFiniteSet(Room) /\ Cardinality(Room) \in Nat
         /\ Cardinality(Room) <= outstanding * MAXOPBLOCKS
<1>1. MAXOPBLOCKS \in Nat /\ IsFiniteSet(1..MAXOPBLOCKS)
      /\ Cardinality(1..MAXOPBLOCKS) = MAXOPBLOCKS
  BY LogAssumption, FS_Interval DEF LogAssumption
<1>2. IsFiniteSet(InOp) /\ outstanding = Cardinality(InOp)
  BY Counting, Zenon DEF IInv, CountInv
<1>3. /\ IsFiniteSet(InOp \X (1..MAXOPBLOCKS))
      /\ Cardinality(InOp \X (1..MAXOPBLOCKS)) = outstanding * MAXOPBLOCKS
  BY <1>1, <1>2, FS_Product, Zenon
<1>4. Room \in SUBSET (InOp \X (1..MAXOPBLOCKS))
  BY DEF Room, InOp
<1>5. IsFiniteSet(Room) /\ Cardinality(Room) <= outstanding * MAXOPBLOCKS
  BY <1>3, <1>4, FS_Subset, Zenon
<1>. QED BY <1>5, FS_CardinalityType, Zenon

LEMMA RoomSizeNext ==
  (IInv => /\ IsFiniteSet(Room) /\ Cardinality(Room) \in Nat
           /\ Cardinality(Room) <= outstanding * MAXOPBLOCKS)'
<1>1. IInv => /\ IsFiniteSet(Room) /\ Cardinality(Room) \in Nat
              /\ Cardinality(Room) <= outstanding * MAXOPBLOCKS
  BY RoomSize, Zenon
<1>. QED BY <1>1, PTL

\* A step after which no operation is in progress.
LEMMA RoomEmpty ==
  ASSUME IInv', InOp' = {}
  PROVE  RoomInv'
<1>1. Room' = {} /\ \A p \in Procs : pc'[p] \notin OpPC
  BY Zenon DEF Room, InOp
<1>2. Cardinality(Room') = 0
  BY <1>1, FS_EmptySet, Zenon
<1>3. lh' \in Seq(Blocks) /\ Len(lh') <= LOGBLOCKS
  BY Zenon DEF IInv, TypeOK
<1>4. Len(lh') + Cardinality(Room') <= LOGBLOCKS
  BY <1>2, <1>3
<1>. QED BY <1>1, <1>4, Zenon DEF RoomInv, InOp, OpPC

\* A step that reserves nothing and logs nothing.
LEMMA RoomKept ==
  ASSUME IInv, IInv', RoomInv, lh' = lh,
         \A p \in Procs : pc'[p] \in OpPC => pc[p] \in OpPC /\ wrote'[p] = wrote[p],
         \A p \in Procs : pc'[p] = "modified" =>
           held'[p] \in wrote[p] \/ Cardinality(wrote[p]) < OpBlocks
  PROVE  RoomInv'
<1>1. Room' \in SUBSET Room
  BY Zenon DEF Room
<1>2. Cardinality(Room') <= Cardinality(Room) /\ Cardinality(Room) \in Nat
  BY <1>1, RoomSize, FS_Subset, Zenon
<1>3. Cardinality(Room') \in Nat
  BY RoomSizeNext, Zenon
<1>4. Len(lh) \in Nat /\ LOGBLOCKS \in Nat /\ Len(lh) + Cardinality(Room) <= LOGBLOCKS
  BY LogAssumption, SMTT(60) DEF IInv, TypeOK, RoomInv, LogAssumption
<1>5. Len(lh') + Cardinality(Room') <= LOGBLOCKS
  BY <1>2, <1>3, <1>4
<1>6. \A p \in InOp' : p \in InOp /\ wrote'[p] = wrote[p]
  BY Zenon DEF InOp
<1>7. \A p \in Procs : pc'[p] = "modified" => wrote'[p] = wrote[p]
  BY Zenon DEF OpPC
<1>. QED BY <1>5, <1>6, <1>7, Zenon DEF RoomInv, Elems

LEMMA RoomBegin ==
  ASSUME IInv, IInv', RoomInv, NEW p \in Procs, begin_op(p)
  PROVE  RoomInv'
<1>1. outstanding' = outstanding + 1 /\ lh' = lh
      /\ Len(lh) + (outstanding + 1) * MAXOPBLOCKS <= LOGBLOCKS
  BY LogAssumption DEF begin_op, begin_op_waits, IInv, TypeOK, LogAssumption
<1>2. Len(lh') + Cardinality(Room') <= LOGBLOCKS
  <2>1. Cardinality(Room') \in Nat /\ Cardinality(Room') <= (outstanding + 1) * MAXOPBLOCKS
    BY <1>1, RoomSizeNext, Zenon
  <2>2. (outstanding + 1) * MAXOPBLOCKS \in Nat /\ Len(lh) \in Nat /\ LOGBLOCKS \in Nat
    BY LogAssumption DEF IInv, TypeOK, LogAssumption
  <2>. QED BY <1>1, <2>1, <2>2
<1>3. wrote'[p] = {} /\ pc'[p] = "inop"
      /\ \A q \in Procs : q # p => wrote'[q] = wrote[q] /\ pc'[q] = pc[q] /\ held'[q] = held[q]
  BY Zenon DEF begin_op, IInv, TypeOK
<1>4. IsFiniteSet(wrote'[p]) /\ Cardinality(wrote'[p]) <= OpBlocks
  <2>1. Cardinality(wrote'[p]) = 0 /\ IsFiniteSet(wrote'[p])
    BY <1>3, FS_EmptySet, Zenon
  <2>. QED BY <2>1, LogAssumption DEF LogAssumption
<1>5. \A q \in InOp' : q = p \/ q \in InOp
  BY <1>3, Zenon DEF InOp
<1>. QED BY <1>1, <1>2, <1>3, <1>4, <1>5, ZenonT(60) DEF RoomInv, InOp, Elems

\* log_write adds its block to the header, if it is not there.
LEMMA RecordElems ==
  ASSUME IInv, NEW b \in Blocks, record(b)
  PROVE  Elems(lh') = Elems(lh) \cup {b}
<1>1. lh \in Seq(Blocks)
  BY Zenon DEF IInv, TypeOK
<1>2. CASE lh' = lh /\ b \in Elems(lh)
  BY <1>2, Zenon DEF Elems
<1>3. CASE lh' = Append(lh, b)
  <2>1. /\ Len(lh') = Len(lh) + 1 /\ Len(lh) \in Nat /\ lh'[Len(lh) + 1] = b
        /\ \A i \in 1..Len(lh) : lh'[i] = lh[i]
    BY <1>1, <1>3, AppendFacts
  <2>. QED BY <2>1 DEF Elems
<1>. QED BY <1>2, <1>3, Zenon DEF record

LEMMA RoomLogWrite ==
  ASSUME IInv, IInv', RoomInv, NEW p \in Procs, log_write(p)
  PROVE  RoomInv'
<1> DEFINE b == held[p]
<1>1. pc[p] = "modified" /\ p \in InOp /\ b \in Blocks
  BY Zenon DEF log_write, IInv, TypeOK, HeldInv, InOp, OpPC
<1>2. /\ pc'[p] = "inop" /\ wrote'[p] = wrote[p] \cup {b}
      /\ \A q \in Procs : q # p => wrote'[q] = wrote[q] /\ pc'[q] = pc[q] /\ held'[q] = held[q]
  BY Zenon DEF log_write, IInv, TypeOK
<1>3. IsFiniteSet(wrote[p]) /\ wrote[p] \subseteq Elems(lh) /\ Cardinality(wrote[p]) \in Nat
  BY <1>1, FS_CardinalityType, Zenon DEF RoomInv
<1>4. /\ IsFiniteSet(wrote'[p])
      /\ Cardinality(wrote'[p]) =
           IF b \in wrote[p] THEN Cardinality(wrote[p]) ELSE Cardinality(wrote[p]) + 1
  <2>1. /\ IsFiniteSet(wrote[p] \cup {b})
        /\ Cardinality(wrote[p] \cup {b}) =
             IF b \in wrote[p] THEN Cardinality(wrote[p]) ELSE Cardinality(wrote[p]) + 1
    BY <1>3, FS_AddElement, Zenon
  <2>. QED BY <1>2, <2>1, Zenon
<1>5. Cardinality(wrote'[p]) <= OpBlocks
  <2>1. Cardinality(wrote[p]) <= OpBlocks /\ (b \in wrote[p] \/ Cardinality(wrote[p]) < OpBlocks)
    BY <1>1, Zenon DEF RoomInv
  <2>. QED BY <1>3, <1>4, <2>1, LogAssumption DEF LogAssumption
<1>6. \/ b \in Elems(lh) /\ lh' = lh
      \/ b \notin Elems(lh) /\ lh' = Append(lh, b)
  BY Zenon DEF log_write, record
<1>7. Elems(lh') = Elems(lh) \cup {b} /\ Len(lh) \in Nat /\ Len(lh') \in Nat
  <2>1. Elems(lh') = Elems(lh) \cup {b}
    BY <1>1, RecordElems, Zenon DEF log_write
  <2>2. lh \in Seq(Blocks) /\ lh' \in Seq(Blocks)
    BY Zenon DEF IInv, TypeOK
  <2>. QED BY <2>1, <2>2
<1>8. \A q \in InOp' : /\ IsFiniteSet(wrote'[q]) /\ Cardinality(wrote'[q]) <= OpBlocks
                       /\ wrote'[q] \subseteq Elems(lh')
  <2> SUFFICES ASSUME NEW q \in InOp'
               PROVE  /\ IsFiniteSet(wrote'[q]) /\ Cardinality(wrote'[q]) <= OpBlocks
                      /\ wrote'[q] \subseteq Elems(lh')
    BY Zenon
  <2>1. CASE q = p
    BY <1>2, <1>3, <1>4, <1>5, <1>7, <2>1, Zenon
  <2>2. CASE q # p
    BY <1>2, <1>7, <2>2, Zenon DEF RoomInv, InOp
  <2>. QED BY <2>1, <2>2, Zenon
<1>9. Len(lh') + Cardinality(Room') <= LOGBLOCKS
  <2>1. Len(lh) + Cardinality(Room) <= LOGBLOCKS /\ LOGBLOCKS \in Nat
        /\ Cardinality(Room) \in Nat /\ IsFiniteSet(Room) /\ Cardinality(Room') \in Nat
    BY RoomSize, RoomSizeNext, LogAssumption, Zenon DEF RoomInv, LogAssumption
  <2>2. Room' \in SUBSET Room
    <3>1. \A q \in Procs : pc'[q] \in OpPC => pc[q] \in OpPC
      BY <1>1, <1>2, Zenon DEF InOp
    <3>2. \A q \in Procs, k \in 1..MAXOPBLOCKS :
            Cardinality(wrote'[q]) < k => Cardinality(wrote[q]) < k
      <4>1. \A k \in 1..MAXOPBLOCKS : Cardinality(wrote'[p]) < k => Cardinality(wrote[p]) < k
        BY <1>3, <1>4, LogAssumption DEF LogAssumption
      <4>. QED BY <1>2, <4>1, Zenon
    <3>. QED BY <3>1, <3>2 DEF Room
  <2>3. CASE b \in Elems(lh)
    <3>1. Cardinality(Room') <= Cardinality(Room) /\ lh' = lh
      BY <1>6, <2>1, <2>2, <2>3, FS_Subset, Zenon
    <3>. QED BY <1>7, <2>1, <3>1
  <2>4. CASE b \notin Elems(lh)
    <3> DEFINE e == <<p, Cardinality(wrote[p]) + 1>>
    <3>1. b \notin wrote[p] /\ Len(lh') = Len(lh) + 1
      <4>1. lh \in Seq(Blocks) /\ lh' = Append(lh, b) /\ b \notin wrote[p]
        BY <1>3, <1>6, <2>4, Zenon DEF IInv, TypeOK
      <4>. QED BY <1>1, <4>1, AppendFacts, Zenon
    <3>2. Cardinality(wrote[p]) < MAXOPBLOCKS
      <4>1. Cardinality(wrote[p]) < OpBlocks
        BY <1>1, <3>1, Zenon DEF RoomInv
      <4>. QED BY <1>3, <4>1, LogAssumption DEF LogAssumption
    <3>3. e \in Room
      <4>1. Cardinality(wrote[p]) + 1 \in 1..MAXOPBLOCKS
            /\ Cardinality(wrote[p]) < Cardinality(wrote[p]) + 1
        BY <1>3, <3>2, LogAssumption DEF LogAssumption
      <4>. QED BY <1>1, <4>1 DEF Room, InOp
    <3>4. e \notin Room'
      <4>1. ~ (Cardinality(wrote'[p]) < Cardinality(wrote[p]) + 1)
        BY <1>3, <1>4, <3>1
      <4>. QED BY <4>1 DEF Room
    <3>5. Room' \in SUBSET (Room \ {e})
      BY <2>2, <3>4, Zenon
    <3>6. IsFiniteSet(Room \ {e}) /\ Cardinality(Room \ {e}) = Cardinality(Room) - 1
      BY <2>1, <3>3, FS_RemoveElement, ZenonT(60)
    <3>7. Cardinality(Room') <= Cardinality(Room) - 1
      <4>1. Cardinality(Room') <= Cardinality(Room \ {e})
        BY <3>5, <3>6, FS_Subset, Zenon
      <4>. QED BY <3>6, <4>1, Zenon
    <3>. QED BY <1>7, <2>1, <3>1, <3>7
  <2>. QED BY <2>3, <2>4, Zenon
<1>10. \A q \in Procs : pc'[q] = "modified" =>
         held'[q] \in wrote'[q] \/ Cardinality(wrote'[q]) < OpBlocks
  BY <1>2, Zenon DEF RoomInv
<1>. QED BY <1>8, <1>9, <1>10, Zenon DEF RoomInv

LEMMA RoomStep ==
  ASSUME IInv, IInv', RoomInv, [Next]_vars
  PROVE  RoomInv'
<1>1. pc \in [Procs -> PC] /\ wrote \in [Procs -> SUBSET Blocks]
      /\ held \in [Procs -> Blocks \cup {NoBuf}]
  BY Zenon DEF IInv, TypeOK
<1>2. CASE recover
  <2>1. boot # "up" /\ pc' = pc
    BY <1>2, Zenon DEF recover, read_head, recover_install, recover_clear, procVars
  <2>. QED BY <2>1, RoomEmpty, Zenon DEF IInv, BootInv, InOp, OpPC
<1>3. ASSUME NEW p \in Procs, begin_op_sleep(p)
      PROVE  RoomInv'
  <2>1. lh' = lh /\ wrote' = wrote /\ held' = held
        /\ \A q \in Procs : pc'[q] \in OpPC => pc'[q] = pc[q]
    BY <1>1, <1>3, Zenon DEF begin_op_sleep, logVars, OpPC
  <2>. QED BY <2>1, RoomKept, Zenon DEF RoomInv, OpPC
<1>4. ASSUME NEW p \in Procs, NEW b \in Blocks, NEW v \in Vals, modify(p, b, v)
      PROVE  RoomInv'
  <2>1. lh' = lh /\ wrote' = wrote /\ pc[p] = "inop" /\ held'[p] = b
        /\ (b \in wrote[p] \/ Cardinality(wrote[p]) < OpBlocks)
        /\ \A q \in Procs : q # p => pc'[q] = pc[q] /\ held'[q] = held[q]
    BY <1>1, <1>4, Zenon DEF modify, logVars
  <2>. QED BY <2>1, RoomKept, Zenon DEF RoomInv, OpPC
<1>5. ASSUME NEW p \in Procs, end_op(p)
      PROVE  RoomInv'
  <2>1. lh' = lh /\ wrote' = wrote /\ held' = held
        /\ \A q \in Procs : pc'[q] \in OpPC => pc'[q] = pc[q]
    BY <1>1, <1>5, Zenon DEF end_op, OpPC, WakeLog
  <2>. QED BY <2>1, RoomKept, Zenon DEF RoomInv, OpPC
<1>6. ASSUME NEW p \in Procs, \/ commit(p) \/ write_log(p) \/ write_head(p)
                              \/ install_trans(p) \/ erase(p) \/ end_commit(p)
      PROVE  RoomInv'
  <2>1. pc[p] \in CommitPC /\ \A q \in Procs : pc'[q] \in OpPC => pc[q] \in OpPC
    BY <1>1, <1>6, ZenonT(60)
    DEF commit, write_log, write_head, install_trans, erase, end_commit, WakeLog, OpPC, CommitPC
  <2>2. InOp = {}
    BY <2>1, Zenon DEF IInv, CommitInv
  <2>. QED BY <2>1, <2>2, RoomEmpty, Zenon DEF InOp
<1>7. CASE UNCHANGED <<lh, pc, wrote, held>>
  BY <1>7, RoomKept, Zenon DEF RoomInv, OpPC
<1>8. ASSUME NEW b \in Blocks, read_block(b) \/ recycle(b)
      PROVE  RoomInv'
  BY <1>7, <1>8, Zenon DEF read_block, recycle, procVars, logVars
<1>9. CASE Crash
  BY <1>9, RoomEmpty, Zenon DEF Crash, InOp, OpPC
<1>10. CASE UNCHANGED vars
  BY <1>7, <1>10, Zenon DEF vars
<1>11. ASSUME NEW p \in Procs, writei_fails(p)
       PROVE  RoomInv'
  <2>1. lh' = lh /\ wrote' = wrote /\ pc[p] = "modified" /\ pc'[p] = "inop"
        /\ \A q \in Procs : q # p => pc'[q] = pc[q] /\ held'[q] = held[q]
    BY <1>1, <1>11, Zenon DEF writei_fails, logVars
  <2>. QED BY <2>1, RoomKept, Zenon DEF RoomInv, OpPC
<1>. QED
  BY <1>2, <1>3, <1>4, <1>5, <1>6, <1>8, <1>9, <1>10, <1>11, RoomBegin, RoomLogWrite, ZenonT(60) DEF Next

\* The panics of log_write and end_op are unreachable, for any number of processes and
\* blocks and any log, if an operation writes fewer blocks than begin_op reserves for it.
\* (With exactly as many one more write to a block that is already in the log would find
\* the log full: log_write looks at log.lh.n before it looks for the block.)
THEOREM LogNoPanic ==
  ASSUME OpBlocks < MAXOPBLOCKS
  PROVE  Spec => []NoLogPanic
<1>1. Init => RoomInv
  <2> SUFFICES ASSUME Init PROVE RoomInv
    OBVIOUS
  <2>1. Room = {} /\ InOp = {} /\ Len(lh) = 0 /\ \A p \in Procs : pc[p] # "modified"
    BY Zenon DEF Init, Room, InOp, OpPC
  <2>2. Cardinality(Room) = 0
    BY <2>1, FS_EmptySet, Zenon
  <2>3. Len(lh) + Cardinality(Room) <= LOGBLOCKS
    BY <2>1, <2>2, LogAssumption DEF LogAssumption
  <2>. QED BY <2>1, <2>3, Zenon DEF RoomInv
<1>2. IInv /\ IInv' /\ RoomInv /\ [Next]_vars => RoomInv'
  BY RoomStep, Zenon
<1>3. IInv /\ RoomInv => NoLogPanic
  <2> SUFFICES ASSUME IInv, RoomInv, NEW p \in Procs
               PROVE  /\ pc[p] = "modified" => ~log_write_panics
                      /\ pc[p] = "inop" => ~end_op_panics
    BY Zenon DEF NoLogPanic
  <2>1. ASSUME pc[p] = "modified"
        PROVE  ~log_write_panics
    <3>1. p \in InOp /\ Cardinality(wrote[p]) <= OpBlocks /\ IsFiniteSet(wrote[p])
      BY <2>1, Zenon DEF RoomInv, InOp, OpPC
    <3>2. Cardinality(wrote[p]) \in Nat
      BY <3>1, FS_CardinalityType, Zenon
    <3>3. Cardinality(wrote[p]) < MAXOPBLOCKS /\ MAXOPBLOCKS \in 1..MAXOPBLOCKS
      BY <3>1, <3>2, LogAssumption DEF LogAssumption
    <3>4. <<p, MAXOPBLOCKS>> \in Room
      BY <3>1, <3>3 DEF Room, InOp
    <3>5. Cardinality(Room) # 0 /\ Cardinality(Room) \in Nat
      BY <3>4, RoomSize, FS_EmptySet, Zenon
    <3>6. Len(lh) + Cardinality(Room) <= LOGBLOCKS /\ Len(lh) \in Nat /\ LOGBLOCKS \in Nat
      BY LogAssumption DEF RoomInv, IInv, TypeOK, LogAssumption
    <3>7. outstanding # 0 /\ outstanding \in Nat
      BY <3>1, Counting, Zenon DEF IInv, TypeOK
    <3>. QED BY <3>5, <3>6, <3>7 DEF log_write_panics
  <2>2. ASSUME pc[p] = "inop"
        PROVE  ~end_op_panics
    BY <2>2, Zenon DEF IInv, CommitInv, InOp, OpPC, end_op_panics
  <2>. QED BY <2>1, <2>2, Zenon
<1>. QED BY <1>1, <1>2, <1>3, LogInvariant, PTL DEF Spec

--------------------------------------------------------------------------------
(* log.c implements AtomicDisk. *)

\* The block of a committed header is recovered from its log block.
LEMMA DurableAt ==
  ASSUME IInv
  PROVE  /\ \A i \in 1..Len(head) : Durable[head[i]] = logblk[i]
         /\ \A b \in Blocks : (\A i \in 1..Len(head) : head[i] # b) => Durable[b] = disk[b]
<1>1. ASSUME NEW i \in 1..Len(head) PROVE Durable[head[i]] = logblk[i]
  <2>0. head \in Seq(Blocks)
    BY Zenon DEF IInv, TypeOK
  <2>1. head[i] \in Blocks /\ head[i] \in Elems(head)
    BY <2>0, SMTT(30) DEF Elems
  <2>2. (CHOOSE j \in 1..Len(head) : head[j] = head[i]) = i
    BY Zenon DEF IInv, Injective
  <2>. QED BY <2>1, <2>2, Zenon DEF Durable
<1>2. ASSUME NEW b \in Blocks, \A i \in 1..Len(head) : head[i] # b
      PROVE  Durable[b] = disk[b]
  BY <1>2, Zenon DEF Durable, Elems
<1>. QED BY <1>1, <1>2, Zenon

\* With an empty on-disk header the home blocks are the durable state.
LEMMA DurableNoHead ==
  ASSUME IInv, head = <<>>
  PROVE  Durable = disk
<1>1. Elems(head) = {}
  BY DEF Elems
<1>. QED BY <1>1, Zenon DEF Durable, IInv, TypeOK

\* The same of the state after a step.
LEMMA DurableNoHeadNext == (IInv /\ head = <<>> => Durable = disk)'
<1>1. IInv /\ head = <<>> => Durable = disk
  BY DurableNoHead, Zenon
<1>. QED BY <1>1, PTL

\* Once every log block has been copied home, the home blocks are.
LEMMA DurableHome ==
  ASSUME IInv, \A i \in 1..Len(head) : disk[head[i]] = logblk[i]
  PROVE  Durable = disk
<1>1. ASSUME NEW b \in Blocks PROVE Durable[b] = disk[b]
  <2>1. CASE \A i \in 1..Len(head) : head[i] # b
    BY <2>1, DurableAt, Zenon
  <2>2. ASSUME NEW i \in 1..Len(head), head[i] = b
        PROVE  Durable[b] = disk[b]
    <3>1. Durable[head[i]] = logblk[i] /\ disk[head[i]] = logblk[i]
      BY DurableAt, Zenon
    <3>. QED BY <2>2, <3>1, Zenon
  <2>. QED BY <2>1, <2>2, Zenon
<1>2. disk \in [Blocks -> Vals]
  BY Zenon DEF IInv, TypeOK
<1>3. Durable = [b \in Blocks |-> Durable[b]]
  BY DEF Durable
<1>4. disk = [b \in Blocks |-> disk[b]]
  BY <1>2, Zenon
<1>. QED BY <1>1, <1>3, <1>4, Zenon

\* Without a log in memory nothing is logged.
LEMMA NothingLogged == boot # "up" \/ lh = <<>> => Logged = Durable
<1> SUFFICES ASSUME boot # "up" \/ lh = <<>> PROVE Logged = Durable
  OBVIOUS
<1>1. lh = <<>> => Elems(lh) = {}
  BY DEF Elems
<1>. QED BY <1>1, Zenon DEF Logged, Durable

\* The same of the state after a step.
LEMMA NothingLoggedNext == (boot # "up" \/ lh = <<>> => Logged = Durable)'
BY NothingLogged, PTL

\* Once the header is on disk, and until it is erased, what has been logged is
\* what a reboot would recover.
LEMMA InstallingLogged ==
  ASSUME IInv, boot = "up", Installing
  PROVE  Logged = Durable
<1>1. PICK p \in Procs : pc[p] \in {"install", "erase"}
  BY Zenon DEF Installing
<1>2. /\ head = lh
      /\ \A i \in 1..Len(lh) : IF i < tail THEN disk[lh[i]] = logblk[i]
                                           ELSE cache[lh[i]] = logblk[i]
      /\ \A q \in Procs : held[q] = NoBuf
  BY <1>1, Committer, PhaseAt, Zenon DEF CommitPC
<1>3. ASSUME NEW b \in Blocks, NEW i \in 1..Len(lh), lh[i] = b
      PROVE  Durable[b] = Bread(b)
  <2>1. Durable[b] = logblk[i]
    BY <1>2, <1>3, DurableAt, Zenon
  <2>2. CASE i < tail
    <3>1. ~Pending(b)
      BY <1>3, <2>2, SMTT(60) DEF Pending, IInv, Injective, TypeOK
    <3>2. cache[b] \in {NoBuf, disk[b]}
      <4>1. \A q \in Procs : held[q] # b
        BY <1>2, LogAssumption, Zenon DEF LogAssumption
      <4>2. b \notin unlogged
        BY <1>3, PinsAt, Zenon
      <4>. QED BY <3>1, <4>1, <4>2, PinsAt, Zenon
    <3>3. Bread(b) = disk[b]
      BY <3>2, Zenon DEF Bread
    <3>4. disk[b] = logblk[i]
      BY <1>2, <1>3, <2>2, Zenon
    <3>. QED BY <2>1, <3>3, <3>4, Zenon
  <2>3. CASE ~(i < tail)
    <3>1. Pending(b)
      BY <1>3, <2>3 DEF Pending, IInv, TypeOK
    <3>2. cache[b] = logblk[i] /\ cache[b] # NoBuf
      BY <1>2, <1>3, <2>3, <3>1, PinsAt, Zenon
    <3>. QED BY <2>1, <3>2, Zenon DEF Bread
  <2>. QED BY <2>2, <2>3, Zenon
<1>4. \A b \in Blocks : b \in Elems(lh) => Bread(b) = Durable[b]
  BY <1>3, Zenon DEF Elems
<1>. QED BY <1>4, Zenon DEF Logged, Durable

\* The same of the state after a step.
LEMMA InstallingLoggedNext == (IInv /\ boot = "up" /\ Installing => Logged = Durable)'
<1>1. IInv /\ boot = "up" /\ Installing => Logged = Durable
  BY InstallingLogged, Zenon
<1>. QED BY <1>1, PTL

\* A step that leaves the disk alone leaves the durable state alone.
LEMMA DurableKept ==
  ASSUME UNCHANGED <<disk, logblk, head>>
  PROVE  Durable' = Durable
BY DEF Durable, Elems

\* So does one that also leaves the buffers and the header in memory alone.
LEMMA LoggedKept ==
  ASSUME UNCHANGED <<disk, logblk, head, cache, lh, boot>>
  PROVE  Durable' = Durable /\ Logged' = Logged
<1>1. Durable' = Durable
  BY DurableKept, Zenon
<1>2. Elems(lh') = Elems(lh) /\ \A b \in Blocks : Bread(b)' = Bread(b)
  BY Zenon DEF Bread
<1>. QED BY <1>1, <1>2, Zenon DEF Logged

\* The abstract variables of Abs, and when they do not move.
LEMMA AbsStutter ==
  ASSUME Durable' = Durable, Logged' = Logged, outstanding' = outstanding
  PROVE  UNCHANGED Abs!dvars
BY Zenon DEF Abs!dvars

LEMMA InitAbs == Init => Abs!DiskInit
<1> SUFFICES ASSUME Init PROVE Abs!DiskInit
  OBVIOUS
<1>1. IInv
  BY InitIInv, Zenon
<1>2. Durable = disk
  BY <1>1, DurableNoHead, Zenon DEF Init
<1>3. Logged = Durable
  BY NothingLogged, Zenon DEF Init
<1>. QED BY <1>2, <1>3, Zenon DEF Init, Abs!DiskInit

\* Copying a log block home does not change what a reboot would recover.
LEMMA InstallDurable ==
  ASSUME IInv, tail \in 1..Len(head), head' = head, logblk' = logblk,
         disk' = [disk EXCEPT ![head[tail]] = logblk[tail]]
  PROVE  Durable' = Durable
<1>1. ASSUME NEW b \in Blocks PROVE Durable'[b] = Durable[b]
  <2>1. CASE b \in Elems(head)
    BY <2>1 DEF Durable, Elems
  <2>2. CASE b \notin Elems(head)
    <3>1. b # head[tail] /\ disk'[b] = disk[b] /\ Elems(head)' = Elems(head)
      BY <2>2, Zenon DEF Elems, IInv, TypeOK
    <3>. QED BY <2>2, <3>1, Zenon DEF Durable
  <2>. QED BY <2>1, <2>2, Zenon
<1>. QED BY <1>1, Zenon DEF Durable

LEMMA RecoverAbs ==
  ASSUME IInv, IInv', recover
  PROVE  UNCHANGED Abs!dvars
<1>1. /\ Logged = Durable /\ Logged' = Durable' /\ outstanding' = outstanding
  <2>1. boot # "up" /\ (boot' # "up" \/ lh' = <<>>) /\ outstanding' = outstanding
    BY Zenon DEF recover, read_head, recover_install, recover_clear
  <2>. QED BY <2>1, NothingLogged, NothingLoggedNext, Zenon
<1>2. Durable' = Durable
  <2>1. CASE read_head
    BY <2>1, DurableKept, Zenon DEF read_head, durableVars
  <2>2. CASE recover_install
    <3>1. boot = "install" /\ lh = head /\ tail \in 1..Len(head)
      BY <2>2, SMTT(30) DEF recover_install, InstallOne, IInv, BootInv, TypeOK
    <3>2. head' = head /\ logblk' = logblk /\ disk' = [disk EXCEPT ![head[tail]] = logblk[tail]]
      BY <2>2, <3>1, Zenon DEF recover_install, InstallOne
    <3>. QED BY <3>1, <3>2, InstallDurable, Zenon
  <2>3. CASE recover_clear
    <3>1. boot = "install" /\ lh = head /\ disk' = disk /\ head' = <<>>
      BY <2>3, Zenon DEF recover_clear, IInv, BootInv
    <3>2. \A i \in 1..Len(head) : disk[head[i]] = logblk[i]
      BY <2>3, <3>1, SMTT(30) DEF recover_clear, IInv, BootInv, TypeOK
    <3>3. Durable = disk
      BY <3>2, DurableHome, Zenon
    <3>4. Durable' = disk'
      BY <3>1, DurableNoHeadNext, Zenon
    <3>. QED BY <3>1, <3>3, <3>4, Zenon
  <2>. QED BY <2>1, <2>2, <2>3, Zenon DEF recover
<1>. QED BY <1>1, <1>2, AbsStutter, Zenon

\* A block of the log takes a new value.
LEMMA ModifyAbs ==
  ASSUME IInv, NEW p \in Procs, NEW b \in Blocks, NEW v \in Vals, modify(p, b, v)
  PROVE  Abs!Put(b, v) \/ UNCHANGED Abs!dvars
<1>1. /\ boot = "up" /\ boot' = "up" /\ UNCHANGED <<disk, logblk, head, lh, outstanding>>
      /\ cache' = [cache EXCEPT ![b] = v]
  <2>1. pc[p] # "idle" /\ boot' = boot /\ UNCHANGED <<disk, logblk, head, lh, outstanding>>
        /\ cache' = [cache EXCEPT ![b] = v]
    BY Zenon DEF modify, durableVars, logVars
  <2>. QED BY <2>1, UpWhenRunning, Zenon
<1>2. Durable' = Durable /\ Elems(lh') = Elems(lh)
  BY <1>1, DurableKept, Zenon
<1>3. outstanding > 0
  <2>1. InOp # {}
    BY Zenon DEF modify, InOp, OpPC
  <2>. QED BY <2>1, Counting DEF IInv, TypeOK
<1>4. Bread(b)' = v /\ \A c \in Blocks : c # b => Bread(c)' = Bread(c)
  BY <1>1, LogAssumption, Zenon DEF LogAssumption, Bread, IInv, TypeOK
<1>5. CASE b \in Elems(lh)
  <2>1. Logged' = [Logged EXCEPT ![b] = v]
    BY <1>1, <1>2, <1>4, <1>5, ZenonT(60) DEF Logged
  <2>. QED BY <1>1, <1>2, <1>3, <2>1, Zenon DEF Abs!Put
<1>6. CASE b \notin Elems(lh)
  <2>1. Logged' = Logged
    BY <1>1, <1>2, <1>4, <1>6, ZenonT(60) DEF Logged
  <2>. QED BY <1>1, <1>2, <2>1, AbsStutter, Zenon
<1>. QED BY <1>5, <1>6, Zenon

\* A block enters the log, with what its buffer holds, or is there already.
LEMMA LogWriteAbs ==
  ASSUME IInv, NEW p \in Procs, log_write(p)
  PROVE  (\E b \in Blocks, v \in Vals : Abs!Put(b, v)) \/ UNCHANGED Abs!dvars
<1> DEFINE b == held[p]
<1>1. /\ boot = "up" /\ boot' = "up" /\ UNCHANGED <<disk, logblk, head, cache, outstanding>>
      /\ b \in Blocks /\ cache[b] \in Vals /\ record(b)
  <2>1. /\ pc[p] # "idle" /\ boot' = boot /\ UNCHANGED <<disk, logblk, head, cache, outstanding>>
        /\ record(b)
    BY Zenon DEF log_write, durableVars
  <2>2. b \in Blocks /\ cache[b] \in Vals
    BY Zenon DEF log_write, IInv, TypeOK, HeldInv
  <2>. QED BY <2>1, <2>2, UpWhenRunning, Zenon
<1>2. outstanding > 0
  <2>1. InOp # {}
    BY Zenon DEF log_write, InOp, OpPC
  <2>. QED BY <2>1, Counting DEF IInv, TypeOK
<1> HIDE DEF b
<1>3. Durable' = Durable /\ \A c \in Blocks : Bread(c)' = Bread(c)
  BY <1>1, DurableKept, Zenon DEF Bread
<1>4. Elems(lh') = Elems(lh) \cup {b}
  BY <1>1, RecordElems, Zenon
<1>5. CASE b \in Elems(lh)
  <2>1. Logged' = Logged
    BY <1>1, <1>3, <1>4, <1>5, ZenonT(60) DEF Logged
  <2>. QED BY <1>1, <1>3, <2>1, AbsStutter, Zenon
<1>6. CASE b \notin Elems(lh)
  <2>1. Bread(b) = cache[b]
    BY <1>1, LogAssumption, Zenon DEF LogAssumption, Bread
  <2>2. Logged' = [Logged EXCEPT ![b] = cache[b]]
    BY <1>1, <1>3, <1>4, <1>6, <2>1, ZenonT(60) DEF Logged
  <2>. QED BY <1>1, <1>2, <1>3, <2>2, Zenon DEF Abs!Put
<1>. QED BY <1>5, <1>6, Zenon

LEMMA OpAbs ==
  ASSUME IInv, NEW p \in Procs,
         begin_op_sleep(p) \/ begin_op(p) \/ writei_fails(p) \/ end_op(p)
  PROVE  [Abs!DiskNext]_(Abs!dvars)
<1>1. Durable' = Durable /\ Logged' = Logged
  BY LoggedKept, Zenon
  DEF begin_op_sleep, begin_op, writei_fails, end_op, durableVars, logVars, bufVars
<1>2. CASE begin_op_sleep(p) \/ writei_fails(p)
  BY <1>1, <1>2, AbsStutter, Zenon DEF begin_op_sleep, writei_fails, logVars
<1>3. CASE begin_op(p)
  <2>1. outstanding > 0 \/ Logged = Durable
    <3>1. CASE outstanding = 0
      <4>1. boot = "up" /\ ~committing
        BY <1>3, Zenon DEF begin_op, begin_op_waits
      <4>2. lh = <<>>
        BY <3>1, <4>1, Zenon DEF IInv, PhaseInv
      <4>. QED BY <4>2, NothingLogged, Zenon
    <3>. QED BY <3>1 DEF IInv, TypeOK
  <2>2. Abs!Begin
    <3>1. outstanding' = outstanding + 1
      BY <1>3, Zenon DEF begin_op
    <3>. QED BY <1>1, <2>1, <3>1, Zenon DEF Abs!Begin
  <2>. QED BY <2>2, Zenon DEF Abs!DiskNext
<1>4. CASE end_op(p)
  <2>1. outstanding > 0
    <3>1. InOp # {}
      BY <1>4, Zenon DEF end_op, InOp, OpPC
    <3>. QED BY <3>1, Counting DEF IInv, TypeOK
  <2>2. Abs!End
    BY <1>1, <1>4, <2>1, Zenon DEF end_op, Abs!End
  <2>. QED BY <2>2, Zenon DEF Abs!DiskNext
<1>. QED BY <1>2, <1>3, <1>4, Zenon

LEMMA CommitAbs ==
  ASSUME IInv, IInv', NEW p \in Procs,
         \/ commit(p) \/ write_log(p) \/ write_head(p) \/ install_trans(p)
         \/ erase(p) \/ end_commit(p)
  PROVE  [Abs!DiskNext]_(Abs!dvars)
<1>1. pc[p] \in CommitPC /\ boot = "up" /\ outstanding = 0
  <2>1. pc[p] \in CommitPC
    BY Zenon DEF commit, write_log, write_head, install_trans, erase, end_commit, CommitPC
  <2>. QED BY <2>1, Committer, SMTT(30)
<1>2. boot' = "up" /\ outstanding' = 0
  BY <1>1, Zenon DEF commit, write_log, write_head, install_trans, erase, end_commit
<1>3. CASE commit(p) \/ end_commit(p)
  <2>1. Durable' = Durable /\ Logged' = Logged
    BY <1>3, LoggedKept, Zenon DEF commit, end_commit, durableVars, bufVars
  <2>. QED BY <1>1, <1>2, <2>1, AbsStutter, Zenon
<1>4. CASE write_log(p)
  <2>1. head = <<>> /\ head' = <<>> /\ disk' = disk /\ lh' = lh
    <3>1. pc[p] = "write_log" /\ head' = head /\ disk' = disk /\ lh' = lh
      BY <1>4, Zenon DEF write_log
    <3>. QED BY <1>1, <3>1, PhaseAt, Zenon
  <2>2. Durable' = Durable
    <3>1. Elems(head) = {} /\ Elems(head)' = {}
      BY <2>1 DEF Elems
    <3>. QED BY <2>1, <3>1, Zenon DEF Durable
  <2>3. Elems(lh') = Elems(lh) /\ \A b \in Blocks : Bread(b)' = Bread(b)
    BY <1>4, <2>1, Zenon DEF write_log, Bread, IInv, TypeOK
  <2>4. Logged' = Logged
    BY <1>1, <1>2, <2>2, <2>3, Zenon DEF Logged
  <2>. QED BY <1>1, <1>2, <2>2, <2>4, AbsStutter, Zenon
<1>5. CASE write_head(p)
  <2>1. /\ pc[p] = "write_head" /\ UNCHANGED <<disk, logblk, lh, cache>> /\ head' = lh
    BY <1>5, Zenon DEF write_head, bufVars
  <2>2. Installing'
    BY <1>5, Zenon DEF write_head, Installing, IInv, TypeOK
  <2>3. Durable' = Logged'
    BY <1>2, <2>2, InstallingLoggedNext, Zenon
  <2>4. Logged' = Logged
    <3>1. Durable = disk
      <4>1. head = <<>>
        BY <1>1, <2>1, PhaseAt, Zenon
      <4>. QED BY <4>1, DurableNoHead, Zenon
    <3>2. \A b \in Blocks : b \notin Elems(lh) => Durable'[b] = disk[b]
      BY <2>1, Zenon DEF Durable
    <3>3. Elems(lh') = Elems(lh) /\ \A b \in Blocks : Bread(b)' = Bread(b)
      BY <2>1, Zenon DEF Bread
    <3>. QED BY <1>1, <1>2, <3>1, <3>2, <3>3, ZenonT(60) DEF Logged
  <2>5. Abs!CommitGroup
    BY <1>1, <1>2, <2>3, <2>4, Zenon DEF Abs!CommitGroup
  <2>. QED BY <2>5, Zenon DEF Abs!DiskNext
<1>6. CASE install_trans(p)
  <2>1. head = lh /\ tail \in 1..Len(head)
    <3>1. pc[p] = "install" /\ tail <= Len(lh)
      BY <1>6, SMTT(30) DEF install_trans, InstallOne
    <3>2. head = lh
      BY <1>1, <3>1, PhaseAt, SMTT(60)
    <3>3. tail \in Nat /\ tail >= 1 /\ Len(lh) \in Nat
      BY LogAssumption, SMTT(30) DEF LogAssumption, IInv, TypeOK
    <3>. QED BY <3>1, <3>2, <3>3, SMTT(60)
  <2>2. head' = head /\ logblk' = logblk /\ disk' = [disk EXCEPT ![head[tail]] = logblk[tail]]
    BY <1>6, <2>1, Zenon DEF install_trans, InstallOne
  <2>4. Durable' = Durable
    BY <2>1, <2>2, InstallDurable, Zenon
  <2>5. Installing /\ Installing'
    <3>1. pc \in [Procs -> PC] /\ pc[p] = "install" /\ \E x \in {"install", "erase"} : pc' = [pc EXCEPT ![p] = x]
      BY <1>6, Zenon DEF install_trans, IInv, TypeOK
    <3>. QED BY <3>1, Zenon DEF Installing
  <2>6. Logged = Durable /\ Logged' = Durable'
    BY <1>1, <1>2, <2>5, InstallingLogged, InstallingLoggedNext, Zenon
  <2>. QED BY <1>1, <1>2, <2>4, <2>6, AbsStutter, Zenon
<1>7. CASE erase(p)
  <2>1. disk' = disk /\ head' = <<>> /\ lh' = <<>> /\ pc[p] = "erase"
    BY <1>7, Zenon DEF erase
  <2>2. head = lh /\ \A i \in 1..Len(head) : disk[head[i]] = logblk[i]
    <3>1. /\ head = lh /\ tail = Len(lh) + 1
          /\ \A i \in 1..Len(lh) : i < tail => disk[lh[i]] = logblk[i]
      BY <1>1, <2>1, PhaseAt, ZenonT(60)
    <3>2. \A i \in 1..Len(lh) : i < Len(lh) + 1
      BY SMTT(30) DEF IInv, TypeOK
    <3>. QED BY <3>1, <3>2, Zenon
  <2>3. Durable = disk
    BY <2>2, DurableHome, Zenon
  <2>4. Durable' = disk'
    BY <2>1, DurableNoHeadNext, Zenon
  <2>5. Logged = Durable /\ Logged' = Durable'
    <3>1. Installing
      BY <2>1, Zenon DEF Installing
    <3>. QED BY <1>1, <2>1, <3>1, InstallingLogged, NothingLoggedNext, Zenon
  <2>. QED BY <1>1, <1>2, <2>1, <2>3, <2>4, <2>5, AbsStutter, Zenon
<1>. QED BY <1>3, <1>4, <1>5, <1>6, <1>7, SMTT(30)

LEMMA CacheAbs ==
  ASSUME IInv, NEW b \in Blocks, read_block(b) \/ recycle(b)
  PROVE  UNCHANGED Abs!dvars
<1>1. /\ Durable' = Durable /\ disk' = disk /\ boot = "up" /\ boot' = "up" /\ lh' = lh
      /\ outstanding' = outstanding
  BY DurableKept, Zenon DEF read_block, recycle, durableVars, logVars
<1>2. \A c \in Blocks : c \in Elems(lh) => Bread(c)' = Bread(c)
  <2>1. CASE read_block(b)
    BY <1>1, <2>1, Zenon DEF read_block, Bread, IInv, TypeOK
  <2>2. CASE recycle(b)
    <3>1. \A c \in Blocks : c # b => Bread(c)' = Bread(c)
      BY <1>1, <2>2, Zenon DEF recycle, Bread, IInv, TypeOK
    <3>2. ASSUME b \in Elems(lh) PROVE Bread(b)' = Bread(b)
      <4>1. ~Pending(b)
        <5>1. pins[b] = 0
          BY <2>2, Zenon DEF recycle
        <5>2. Pending(b) => pins[b] = 1
          BY <1>1, PinsAt, ZenonT(60)
        <5>. QED BY <5>1, <5>2
      <4>2. b \notin unlogged
        BY <1>1, <3>2, PinsAt, Zenon DEF Elems
      <4>3. cache[b] = disk[b]
        BY <1>1, <2>2, <4>1, <4>2, PinsAt, Zenon DEF recycle
      <4>4. cache'[b] = NoBuf
        BY <2>2, Zenon DEF recycle, IInv, TypeOK
      <4>. QED BY <1>1, <4>3, <4>4, Zenon DEF Bread
    <3>. QED BY <3>1, <3>2, Zenon
  <2>. QED BY <2>1, <2>2, Zenon
<1>3. Logged' = Logged
  BY <1>1, <1>2, ZenonT(60) DEF Logged
<1>. QED BY <1>1, <1>3, AbsStutter, Zenon

LEMMA NextAbs == IInv /\ IInv' /\ [Next]_vars => [Abs!DiskNext]_(Abs!dvars)
<1> SUFFICES ASSUME IInv, IInv', [Next]_vars PROVE [Abs!DiskNext]_(Abs!dvars)
  OBVIOUS
<1>1. CASE recover
  BY <1>1, RecoverAbs, Zenon
<1>2. ASSUME NEW p \in Procs,
             \/ begin_op_sleep(p) \/ begin_op(p)
             \/ \E b \in Blocks, v \in Vals : modify(p, b, v)
             \/ writei_fails(p) \/ log_write(p) \/ end_op(p)
      PROVE  [Abs!DiskNext]_(Abs!dvars)
  BY <1>2, OpAbs, ModifyAbs, LogWriteAbs, Zenon DEF Abs!DiskNext
<1>3. ASSUME NEW p \in Procs,
             \/ commit(p) \/ write_log(p) \/ write_head(p) \/ install_trans(p)
             \/ erase(p) \/ end_commit(p)
      PROVE  [Abs!DiskNext]_(Abs!dvars)
  BY <1>3, CommitAbs, Zenon
<1>4. ASSUME NEW b \in Blocks, read_block(b) \/ recycle(b)
      PROVE  [Abs!DiskNext]_(Abs!dvars)
  BY <1>4, CacheAbs, Zenon
<1>5. CASE Crash
  <2>1. Durable' = Durable /\ boot' # "up" /\ outstanding' = 0
    BY <1>5, DurableKept, Zenon DEF Crash, durableVars
  <2>2. Abs!Lose
    BY <2>1, NothingLoggedNext, Zenon DEF Abs!Lose
  <2>. QED BY <2>2, Zenon DEF Abs!DiskNext
<1>6. CASE UNCHANGED vars
  BY <1>6, LoggedKept, AbsStutter, Zenon DEF vars
<1>. QED
  BY <1>1, <1>2, <1>3, <1>4, <1>5, <1>6 DEF Next

\* log.c, with its recovery, implements the atomic disk, for every log size and
\* any number of processes, blocks and crashes.
THEOREM LogRefinesAtomicDisk == Spec => AtomicGroups
BY InitAbs, NextAbs, LogInvariant, PTL DEF Spec, AtomicGroups, Abs!DiskSpec
================================================================================
