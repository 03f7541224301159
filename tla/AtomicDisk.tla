------------------------------ MODULE AtomicDisk ------------------------------
(***************************************************************************)
(* What the write-ahead log (os/kernel/log.c) promises to the file system: *)
(* a disk whose blocks are changed by groups of operations, each group     *)
(* becoming durable in one step, at a moment when no operation is running. *)
(***************************************************************************)
EXTENDS Naturals

CONSTANTS
  Blocks,   \* the home blocks of the file system
  Vals      \* the contents a block can have

VARIABLES
  durable,  \* what a reboot would find
  current,  \* what the operations have written to it
  active    \* number of operations between begin_op and end_op

dvars == <<durable, current, active>>

DiskInit ==
  /\ durable \in [Blocks -> Vals]
  /\ current = durable
  /\ active = 0

\* An operation joins the open group; a new group opens only when the
\* previous one is durable.
Begin ==
  /\ active > 0 \/ current = durable
  /\ active' = active + 1
  /\ UNCHANGED <<durable, current>>

Put(b, v) ==
  /\ active > 0
  /\ current' = [current EXCEPT ![b] = v]
  /\ UNCHANGED <<durable, active>>

End ==
  /\ active > 0
  /\ active' = active - 1
  /\ UNCHANGED <<durable, current>>

\* The whole group becomes durable at once.
CommitGroup ==
  /\ active = 0
  /\ durable' = current
  /\ UNCHANGED <<current, active>>

\* A crash loses exactly the groups that are not durable.
Lose ==
  /\ current' = durable
  /\ active' = 0
  /\ UNCHANGED durable

DiskNext ==
  \/ Begin
  \/ \E b \in Blocks, v \in Vals : Put(b, v)
  \/ End
  \/ CommitGroup
  \/ Lose

DiskSpec == DiskInit /\ [][DiskNext]_dvars
===============================================================================
