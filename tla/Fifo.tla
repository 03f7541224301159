---------------------------------- MODULE Fifo -----------------------------------
(***************************************************************************)
(* What a pipe promises: a bounded queue of bytes between the processes    *)
(* that have its write end and those that have its read end.               *)
(***************************************************************************)
EXTENDS Naturals, Sequences

CONSTANTS
  Size,         \* how many bytes the queue can hold
  Bytes, Procs,
  MaxN          \* how many bytes a write may have

VARIABLES
  queue,
  inflight,     \* the bytes each process still has to write
  got           \* the bytes the last read of each process returned

vars == <<queue, inflight, got>>

Init ==
  /\ queue = <<>>
  /\ inflight = [p \in Procs |-> <<>>]
  /\ got = [p \in Procs |-> <<>>]

\* A write of the bytes s begins.
Start(p, s) ==
  /\ inflight[p] = <<>>
  /\ inflight' = [inflight EXCEPT ![p] = s]
  /\ UNCHANGED <<queue, got>>

\* A write fails; what it put into the queue stays there.
Abort(p) == inflight' = [inflight EXCEPT ![p] = <<>>] /\ UNCHANGED <<queue, got>>

\* The next k bytes of p's write enter the queue; the write may end there.
Put(p, k, ends) ==
  /\ Len(queue) + k <= Size
  /\ queue' = queue \o SubSeq(inflight[p], 1, k)
  /\ inflight' = [inflight EXCEPT ![p] = IF ends THEN <<>> ELSE SubSeq(@, k + 1, Len(@))]
  /\ UNCHANGED got

\* The first k bytes leave the queue, and are what p's read returns.
Get(p, k) ==
  /\ queue' = SubSeq(queue, k + 1, Len(queue))
  /\ got' = [got EXCEPT ![p] = SubSeq(queue, 1, k)]
  /\ UNCHANGED inflight

Next ==
  \E p \in Procs :
    \/ \E s \in UNION {[1 .. n -> Bytes] : n \in 0 .. MaxN} : Start(p, s)
    \/ Abort(p)
    \/ \E k \in 0 .. Len(inflight[p]), ends \in BOOLEAN : Put(p, k, ends)
    \/ \E k \in 0 .. Len(queue) : Get(p, k)

Spec == Init /\ [][Next]_vars
================================================================================
