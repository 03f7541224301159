---------------------------------- MODULE Uart ----------------------------------
(***************************************************************************)
(* Console output (os/kernel/uart.c): writers wait for tx_busy to clear,   *)
(* while the kernel's own printing and the echo of input put characters in *)
(* the same transmitter without setting it.  tx_lock is held from each     *)
(* test to the sleep or return, so a writer's turn is one step.            *)
(***************************************************************************)
EXTENDS Naturals

CONSTANTS
  Writers,
  MAXN,         \* bound: the most characters of a write
  FIFO          \* how many characters the transmitter holds

\* What the constants must satisfy.
Constants == MAXN \in Nat \ {0} /\ FIFO \in Nat \ {0}

VARIABLES
  held,         \* how many characters the transmitter holds
  thre,         \* its transmit interrupt is pending
  tx_busy,
  pc,           \* "user", "run", "asleep" on tx_chan
  left,         \* how many characters a write still has
  sync          \* the CPU is in uartputc_sync, interrupts off

vars == <<held, thre, tx_busy, pc, left, sync>>

TypeOK ==
  /\ held \in 0 .. FIFO
  /\ thre \in BOOLEAN /\ tx_busy \in BOOLEAN /\ sync \in BOOLEAN
  /\ pc \in [Writers -> {"user", "run", "asleep"}]
  /\ left \in [Writers -> 0 .. MAXN]

\* After uartinit.
Init ==
  /\ held = 0 /\ thre = FALSE /\ tx_busy = FALSE /\ sync = FALSE
  /\ pc = [p \in Writers |-> "user"]
  /\ left = [p \in Writers |-> 0]

\* Writing THR takes back the transmit interrupt; what does not fit is lost.
put == held' = (IF held < FIFO THEN held + 1 ELSE held) /\ thre' = FALSE

\* The device sends a character, and interrupts after the last.
device_send ==
  /\ held > 0
  /\ held' = held - 1
  /\ thre' = (thre \/ held' = 0)
  /\ UNCHANGED <<tx_busy, pc, left, sync>>

uartwrite(p, k) ==
  /\ pc[p] = "user" /\ ~sync
  /\ pc' = [pc EXCEPT ![p] = "run"]
  /\ left' = [left EXCEPT ![p] = k]
  /\ UNCHANGED <<held, thre, tx_busy, sync>>

\* Round the loop, as far as the next sleep or the return.
uartwrite_loop(p) ==
  /\ pc[p] = "run" /\ ~sync
  /\ \/ /\ tx_busy
        /\ pc' = [pc EXCEPT ![p] = "asleep"]
        /\ UNCHANGED <<held, thre, tx_busy, left>>
     \/ /\ ~tx_busy
        /\ put
        /\ tx_busy' = TRUE
        /\ left' = [left EXCEPT ![p] = @ - 1]
        /\ pc' = [pc EXCEPT ![p] = IF left[p] = 1 THEN "user" ELSE "asleep"]
  /\ UNCHANGED sync

\* Someone prints: interrupts off, then spin until the transmitter is empty.
uartputc_sync ==
  /\ ~sync
  /\ sync' = TRUE
  /\ UNCHANGED <<held, thre, tx_busy, pc, left>>

\* LSR_TX_IDLE
tx_idle == held = 0

uartputc_sync_put ==
  /\ sync /\ tx_idle
  /\ put
  /\ sync' = FALSE
  /\ UNCHANGED <<tx_busy, pc, left>>

\* wakeup(&tx_chan)
woken == [p \in Writers |-> IF pc[p] = "asleep" THEN "run" ELSE pc[p]]

\* Mutant: nobody is woken.
intr_wakes_none == pc

intr_wakes == woken

intr_clears == held = 0

\* Interrupts for output (thre) and for input arrive here; most characters of input
\* are echoed with uartputc_sync.
uartintr(rx, echo) ==
  /\ ~sync /\ (thre \/ rx)
  /\ thre' = FALSE
  /\ \/ /\ intr_clears
        /\ tx_busy' = FALSE
        /\ pc' = intr_wakes
     \/ ~intr_clears /\ UNCHANGED <<tx_busy, pc>>
  /\ sync' = (rx /\ echo)
  /\ UNCHANGED <<held, left>>

\* A killed writer is woken, finds its flag again and goes on: no test of killed.
kkill(p) ==
  /\ pc[p] = "asleep" /\ ~sync
  /\ pc' = [pc EXCEPT ![p] = "run"]
  /\ UNCHANGED <<held, thre, tx_busy, left, sync>>

Next ==
  \/ device_send
  \/ \E p \in Writers : uartwrite_loop(p) \/ kkill(p) \/ \E k \in 1 .. MAXN : uartwrite(p, k)
  \/ uartputc_sync \/ uartputc_sync_put
  \/ \E rx, echo \in BOOLEAN : uartintr(rx, echo)

Spec == Init /\ [][Next]_vars

--------------------------------------------------------------------------------
(* Properties. *)

\* Whoever waits for tx_busy waits for an interrupt that will come: characters are
\* still in the transmitter, or its interrupt is pending, even when the kernel's
\* printing took an interrupt back.
NoLostInterrupt ==
  /\ tx_busy => held > 0 \/ thre
  /\ \A p \in Writers : pc[p] = "asleep" => tx_busy
================================================================================
