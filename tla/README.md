# YHsys in TLA+

YHsys is a small computer system in three parts: an xv6-derived kernel for one
RV32 core with its user programs (`os/`), a compiler for a subset of C (`compiler/`)
and a pipelined RV32 processor (`cpu/`). This directory models the kernel, the user
programs with an algorithm or a protocol of their own, and the compiler. TLC checks
the models on small instances; TLAPS proves what matters most about the kernel for
every instance.

`PROJECT.json` lists the components, the runs, the source lines of every
definition, the hazards the properties are aimed at, and the theorems.

## The system

**How the parts interact.** User programs enter the kernel by system calls, page
faults and interrupts. The kernel runs on one core. A spin lock is held with
interrupts off, so code between `acquire` and `release` (or `sleep`) runs without
interruption and is *one step* of a model. Between such sections anything may
happen: the timer may preempt, another process may run, an interrupt handler may
wake sleepers, the power may fail. These are the interleavings the models explore.
That a critical section is uninterrupted is itself a result, of `Spinlock`.

| Component | State | Operations | What is hard about it |
|---|---|---|---|
| Spin locks and traps (`spinlock.c`, `irqtrap.c`) | held locks, `noff`, `intena`, the interrupt enable | acquire, release, trap, return, `sched`, `sleep` | an interrupt or a switch with the wrong nesting |
| Log (`log.c`) | on-disk header and log blocks, in-memory header, reservations, pins | `begin_op`, `log_write`, `end_op`, `commit`, recovery | crashes between any two disk writes; admission by worst case; sleepers |
| Buffer cache (`bio.c`, `sleeplock.c`) | LRU list, reference counts, sleep-locks, pins | `bread`, `bwrite`, `brelse`, `bpin` | recycling between unlock and lock |
| Files' blocks (`fs.c`, `file.c`) | bitmap, block addresses, sizes | `balloc`, `bmap`, `readi`, `writei`, `itrunc` | failure in the middle of a write, transactions that fit the log |
| Inodes and names (`fs.c`, `sysfile.c`) | inodes on disk, inode table, directories | open, create, mkdir, mknod, link, unlink, chdir, close | inodes freed while they are reached, lock order, crashes |
| Open files (`file.c`, `sysfile.c`) | file table, descriptors, objects | open, dup, fork, close, pipe, sem_create | partial failure, closes that overlap |
| Processes (`taskmgr.c`, `init.c`) | slots with state, parent, channel, killed flag | fork, exit, wait, kill, pause, sleep, wakeup | exit of parent and child at once, lost wakeups, a full table |
| Scheduler (`taskmgr.c`, clock) | level, used ticks, stamp | `scheduler`, `yield`, tick, boost | starvation |
| Memory of processes (`addrspace.c`) | page tables, break, reference counts, contents | fork, page fault, `sbrk`, `copyout`, exec, exit | preemption inside a COW fault, failure halfway through a fork, unaligned breaks |
| Page tables and exec (`addrspace.c`, `loader_exec.c`) | page-table pages, regions | `walk`, `mappages`, `uvmalloc`, `as_copy`, exec | memory that runs out at any `kalloc` |
| Page allocator (`kalloc.c`) | free lists by order, state and count of each page | `kalloc`, `kfree`, split, merge, `kref` | long mixes of calls; edges of memory |
| Semaphores (`sem.c`) | value, destroyed | create, wait, post, destroy | kill or destroy while asleep |
| Pipes (`pipe.c`) | ring with free-running counters, open ends | read, write, close | counters that wrap, several sleepers |
| Disk driver (`virtio_disk.c`) | descriptors, rings, requests | `virtio_disk_rw`, `virtio_disk_intr` | completions in any order, descriptors running out |
| Console (`console.c`), UART (`uart.c`) | input ring, transmitter | read, interrupt, write, kernel printing | wrapping counters, lines and end of file, a shared transmitter |
| Shell (`sh.c`) | command tree, processes, pipes | parse, run | descriptors left open, waits |
| User heap, grep, library, `mkfs` | free list, buffer, image | | boundaries |
| Compiler (`ir/`, `backend/riscv/`) | the code, what the generator knows of registers | lowering, optimizer passes, code generation | facts about variables that are stale at a join or after a clobber |
| Frontend, CPU, boot | | | not modelled; see the end |

## Modules

One module per component, named in its header comment with the file it models.
Definitions have the names of the functions they model; several steps of one
function have its name and a suffix (`bget_hit`, `bget_recycle`). A pair such as
`woken` and `woken_none` is a fragment of the code and a plausible mistake in it: the
mistaken form is used nowhere, and each checked property fails when it takes the
place of the right one.

| Module | Models | Abstract specification |
|---|---|---|
| `Spinlock` | spin locks, interrupt enable, traps, `sched` and the switches | |
| `Log` | `log.c`, and of `bio.c` the pins and recycling it relies on | `AtomicDisk`: groups of operations become durable at once |
| `Bio` | the buffer cache and its sleep-locks | |
| `FileData` | blocks and contents of files | a flat file, kept beside it |
| `Inode` | inodes, directories, path walks and the calls that use them | |
| `Files` | file table and descriptors, with pipe ends and semaphores as objects | |
| `Proc` | processes in `taskmgr.c`, `sysproc.c`, `irqtrap.c`, the program `init` | |
| `Mlfq` | the scheduler's three levels, ticks and boosts | |
| `Vm` | contents and sharing of memory: `addrspace.c`, `growproc`, `sbrk`, exec's new image | `Memory`: fork copies and sbrk clears at once |
| `AddrSpace` | page tables as pages, regions, exec with its error paths | |
| `Kalloc` | the buddy allocator | |
| `Sem` | semaphores | |
| `Pipe` | pipes | `Fifo`: a bounded queue |
| `VirtioDisk` | the driver and the device | |
| `Console` | console input | `LineQueue`: entered lines and one being edited |
| `Uart` | the transmitter | |
| `Shell` | `sh.c`: the parser, and the processes of a command line | the meaning of a line, defined on its tokens |
| `Umalloc`, `Grep`, `Library`, `Mkfs` | the user heap, `grep`, string, division and printing functions, the image builder | reference definitions |
| `IR`, `Builder`, `Optimizer`, `Codegen`, `Compiler` | the compiler from parsed program to assembly | execution of the structured program (`RunSource`) |
| `LogProofs`, `DiskProofs`, `KernelProofs`, `FilesObjects`, `FilesProofs`, `SpinlockProofs`, `VmProofs`, `RingProofs` | theorems | |
| `MC…` | instances for TLC | |

**Composition.** `Log` contains the part of the buffer cache it depends on; `Bio`
models the cache in full with an abstract log that pins buffers. Both let a process
release a buffer that it has changed without logging it, as `writei` does when
`either_copyin` fails halfway: `Log` keeps such blocks in `unlogged`, `Bio` such buffers
in `dirty`. Their changes may be lost, and are the only ones that may. `Files` contains
the ends of pipes whose data `Pipe` models, `Vm` the reference counts that `Kalloc`
gives out, and `Inode` runs its calls inside the transactions that `Log` shows to be
atomic, which is why a crash in `Inode` falls between two transactions. `FileData`
counts the blocks that a transaction logs, which is what `Log` assumes to be fewer
than `begin_op` reserves. The modules of the compiler extend each other in the order
of its passes.

**Correspondence.** The variables are the fields of the C structures (`lh`,
`outstanding`, `committing` of `struct log`; `state`, `parent`, `chan`, `killed` of
`struct proc`; `itable` of `fs.c`, with one entry per inode number), plus `pc` for
the place of a process in a system call and what it has in local variables there.
Durable state (`disk`, `logblk`, `head`) survives `Crash`; the rest starts again.
In `Files` a close has two parts, as in `fileclose`: `closing` holds the files whose
counts a process has still to drop, and `ending` the copy `ff` of a file it has closed
last, whose pipe or semaphore it releases without `ftable.lock`.
In `Proc` any process may kill any other, init included; a fork may fail for want of a
slot or of memory. `kexit` of init panics (`halted`), which init meets when it is killed
or when its `fork` or `wait` returns -1.
In `Sem` a post makes every sleeper `woken`, and each tests the value again by itself.
In `Mkfs` a call of `iappend` is as many steps as its loop has turns.
Counters that wrap in the code (`nread`, `nwrite`, `avail->idx`, `cons.r`) wrap in
the models, at a small multiple of the size of the ring; the proofs are about every
multiple, 2^32 and 2^16 among them.

## Runs

Where components share no state, one run checks several of them: the variable
`part`, chosen initially, says which one a behaviour is about, and the others stand
still. Every run checks for deadlock except those of the compiler and the user
programs, which end. `Sem` and `Files` have a step `Done` for the state in which every
process has exited.

| Run | Checks | Bounds and why they are enough |
|---|---|---|
| `storage` (`MCStorage`) | `Log`: `AtomicGroups` (refinement of `AtomicDisk`), `RecyclableIsClean`, `NoLogPanic`, `NoLostSleeper`. `Bio`: `CacheCoherent`, `BuffersExact` | two processes and a log of two reservations, so that an operation waits for space or for a commit; four blocks; crashes at every step and during recovery. Apart from that, three processes on one block without crashes: one sleeps while two are in an operation, and the first of these to end has to wake it. Two processes, three buffers, four blocks and one pin, so that buffers are recycled under way |
| `proc` (`Proc`) | `FamilyTree`, `NoLostExit`, `InitHasShell`, `ZombieUntilReaped`, `KilledExits` | three slots: init, its shell and one more, whose parent may be either; the table is full when all live, and each of them may be killed, init too |
| `contents` (`MCContents`) | `Vm`: `RefsExact`, `MemoryIsPrivate` (refinement of `Memory`). `FileData`: `FileIsFlat`, `BlocksExact`, `TransactionFits`. `Kalloc`: `PagesExact` | three processes and four frames, so that a page is shared by three and memory runs out; pages of two bytes, so that a break can be unaligned. Two processes, two files of up to three blocks on four data blocks: the disk fills up in the middle of a write, and a part of a write can need all blocks that it reserves. Nine pages from 3 on with blocks of up to four, so that neither end of memory is aligned |
| `ipc` (`MCIpc`) | `Sem`: `ResourcesConserved`, `NoLostPost`. `Pipe`: `PipeIsFifo` (refinement of `Fifo`), `NoLostWakeup`. `Files`: `FilesExact` | three processes on one semaphore; a pipe of two bytes with different bytes, and one of one byte with two readers and two writers; two processes with two descriptors each, three files, two pages |
| `interrupt` (`MCInterrupt`) | `VirtioDisk`: `RequestsExact`. `Console`: `ConsoleIsLineQueue` (refinement of `LineQueue`). `Uart`: `NoLostInterrupt`. `Mlfq`: `NoStarvation`. `Spinlock`: `NoLockPanic`, `InterruptsMatched` | three requests on seven descriptors (two fit, the third waits with one left); an input ring of two characters; three writers; three processes on three levels with the slices of `param.h` and a boost every eight ticks; two processes and two locks |
| `syscalls` (`MCSyscalls`) | `Inode`: `InodeRefsExact`, `FsGoesOn`, `LinksEnough`. `AddrSpace`: `SpacesExact` | two processes, three inodes, two names; five sets of calls that meet on the same names, each repeated without end, and crashes. Two processes, tables of three entries, programs of two segments or none, breaks that move by 3 and -2 bytes over pages of two; every `kalloc` may fail |
| `userland` (`MCUserland`) | `Compiler`: `AssemblyAsWritten`. `Shell`: `ParsedAsWritten`, `PromptMeansDone`, `LineReturns`. `Umalloc`: `HeapExact`. `Mkfs`: `ImageConsistent`. `Library`: `LibraryExact`. `Grep`: `GrepExact` | 594 programs, each with and without `--O1`, words of 8 bits, three registers for three variables; all lines of up to five tokens parsed and nine carried out by up to seven processes; heaps of 14 units; up to three files of sizes around the limits of the block map; all arguments over 4-bit words or three characters; all patterns of up to three symbols |

Five runs show where the code does not do what the repository says of it. TLC finds
the violation; the finding in `PROJECT.json` quotes the line it contradicts.

| Run | What happens |
|---|---|
| `fs_orphan` | `iput` frees an inode on disk before it drops its reference. `ialloc` hands the inode out again in between; if the new use ends first, nobody frees it. |
| `fs_dotdot` | A removed current directory keeps a `..` entry without a link. When the parent is removed too, a path that starts with `..` locks a free inode and the kernel panics. |
| `file_sem` | `fileread` and `filewrite` panic on a file that is no pipe, device or inode; the descriptor of a semaphore passes the tests before. |
| `codegen_loop` | The code of a `while` loop never stores a variable that is not used after the loop; the example of `LANGUAGE.md` is such a program and does not end. |
| `opt_fold` | With `--O1` a call multiplied by 0 is dropped, and `%` of a negative number has another sign. |

**The compiler's programs.** `AssemblyAsWritten` compares three executions with that of
the program as it is written (`RunSource`): of the lowered code, of the code after each
pass of the optimizer, and of the assembly.
`MCPrograms` covers every statement and most operators
in programs of four to eight statements. These programs stay away from what the two
last runs show, and from a third weakness of the generator: an expression is
evaluated in `t0`, the first register that is also given to variables, and when the
variable in `t0` is used as an operand twice, negated or used as an index, the
generator goes on believing that `t0` holds it. So the run says that the remaining
bookkeeping (spills at labels, calls and system calls, clobbers, reloads,
propagation, dead stores, jumps) is right for these programs, not that the compiler
is. For every program of the three runs the code before and after optimization and
the assembly that the model produces were compared with the output of the compiler
itself, and are the same.

**Fairness.** `proc`: the timer and the disk interrupt again and again (weak
fairness of `devintr`), the timer preempts (`yield`), a process that can run gets the
core again and again (strong fairness of `scheduler(p)`, which `Mlfq` justifies as
long as no process forks for ever), and a process that has the core often enough
makes its next step in the kernel; of user programs only `init` is assumed to go on.
`interrupt`: the clock ticks and the scheduler loops; nothing is assumed of what
processes do. `userland`: some process of the shell goes on as long as one can (weak
fairness of `Work`), which any scheduler gives. The other runs check safety only;
their `NoLost…` invariants say that a sleeper always has a wakeup coming, which is the
safety part of not sleeping for ever.

**Symmetry** is used where model values are interchangeable (processes, blocks,
frames, files) and only in runs without liveness properties.

## Proofs

Each theorem holds for every value of the constants that satisfies the assumptions
its module names (`LogAssumption`, `ProcAssumption`, or the operator `Constants` of a
module); TLC evaluates these assumptions for the values of the runs. `Constants`
bounds nothing: it asks that sizes are positive, that the marks for "none" are no
members of the sets they are used with, and that the modulus of a wrapping counter is
a multiple of the size of its ring, as 2^32 is of 512 and of 128.

None of the properties is inductive by itself. Each proof module defines an invariant
that is (`IInv`, `BioInv`, `KInv`, `Inv`, `SemInv`, `FilesInv`, `ConsInv`, `UartInv`),
shows that every action keeps it, one lemma per action or group of actions, and derives
the properties from it.

**`LogProofs`** (any processes, blocks, contents, log size and reservation that fits).
What a crash leaves behind depends on how far the commit is, so `PhaseInv` says for
each phase of `commit()` what has been achieved: which log blocks equal their buffers,
when the header on disk equals the one in memory, which blocks are home. `PinInv` ties
pins to the blocks that are logged and not yet home, and says that any other buffer
nobody holds is clean or `unlogged`; `CountInv` ties `outstanding` to
the processes inside operations, `CommitInv` says that there is one committer and it
is alone, `HeldInv` that a modified buffer has one holder, `BootInv` what recovery has
done. From it follow `LogTypeOK`, `LogRecyclableIsClean` and `LogPinsBalance`, and
`LogRefinesAtomicDisk`: the mapping (`Durable`, `Logged`) takes the durable contents to
be what recovery would make of the disk, and the current ones to be those of the logged
blocks in the cache and of the others on disk. Every step of `commit()` is then a stutter
but the write of the header, which is the commit of the group. `LogNoLostSleeper` adds
that a sleeper has a reason to wait and somebody to wake it: an operation or a commit
in progress, whose end calls `wakeup`. `LogNoPanic` rests on a count: `Room` is the set of the reserved and unused blocks of
the operations in progress, and `Len(lh)` and its size together stay within
`LOGBLOCKS`. It assumes `OpBlocks < MAXOPBLOCKS`: `log_write` compares `lh.n` with
`LOGBLOCKS` before it looks for an absorbed block, so an operation that has used its
whole reservation meets the panic when it writes one of its blocks again. The
operations of `fs.c` need at most seven of the ten blocks (`TransactionFits`).

**`DiskProofs`**. For `virtio_disk.c` with any number of processes and descriptors:
`Rings` says that the entries of each ring are distinct and leave a slot free, `Placed`
that a transfer in progress is in the avail ring, with the device or in the used ring,
and in one of them, `Heads` and `Chains` that the descriptors in use are the chains of
the transfers. That a ring has room is a counting argument: every entry is the first of
three descriptors of its own. Theorems: `VirtioRequestsExact`, `VirtioEntryHasBuffer`,
`VirtioNoLostCompletion`.

For `bio.c` with any processes, buffers and blocks: `Places` says which process owns
which lock and what it knows of the buffer's data, `Unique` that a block has one
buffer, `Coherent` that the disk is old only while a buffer that is pinned or `dirty`
has the new contents, `Exact` that the reference count is the number of users and pins.
Theorems: `BioCoherent`, `BioRefsExact`, `BioNoLostRelease`, and `BioNoPanic`: `bget`
finds a buffer whenever the pins and the processes with a buffer are fewer than the
buffers. The code has no bound that gives this for any number of readers.

**`KernelProofs`**. Processes (a process table of any size): the invariant says where a
process can be in each of its states and on what it can sleep there (`PlaceInv`), that
a child under construction belongs to one `kfork` (`ForkInv`), that parents can still
wait (`ParentInv`), and that init never becomes a zombie and has a shell whenever it
waits (`InitInv`). `PanicInv` adds that an init in `kexit` was killed or has no shell.
Theorems: `ProcFamilyTree`, `ProcNoLostExit`, `ProcInitHasShell`, and the
action property `ProcZombieUntilReaped`.

Pages (any memory, orders and end of the kernel): `Disjoint`, `HandApart`,
`Accounted` and `Marked` place every page in one free block, in the block in hand, or in
use; `AllAligned` and `NoBuddies` carry the buddy arithmetic: a block and its buddy are
the halves of one aligned block, and two aligned blocks are nested or apart. Theorems:
`KallocPagesExact`, `KallocMergedFully`.

The serial line (any number of writers and any depth of the transmitter): a write that
is not over has characters left, which makes `UartNoLostInterrupt` inductive.

**`SpinlockProofs`** (any processes and locks). `PlaceInv` says for each place of the
code which locks are held there, `HeldInv` and `IntrInv` tie `noff` to their number,
`intena` to the interrupt enable before the outermost `acquire`, and the interrupt
enable to `noff`; `TrapInv` says what a trap will return to. Theorems:
`LocksNeverPanic` (the panics of `acquire`, `release`, `pop_off` and `sched`) and
`InterruptsAreMatched`.

**`VmProofs`** (any processes, frames and pages, any page size). `Counted` equates the
count of a frame with the set of its references, PTEs and COW faults under way;
`WritableSole` says that a frame that can be written is mapped once, `CopySole` and
`CopyEqual` what a fault that was preempted may rely on, `HeapBelow` that nothing is
mapped past the break. `VmRefsExact` follows. `VmRefinesMemory` shows that the contents
that a process sees (`Contents`) change only by its own steps: the lemmas on remapping
say that sharing a frame, or giving a process a copy of it, changes no contents, so
that a fork is a copy of all pages in one step and a fault is a stutter.

**`FilesObjects`** and **`FilesProofs`** (any processes, descriptors, files and pages).
A file is referred to by descriptors, by a call that has just allocated it, and by
closes under way. `Counted` equates `ref` with the number of these three; `Places` says
what a call has in hand at each of its places, and `OneHand` that nobody else has it
(`FilesProofs`). For the objects (`FilesObjects`), `Claims` says that every typed file,
and every object whose last file was closed and that `fileclose` has still to release,
has its page, and that no two of them have the same end of a pipe or the same semaphore.
Without the second half a `pipeclose` could close an end that another file still has.
`EndsHeld` is the converse for pipes, `NewSems` says that the page that `sem_create` has
made belongs to it alone, and `Untyped` that a file has no type before its object is
there and after its last close: `fileclose` of a file that was never completed must
release nothing. Theorem: `FilesExactlyCounted`, the three properties that make up
`FilesExact`. The two halves meet in `Held`: what `FilesObjects` needs of the counts is
that a file in the hands of a call is nobody else's and is not free.

`FilesProofs` also has the semaphores (any number of processes, any total): the
invariant adds that the set of resources held is finite, so that it can be counted.
Theorem: `SemConserves`.

**`RingProofs`**. First rings: a buffer of `PIPESIZE` slots with an index that wraps at
`UINT` is a sequence (`Ring`), a write at its end appends and a move of its start drops.
These lemmas rest on a few facts about remainders, which are stated for a named operator
`Mod` since the provers do not reason about `%` of variables. With them

- `PipeRefinesFifo`, `PipeNoLostWakeup`: any number of readers and writers, any ring;
- `ConsoleRefinesLines`, `ConsoleNoLostLine`: the ring of `console.c` is two rings that
  meet at `w`, the entered characters and the line being edited, and what is in both
  together fits (`ConsInv`). Typing appends to the second or joins the two, erasing
  shortens the second, reading drops from the first; an end-of-file that is put back
  is not taken.

**Only model-checked.**

- Liveness (`KilledExits`, `NoStarvation`, `LineReturns`): the prover does not handle
  fairness and `ENABLED`.
- `FileIsFlat`, `BlocksExact`, `TransactionFits`, `SpacesExact` and the properties of
  the compiler, the shell's parser, `Umalloc`, `Mkfs`, `Library` and `Grep`: the models
  compute with recursion over files, tables, lists or code. What a recursive definition
  returns for every input needs induction over data, which this prover cannot apply,
  and `RECURSIVE` operators cannot be used where something is to be proved.
- `InodeRefsExact`, `FsGoesOn`, `LinksEnough`: a path walk is a sequence of steps over
  names given by the call; the invariant for arbitrary programs has not been found. Two
  of the five findings are about this component, so the invariant would have to
  exclude them.
- `PromptMeansDone`: no attempt has been made.

## What is not modelled

- The processor (`cpu/rtl/`): a synchronous circuit, for which a hardware model checker
  or simulation is the tool.
- Saving and restoring registers in traps, machine-mode setup, the kernel's own page
  table, which is built once; `as_remove_region`, `as_print` and `freewalk`, which
  nothing calls.
- The compiler's lexer, parser and analyser, which only process text, and the frames
  and parameters of user functions (a call is an event with a result).
- In the shell, the characters of a token, `nulterminate`, and a `malloc` that fails in
  the constructors, which the code does not test for.
- In `umalloc.c`, sizes near 2^32, whose rounding overflows; in `mkfs.c`, names, byte
  order and `FSSIZE`, which the program does not test for.
- User programs that only make system calls; build scripts.
- Weak memory and several harts: the system has one.

Known limits of what is modelled: `NoStarvation` is checked without fork, since a child
goes before the others and a chain of forking processes can hold them up. The wrap of
`mlfq_seq` is not modelled. `NoLogPanic` and `NoBgetPanic` have the assumptions named
above.

## Observations

What was met while modelling, and is no disagreement with anything the repository says:

- `acquire` panics on a lock that is held; on one core with interrupts off it could
  only spin for ever.
- `kexec` sets `trapframe->a1` and the name of the process before the last checks that
  can fail, so a failed exec leaves them changed.
- A comment in `walk` speaks of indices of 12 and 8 bits; `PX` uses 10 and 10.
- `sem_create` without a free descriptor loses the page of the semaphore.
- A kill of pid 0 matches every free slot and leaves its flag for the next process there.
- For a repeated `>` in a command the shell uses the first file.
- `mkfs` adds a block without an address to the size of a root directory whose entries
  fill their blocks exactly.
