# A TLA+ model of xv6-riscv with process listing and file compression

The kernel is xv6 for RISC-V with added process-information calls (`ps`, `pinfo`,
`getmemusage`, `getidlepid`, `getactiveprocesses`) and a Huffman-compressing
read/write path. This directory models its two concurrent cores so far: the
write-ahead log and the process table.

## Inventory

| Part | Source | State | Here |
|---|---|---|---|
| log | kernel/log.c | `struct log`, the log on disk | modelled: `Log` |
| buffer cache, sleep-locks | bio.c, sleeplock.c | buffers, references, LRU list | partly: `Log` |
| process table, scheduler | proc.c | `proc[]`, `wait_lock`, `p->lock` | partly: `Proc` |
| spinlocks, traps | spinlock.c, trap.c | lock words, `noff` | partly: `Proc` |
| process information | sysproc.c, procinfo.h, user/ps.c | readers of `proc[]` | planned |
| inodes, directories, FS calls | fs.c, sysfile.c | inode table, disk blocks | planned |
| compression | fs.c `readi`/`writei`, compress.c | static tree, decompression cache | planned |
| files, pipes | file.c, pipe.c | file table, ring buffer | planned |
| disk driver | virtio_disk.c | descriptors, rings | planned |
| console, uart | console.c, uart.c | line buffer, transmit ring | planned |
| memory | kalloc.c, vm.c, exec.c | free list, page tables | planned in part |
| user programs | user/compress.c, user/decompress.c, umalloc.c | run-length coder, allocator | planned |
| boot, printf, strings, mkfs layout | main.c, start.c, printf.c, string.c, mkfs.c | | not modelled: sequential, or formatting |

`PROJECT.json` lists every part with its status, and the hazards with the line
where each one bites.

## Modules

`AtomicDisk` is what the log promises: calls change the visible contents block by
block, the durable contents are replaced as a whole while no call is in progress,
and a crash loses what was not committed.

`Log` is log.c over the part of bio.c it relies on. `home`, `logd` and `dhead` are
the disk; `lh`, `outstanding` and `committing` are `struct log`; `cache`, `pin` and
`held` are the buffers; `stage` and `tail` say how far commit() or recovery is. A
step is one critical section of `log.lock` or one disk write, and a crash can come
between any two. A block write is one atomic step, because bwrite() waits for the
device.

The clients of the log are abstract, but they do all that fs.c does with a buffer.
Inside a call they lock a block, change and log it, and release it; or, where
writei()'s copyin() fails (fs.c:648-651), they release a buffer that is changed but
not logged. `leaked` is a history variable: the blocks in that condition. Such a
change is seen by readers of the cache until the buffer is recycled, and the log
knows nothing of it. Outside any call, fileread() locks buffers too (`Readers`), and
where the file has a block that is not allocated, readi() allocates and logs it
(`Allocators`, fs.c:486 and 516). log_write() only asks that some call is in
progress: then the reader's blocks are committed with that call; otherwise it
panics. `panicked` is the process that spins in a panic of log.c with `log.lock`
held; the rest of the machine goes on until it needs that lock. bget()'s panic
"no buffers" is not in `Log`, where a buffer can always be found.

`Proc` is fork, exit, wait, kill, sleep, wakeup and the scheduler. A step is one
critical section of a `p->lock` or one round of a loop over the table. kill() may
stop at any slot whose pid matches; the table can change while the code scans it.
`pp`, `havekids` and `wp` are locals used only under `wait_lock`, so they are
shared, and reset when dead. sleep() is three steps (acquire p->lock, release lk,
switch), the order on which no wakeup being lost depends. yield() is one step, and
so is allocpid(), whose critical section of pid_lock nothing else shares. The files
a process closes in exit(), and init's panic there, are left out. `missed` is a
history variable for `KilledExits`: processes that kill() met between wait()'s test
of `killed` and its sleep.

## Runs

| Run | Bounds | Shows |
|---|---|---|
| `log` | 2 processes that call, read and allocate, 2 blocks, 2 values, 2 crashes | the disk is atomic; dirty buffers stay; pins balance |
| `log_live` | 3 processes, one a reader, 1 block, 1 crash | sleepers wake; commit and recovery end; no panic |
| `log_size` | LOGSIZE 3, MAXOPBLOCKS 1 | violation: see Findings |
| `log_read` | 2 processes, one a reader that allocates | violation: see Findings |
| `proc` | 4 slots, 2 CPUs, pids up to 4, kill(3) | table consistent; no lost wakeup |
| `proc_live` | 3 slots, 2 CPUs, pids up to 3, kill(2) and kill(3) | orphans reaped; wait returns; killed exits |
| `kill_zero` | 2 slots, 1 CPU | violation: see Findings |

Two blocks let a transaction be half written, two crashes let recovery crash. Four
slots are the fewest with init, a parent, its zombie child and one more process,
which the wakeup in reparent() needs. `MaxPid` and `MaxCrashes` only bound the runs.
In `proc_live` process 2 can have process 3 as its child, sleep in wait() for it, and be
killed there by it or by init. With three slots a process that reparents is always
init's child, so the wakeup in reparent() is the business of `proc`. In `log_live` the
reader can hold the buffer that write_log() or install_trans() needs. `log` goes on
after a panic, so it checks no deadlock: with log.lock lost, the file system stops.

Fairness. In `Log` a started call ends, a commit and recovery keep going, and
buffers are released: loops are bounded and the disk answers. Readers may lock the
block a commit needs again and again; that the committer gets it in the end, woken
by each releasesleep(), is strong fairness of `WriteLog` and `InstallTrans`. In `Proc` the scheduler visits every slot, the timer
preempts, a started system call proceeds, a spinlock that is free again and again
is acquired, init calls wait() in a loop (user/init.c), and a killed process exits
at its next trap. That init itself exits, and panics, when fork() or wait() fails is left
out. Strong fairness for spinlocks is an assumption: acquire() has no queue.

## Proofs

`LogProof` holds for all constants that satisfy `LogAssumption`. The safety properties
are not inductive: that a dirty buffer is pinned depends on which blocks the running
transaction still has to install. `IInv` adds that knowledge in parts: `HeadInv` (the
headers, per stage), `CountInv` (the counters agree with the processes), `BufInv` (a
buffer is pinned exactly while pending, and otherwise equals its home block, unless a
failed write left it changed), `DataInv` (what the log blocks hold, per stage). Each
part is preserved by every action, a reader's log_write() and the failed write
included. From `IInv` follow `TypeOK`, `DirtyIsPinned`, `PinsBalance`,
`SleeperHasWaker` and `QuiescentDurable`, and every step of `Log` is a step of
`AtomicDisk` or a stutter. `NoPanic` is proved under `Room`: calls modify fewer blocks
than begin_op reserves, no read allocates, and the log holds LOGSIZE blocks, header
included. `log_size` and `log_read` show that neither of the first two can be dropped.

`ProcSteps` and `ProcProof` hold for any number of slots, processors and pids. Their `IInv` ties each
thread's place to its state and its locks, and the loops of wait(), reparent() and
wakeup() to what they have already seen. From it follow `RunningOnCpu`,
`WaitLockHolderRuns`, `ParentAlive`, `NoLostWakeup` and `ReapedByParent`. Liveness is
only model-checked.

## Findings

* `log_size`: the log takes LOGSIZE - 1 data blocks, since mkfs counts the header
  in, while param.h and begin_op count LOGSIZE.
* `log_read`: fileread() calls readi() without begin_op(), and readi() of an empty
  file allocates a block: log_write() panics if no call is in progress.
* `kill_zero`: kill(0) marks a free slot, and its next process is born killed.

`KilledExits` leaves out one case, and it is real: a kill() that falls between wait()'s
test of `killed` and its sleep is noticed only when a child exits or kill() is called
again. `DirtyIsPinned` and `QuiescentDurable` leave out the buffer of a failed write,
which is real too.

## Plan

1. `ProcInfo` over `Proc`: rows torn by reading without `p->lock`.
2. `Compress` and `Huffman`: readi/writei, the decompression cache, the round trip.
3. `Bcache` with sleep-locks, and `VirtioDisk`, the layers under `Log`.
4. `Pipe` and `FileTable`; `Inode` and `Dir` over the log, with crashes.
5. `Console`, `Kalloc`, `Rle`, `Umalloc`.
6. Proofs about `Bcache` and `Pipe`.
