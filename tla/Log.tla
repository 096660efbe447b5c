-------------------------------- MODULE Log ---------------------------------
(***************************************************************************)
(* The write-ahead log of kernel/log.c over the buffer cache of            *)
(* kernel/bio.c, with crashes.  One action per critical section of         *)
(* log.lock and per disk write: the places where other processes run or    *)
(* the machine can stop.                                                   *)
(*                                                                         *)
(* On disk: "home" (the blocks' home locations), "logd" (the log's data    *)
(* blocks log.start+1..) and "dhead" (the header block: the sequence       *)
(* lh.block[0..n-1]).  bwrite() waits for the device, so a block write is  *)
(* one atomic step.  In memory: the buffer cache and struct log.           *)
(*                                                                         *)
(* The log's own blocks are cached too, but they are written through and   *)
(* only the committer touches them, so they are read from logd.  Any       *)
(* unreferenced buffer may be recycled (Evict); how the cache picks one is *)
(* the subject of module Disk.                                             *)
(***************************************************************************)
EXTENDS Integers, Sequences, FiniteSets

CONSTANTS
  Procs,        \* processes making file-system calls
  Readers,      \* those that also read files, which takes no begin_op
  Allocators,   \* readers whose file has a block that is not allocated yet
  Blocks,       \* home block numbers
  Values,       \* block contents
  NoBuf,        \* "no buffer caches this block"
  NoProc,       \* "buffer not locked"
  MAXOPBLOCKS,  \* param.h: reserved per call by begin_op
  LOGSIZE,      \* param.h: length of lh.block[]
  NLOG,         \* sb.nlog: log blocks on disk, header included
  OPBLOCKS,     \* distinct blocks a call really modifies
  MaxCrashes    \* bound on the number of crashes

ASSUME LogAssumption ==
  /\ IsFiniteSet(Procs) /\ Allocators \subseteq Readers /\ Readers \subseteq Procs
  /\ Values # {} /\ NoBuf \notin Values
  /\ NoProc \notin Procs
  /\ MAXOPBLOCKS \in Nat \ {0}
  /\ LOGSIZE \in Nat
  /\ NLOG \in Nat \ {0}
  /\ OPBLOCKS \in Nat
  /\ MaxCrashes \in Nat
  /\ MAXOPBLOCKS <= LOGSIZE     \* an empty log admits a call

VARIABLES
  home, logd, dhead,    \* disk
  cache,                \* b->data of the buffer of each block, or NoBuf
  pin,                  \* references log_write holds on the buffer
  held,                 \* holder of the buffer's sleep-lock
  leaked,               \* history: blocks a failed write changed but did not log
  lh,                   \* log.lh: block[0..n-1]
  outstanding, committing,
  panicked,             \* the process that spins in a panic() of log.c
  pc,                   \* where each process is with respect to the log
  touched,              \* blocks the process's current call has modified
  stage, tail,          \* progress of commit() or recover_from_log()
  crashes

diskVars == <<home, logd, dhead>>
bufVars  == <<cache, pin, held, leaked>>
vars == <<home, logd, dhead, cache, pin, held, leaked, lh, outstanding,
          committing, panicked, pc, touched, stage, tail, crashes>>

\* Stages of recover_from_log(); no process runs FS calls before it is done.
Recovery == {"read_head", "recover", "recover_clear"}
\* Stages of commit(), run by the process at pc = "commit".
Commit   == {"write_log", "write_head", "install", "clear", "done"}

Running == stage \notin Recovery
Zeroes == CHOOSE v \in Values : TRUE
LogBlock == 1 .. NLOG - 1
InLog(b, h) == \E i \in 1 .. Len(h) : h[i] = b

\* What bread() finds: the buffer, or the home block if none caches it.
Cached(b) == IF cache[b] = NoBuf THEN home[b] ELSE cache[b]
HoldsNone(p) == \A b \in Blocks : held[b] # p
\* A process that panics inside the log spins with log.lock held.
LogLockFree == panicked = NoProc

Init ==
  /\ home \in [Blocks -> Values]
  /\ logd = [i \in LogBlock |-> Zeroes]        \* as mkfs leaves them
  /\ dhead = <<>>
  /\ cache = [b \in Blocks |-> NoBuf]
  /\ pin = [b \in Blocks |-> 0]
  /\ held = [b \in Blocks |-> NoProc]
  /\ leaked = {}
  /\ lh = <<>>
  /\ outstanding = 0
  /\ committing = FALSE
  /\ panicked = NoProc
  /\ pc = [p \in Procs |-> "idle"]
  /\ touched = [p \in Procs |-> {}]
  /\ stage = "read_head"
  /\ tail = 0
  /\ crashes = 0
-----------------------------------------------------------------------------
(* begin_op: one pass of its loop.  The call is admitted, or sleeps on     *)
(* &log; sleep() releases log.lock atomically with going to sleep.         *)
LogBusy_DuringCommit == Len(lh) + (outstanding + 1) * MAXOPBLOCKS > LOGSIZE

LogBusy == committing \/ Len(lh) + (outstanding + 1) * MAXOPBLOCKS > LOGSIZE

BeginOp(p) ==
  /\ Running /\ LogLockFree
  /\ pc[p] \in {"idle", "retry"} /\ HoldsNone(p)
  /\ ~LogBusy
  /\ outstanding' = outstanding + 1
  /\ pc' = [pc EXCEPT ![p] = "op"]
  /\ touched' = [touched EXCEPT ![p] = {}]
  /\ UNCHANGED <<diskVars, bufVars, lh, committing, panicked, stage, tail,
                 crashes>>

BeginOpSleep(p) ==
  /\ Running /\ LogLockFree
  /\ pc[p] \in {"idle", "retry"} /\ HoldsNone(p)
  /\ LogBusy
  /\ pc' = [pc EXCEPT ![p] = "sleep"]
  /\ UNCHANGED <<diskVars, bufVars, lh, outstanding, committing, panicked,
                 touched, stage, tail, crashes>>

WakeLog_None(f) == f

\* wakeup(&log): every sleeper goes round begin_op's loop again.
WakeLog(f) == [p \in Procs |-> IF f[p] = "sleep" THEN "retry" ELSE f[p]]
-----------------------------------------------------------------------------
(* The file-system calls, as clients of bread / log_write / brelse.        *)
(*                                                                         *)
(* fileread() takes no begin_op: a reader locks buffers outside any call.  *)
(* readi() looks blocks up with bmap(), which allocates one that is        *)
(* missing, so a reader of an empty file, or of a compressed one whose     *)
(* later blocks were never written, also changes and logs blocks there.    *)
(*                                                                         *)
(* The holder of b->lock is alone with b->data, so the change it makes and *)
(* the log_write() or brelse() that ends it are one step.                  *)
BRead(p, b) ==
  /\ Running /\ p # panicked
  /\ pc[p] = "op" \/ (pc[p] = "idle" /\ p \in Readers)
  /\ held[b] = NoProc
  /\ held' = [held EXCEPT ![b] = p]
  /\ cache' = [cache EXCEPT ![b] = Cached(b)]
  /\ UNCHANGED <<diskVars, pin, leaked, lh, outstanding, committing, panicked,
                 pc, touched, stage, tail, crashes>>

LogWritePanics ==
  Len(lh) >= LOGSIZE \/ Len(lh) >= NLOG - 1 \/ outstanding < 1

LogWrite_NoPin(p, b, v) ==
  /\ LogLockFree
  /\ pc[p] = "op" /\ held[b] = p
  /\ Cardinality(touched[p] \cup {b}) <= OPBLOCKS
  /\ ~LogWritePanics
  /\ cache' = [cache EXCEPT ![b] = v]
  /\ leaked' = leaked \ {b}
  /\ touched' = [touched EXCEPT ![p] = @ \cup {b}]
  /\ lh' = IF InLog(b, lh) THEN lh ELSE Append(lh, b)
  /\ UNCHANGED <<diskVars, pin, held, outstanding, committing, panicked, pc,
                 stage, tail, crashes>>

\* The holder sets b->data to v and calls log_write(b).  A call changes at most
\* OPBLOCKS blocks; log_write() asks that some call is in progress, not that its
\* caller is in one.
LogWrite(p, b, v) ==
  /\ LogLockFree
  /\ held[b] = p
  /\ \/ pc[p] = "op" /\ Cardinality(touched[p] \cup {b}) <= OPBLOCKS
     \/ pc[p] = "idle" /\ p \in Allocators
  /\ IF LogWritePanics
       THEN /\ panicked' = p                    \* for ever, with b->lock
            /\ UNCHANGED <<cache, leaked, touched, lh, pin>>
       ELSE /\ cache' = [cache EXCEPT ![b] = v]
            /\ leaked' = leaked \ {b}
            /\ touched' = IF pc[p] = "op" THEN [touched EXCEPT ![p] = @ \cup {b}]
                                          ELSE touched
            /\ IF InLog(b, lh)                  \* log absorption
                 THEN UNCHANGED <<lh, pin>>
                 ELSE /\ lh' = Append(lh, b)
                      /\ pin' = [pin EXCEPT ![b] = @ + 1]
            /\ UNCHANGED panicked
  /\ UNCHANGED <<diskVars, held, outstanding, committing, pc, stage, tail,
                 crashes>>

\* writei() whose copyin() fails after some pages: the buffer is changed, and
\* released without log_write().  If the transaction has the block already, the
\* change is committed with it; otherwise it is in the cache and nowhere else.
FailedWrite(p, b, v) ==
  /\ pc[p] = "op" /\ held[b] = p /\ p # panicked
  /\ cache' = [cache EXCEPT ![b] = v]
  /\ held' = [held EXCEPT ![b] = NoProc]
  /\ leaked' = IF InLog(b, lh) THEN leaked ELSE leaked \cup {b}
  /\ UNCHANGED <<diskVars, pin, lh, outstanding, committing, panicked, pc,
                 touched, stage, tail, crashes>>

BRelse(p, b) ==
  /\ held[b] = p /\ p # panicked /\ pc[p] \in {"op", "idle"}
  /\ held' = [held EXCEPT ![b] = NoProc]
  /\ UNCHANGED <<diskVars, cache, pin, leaked, lh, outstanding, committing,
                 panicked, pc, touched, stage, tail, crashes>>

\* bget() recycles a buffer with refcnt = 0 for another block.
Evict(b) ==
  /\ cache[b] # NoBuf /\ held[b] = NoProc /\ pin[b] = 0
  /\ cache' = [cache EXCEPT ![b] = NoBuf]
  /\ leaked' = leaked \ {b}
  /\ UNCHANGED <<diskVars, pin, held, lh, outstanding, committing, panicked,
                 pc, touched, stage, tail, crashes>>
-----------------------------------------------------------------------------
(* end_op and commit().                                                    *)
EndOp(p) ==
  /\ LogLockFree
  /\ pc[p] = "op" /\ HoldsNone(p)
  /\ outstanding' = outstanding - 1
  /\ touched' = [touched EXCEPT ![p] = {}]
  /\ IF committing
       THEN /\ panicked' = p                    \* panic("log.committing")
            /\ UNCHANGED <<committing, pc, stage, tail>>
       ELSE /\ UNCHANGED panicked
            /\ IF outstanding = 1
                 THEN /\ committing' = TRUE
                      /\ pc' = [pc EXCEPT ![p] = "commit"]
                      /\ stage' = IF lh = <<>> THEN "done" ELSE "write_log"
                      /\ tail' = 0
                 ELSE /\ pc' = WakeLog([pc EXCEPT ![p] = "idle"])
                      /\ UNCHANGED <<committing, stage, tail>>
  /\ UNCHANGED <<diskVars, bufVars, lh, crashes>>

WriteLog_NoRelse ==
  /\ stage = "write_log"
  /\ LET b == lh[tail + 1] IN
       /\ held[b] = NoProc
       /\ logd' = [logd EXCEPT ![tail + 1] = Cached(b)]
       /\ cache' = [cache EXCEPT ![b] = Cached(b)]
       /\ held' = [held EXCEPT ![b] = CHOOSE p \in Procs : pc[p] = "commit"]
  /\ tail' = tail + 1
  /\ stage' = IF tail + 1 = Len(lh) THEN "write_head" ELSE "write_log"
  /\ UNCHANGED <<home, dhead, pin, leaked, lh, outstanding, committing, panicked,
                 pc, touched, crashes>>

\* One round of write_log's loop: cache block lh[tail] to its log block.
WriteLog ==
  /\ stage = "write_log"
  /\ LET b == lh[tail + 1] IN
       /\ held[b] = NoProc
       /\ logd' = [logd EXCEPT ![tail + 1] = Cached(b)]
       /\ cache' = [cache EXCEPT ![b] = Cached(b)]
  /\ tail' = tail + 1
  /\ stage' = IF tail + 1 = Len(lh) THEN "write_head" ELSE "write_log"
  /\ UNCHANGED <<home, dhead, pin, held, leaked, lh, outstanding, committing,
                 panicked, pc, touched, crashes>>

\* write_head with n > 0: the true commit point.
WriteHead ==
  /\ stage = "write_head"
  /\ dhead' = lh
  /\ tail' = 0
  /\ stage' = "install"
  /\ UNCHANGED <<home, logd, bufVars, lh, outstanding, committing, panicked,
                 pc, touched, crashes>>

InstallOne_NeverUnpin(unpin) ==
  LET b == lh[tail + 1] IN
    /\ held[b] = NoProc
    /\ home' = [home EXCEPT ![b] = logd[tail + 1]]
    /\ cache' = [cache EXCEPT ![b] = logd[tail + 1]]
    /\ tail' = tail + 1
    /\ UNCHANGED pin

\* One round of install_trans's loop; "unpin" is FALSE when recovering.
InstallOne(unpin) ==
  LET b == lh[tail + 1] IN
    /\ held[b] = NoProc
    /\ home' = [home EXCEPT ![b] = logd[tail + 1]]
    /\ cache' = [cache EXCEPT ![b] = logd[tail + 1]]
    /\ pin' = IF unpin THEN [pin EXCEPT ![b] = @ - 1] ELSE pin
    /\ tail' = tail + 1

InstallTrans ==
  /\ stage = "install"
  /\ InstallOne(TRUE)
  /\ stage' = IF tail + 1 = Len(lh) THEN "clear" ELSE "install"
  /\ UNCHANGED <<logd, dhead, held, leaked, lh, outstanding, committing,
                 panicked, pc, touched, crashes>>

ClearLog_MemoryOnly ==
  /\ stage = "clear"
  /\ lh' = <<>>
  /\ stage' = "done"
  /\ UNCHANGED <<diskVars, bufVars, outstanding, committing, panicked, pc,
                 touched, tail, crashes>>

\* lh.n = 0; write_head(): erase the transaction from the log.
ClearLog ==
  /\ stage = "clear"
  /\ lh' = <<>>
  /\ dhead' = <<>>
  /\ stage' = "done"
  /\ UNCHANGED <<home, logd, bufVars, outstanding, committing, panicked, pc,
                 touched, tail, crashes>>

\* The end of end_op, after commit() returns.
FinishCommit(p) ==
  /\ LogLockFree
  /\ pc[p] = "commit" /\ stage = "done"
  /\ committing' = FALSE
  /\ pc' = WakeLog([pc EXCEPT ![p] = "idle"])
  /\ stage' = "none"
  /\ UNCHANGED <<diskVars, bufVars, lh, outstanding, panicked, touched, tail,
                 crashes>>
-----------------------------------------------------------------------------
(* Crash, and recover_from_log() at the next boot (called by initlog).     *)
Crash ==
  /\ crashes < MaxCrashes
  /\ crashes' = crashes + 1
  /\ cache' = [b \in Blocks |-> NoBuf]
  /\ pin' = [b \in Blocks |-> 0]
  /\ held' = [b \in Blocks |-> NoProc]
  /\ leaked' = {}
  /\ lh' = <<>>
  /\ outstanding' = 0
  /\ committing' = FALSE
  /\ panicked' = NoProc
  /\ pc' = [p \in Procs |-> "idle"]
  /\ touched' = [p \in Procs |-> {}]
  /\ stage' = "read_head"
  /\ tail' = 0
  /\ UNCHANGED diskVars

ReadHead_NoReplay ==
  /\ stage = "read_head"
  /\ lh' = dhead
  /\ tail' = 0
  /\ stage' = "recover_clear"
  /\ UNCHANGED <<diskVars, bufVars, outstanding, committing, panicked, pc,
                 touched, crashes>>

ReadHead ==
  /\ stage = "read_head"
  /\ lh' = dhead
  /\ tail' = 0
  /\ stage' = IF dhead = <<>> THEN "recover_clear" ELSE "recover"
  /\ UNCHANGED <<diskVars, bufVars, outstanding, committing, panicked, pc,
                 touched, crashes>>

RecoverInstall ==
  /\ stage = "recover"
  /\ InstallOne(FALSE)
  /\ stage' = IF tail + 1 = Len(lh) THEN "recover_clear" ELSE "recover"
  /\ UNCHANGED <<logd, dhead, held, leaked, lh, outstanding, committing,
                 panicked, pc, touched, crashes>>

RecoverClear ==
  /\ stage = "recover_clear"
  /\ lh' = <<>>
  /\ dhead' = <<>>
  /\ stage' = "none"
  /\ UNCHANGED <<home, logd, bufVars, outstanding, committing, panicked, pc,
                 touched, tail, crashes>>
-----------------------------------------------------------------------------
Next ==
  \/ \E p \in Procs : \/ BeginOp(p) \/ BeginOpSleep(p)
                      \/ EndOp(p) \/ FinishCommit(p)
  \/ \E p \in Procs, b \in Blocks :
       \/ BRead(p, b) \/ BRelse(p, b)
       \/ \E v \in Values : LogWrite(p, b, v) \/ FailedWrite(p, b, v)
  \/ \E b \in Blocks : Evict(b)
  \/ WriteLog \/ WriteHead \/ InstallTrans \/ ClearLog
  \/ Crash \/ ReadHead \/ RecoverInstall \/ RecoverClear

Spec == Init /\ [][Next]_vars

(* Every process in the kernel keeps running (the scheduler is round-robin *)
(* and the timer preempts it), the disk answers, and whoever locks a       *)
(* buffer releases it and reaches its end_op: the loops are bounded.  The  *)
(* committer may find a block locked again and again, by readers who are   *)
(* in no call; releasesleep() wakes it each time, and strong fairness      *)
(* stands for its getting the lock in the end.  Nothing is assumed of      *)
(* BRead, LogWrite, FailedWrite, Evict or Crash.                           *)
Fairness ==
  /\ \A p \in Procs : /\ SF_vars(EndOp(p))
                      /\ WF_vars(FinishCommit(p))
                      /\ WF_vars(pc[p] = "retry" /\ (BeginOp(p) \/ BeginOpSleep(p)))
  /\ \A p \in Procs, b \in Blocks : SF_vars(BRelse(p, b))
  /\ SF_vars(WriteLog) /\ WF_vars(WriteHead)
  /\ SF_vars(InstallTrans) /\ WF_vars(ClearLog)
  /\ WF_vars(ReadHead) /\ WF_vars(RecoverInstall) /\ WF_vars(RecoverClear)

FairSpec == Spec /\ Fairness
-----------------------------------------------------------------------------
TypeOK ==
  /\ home \in [Blocks -> Values]
  /\ logd \in [LogBlock -> Values]
  /\ dhead \in Seq(Blocks)
  /\ cache \in [Blocks -> Values \cup {NoBuf}]
  /\ pin \in [Blocks -> Nat]
  /\ held \in [Blocks -> Procs \cup {NoProc}]
  /\ leaked \in SUBSET Blocks
  /\ lh \in Seq(Blocks)
  /\ outstanding \in Nat
  /\ committing \in BOOLEAN
  /\ panicked \in Procs \cup {NoProc}
  /\ pc \in [Procs -> {"idle", "retry", "sleep", "op", "commit"}]
  /\ touched \in [Procs -> SUBSET Blocks]
  /\ stage \in Recovery \cup Commit \cup {"none"}
  /\ tail \in Nat
  /\ crashes \in Nat

(* What the machine would come back with if it stopped now: the home       *)
(* blocks, overlaid with the log blocks of a committed transaction.        *)
Overlay(h, data, base) ==
  [b \in Blocks |->
     IF InLog(b, h) THEN data[CHOOSE i \in 1 .. Len(h) : h[i] = b] ELSE base[b]]
Durable == Overlay(dhead, logd, home)

(* What bread() returns to the calls; after a crash, what it will return.  *)
(* A block that a failed write left changed counts with its contents on    *)
(* disk: the change was never part of a transaction.                       *)
Visible ==
  IF Running
    THEN [b \in Blocks |-> IF b \in leaked THEN home[b] ELSE Cached(b)]
    ELSE Durable

InOp == {p \in Procs : pc[p] = "op"}

AD == INSTANCE AtomicDisk WITH disk <- Durable, mem <- Visible, active <- InOp

(* The log implements the atomic disk: whatever the interleaving of calls, *)
(* readers that allocate, failed writes, evictions, panics and crashes,    *)
(* the durable contents only change by committing everything that was      *)
(* logged, at a moment when no call is in progress, and a crash loses      *)
(* exactly what was not committed (commit, write_head, install_trans,      *)
(* recover_from_log).                                                      *)
AtomicDiskSpec == AD!Spec

(* No process reaches a panic() of log.c: begin_op's reservation leaves    *)
(* room for every log_write of an admitted call, log_write is only called  *)
(* while a call is in progress, and end_op never meets a commit.  It holds *)
(* if calls stay below their reservation and no read allocates: with a     *)
(* call that uses all of it (run log_size) or a reader that allocates (run *)
(* log_read) the code does panic.                                          *)
NoPanic == panicked = NoProc

(* A call that has returned is durable once nothing is in progress: with   *)
(* no call outstanding and no commit running the log is empty, and what    *)
(* bread() finds is what a crash would leave, except where a failed write  *)
(* left a buffer changed (end_op commits before it returns).               *)
QuiescentDurable ==
  Running /\ outstanding = 0 /\ ~committing =>
    /\ lh = <<>> /\ dhead = <<>>
    /\ \A b \in Blocks : b \in leaked \/ Cached(b) = Durable[b]

(* The cache may never recycle a buffer whose contents exist nowhere on    *)
(* disk: such a buffer is pinned (bpin in log_write, bunpin only after     *)
(* install_trans has written it home).  The one exception is the buffer    *)
(* of a failed write, and it lasts only until the block is logged or the   *)
(* buffer recycled; such a block is in no transaction.                     *)
DirtyIsPinned ==
  \A b \in Blocks :
    /\ cache[b] \notin {NoBuf, home[b]} => pin[b] > 0 \/ b \in leaked
    /\ b \in leaked => ~InLog(b, lh) /\ pin[b] = 0

(* No reference leaks: bpin and bunpin balance, so with the log empty      *)
(* every buffer can be recycled again.                                     *)
PinsBalance == Running /\ lh = <<>> => \A b \in Blocks : pin[b] = 0

(* A process asleep in begin_op has someone to wake it: a commit that is   *)
(* running or a call that will end.  Otherwise the file system would hang. *)
SleeperHasWaker ==
  (\E p \in Procs : pc[p] = "sleep") => committing \/ outstanding > 0

(* A sleeper in begin_op is woken, however the other calls and the readers *)
(* run, unless the log has panicked.                                       *)
SleepersWake == \A p \in Procs : pc[p] = "sleep" ~> pc[p] # "sleep" \/ ~NoPanic

(* Recovery always finishes and a commit always finishes (or the machine   *)
(* crashes), also when readers hold the buffers that write_log() and       *)
(* install_trans() need; only a reader's panic can stop it.                *)
RecoveryFinishes == stage \in Recovery \cup Commit ~> stage = "none" \/ ~NoPanic
=============================================================================
