-------------------------------- MODULE Proc --------------------------------
(***************************************************************************)
(* The process table of kernel/proc.c: fork, exit, wait, kill, sleep,      *)
(* wakeup and the scheduler, on NCPU processors.                           *)
(*                                                                         *)
(* A step is one critical section of a p->lock or of wait_lock, or one     *)
(* round of a loop that takes p->lock: the points where another processor  *)
(* can get in between.  plock[s] is the slot whose thread keeps s's lock   *)
(* from one step to the next (0: free); a section that fits in one step    *)
(* only requires the lock to be free.  wait_lock is held across many steps *)
(* by exit() and wait().                                                   *)
(***************************************************************************)
EXTENDS Integers, FiniteSets

CONSTANTS
  NPROC,      \* slots of proc[]; slot 1 is initproc
  NCPU,       \* processors
  MaxPid,     \* bound: pids handed out by allocpid
  KillPids,   \* pids that kill() is called with
  FaultPids   \* pids of processes that may fault (setkilled in usertrap)

ASSUME ProcAssumption ==
  /\ NPROC \in Nat \ {0}
  /\ NCPU \in Nat \ {0}
  /\ MaxPid \in Nat \ {0}
  /\ KillPids \subseteq Nat /\ FaultPids \subseteq Nat

Slots == 1 .. NPROC
initproc == 1
None == 0     \* no slot: parent 0, lock free, no channel

VARIABLES
  state, pid, parent, chan, killed,   \* fields of struct proc
  plock,                              \* holder of p->lock between steps
  wait_lock,                          \* holder of wait_lock
  oncpu,                              \* slots whose thread is on a processor
  nextpid,
  pc,                                 \* where each slot's thread is
  np,                                 \* fork(): the child's slot
  pp, havekids, wp,                   \* loop variables of wait(), reparent()
                                      \* and wakeup(), in use by the holder of
                                      \* wait_lock; back to 1 once dead
  missed                              \* history: asleep, or about to be, in
                                      \* wait(), and killed since it looked

fields == <<state, pid, parent, chan, killed>>
locals == <<np, pp, havekids, wp>>
vars == <<state, pid, parent, chan, killed, plock, wait_lock, oncpu, nextpid,
          pc, np, pp, havekids, wp, missed>>

Free(s) == plock[s] = None
Goto(p, l) == pc' = [pc EXCEPT ![p] = l]
\* p's thread runs, at l.
At(p, l) == p \in oncpu /\ pc[p] = l

Init ==                               \* as userinit() leaves the table
  /\ state = [s \in Slots |-> IF s = initproc THEN "RUNNABLE" ELSE "UNUSED"]
  /\ pid = [s \in Slots |-> IF s = initproc THEN 1 ELSE 0]
  /\ parent = [s \in Slots |-> None]
  /\ chan = [s \in Slots |-> None]
  /\ killed = {}
  /\ plock = [s \in Slots |-> None]
  /\ wait_lock = None
  /\ oncpu = {}
  /\ nextpid = 2
  /\ pc = [s \in Slots |-> "user"]
  /\ np = [s \in Slots |-> None]
  /\ pp = 1 /\ havekids = FALSE /\ wp = 1
  /\ missed = {}
-----------------------------------------------------------------------------
(* scheduler(): a processor picks a RUNNABLE slot and switches to it.  The *)
(* thread resumes with p->lock held, in forkret, in yield or in sleep      *)
(* (which clears chan), and releases it.                                   *)
Schedule(s) ==
  /\ Cardinality(oncpu) < NCPU
  /\ state[s] = "RUNNABLE" /\ Free(s)
  /\ state' = [state EXCEPT ![s] = "RUNNING"]
  /\ chan' = [chan EXCEPT ![s] = None]
  /\ oncpu' = oncpu \cup {s}
  /\ missed' = missed \ {s}
  /\ UNCHANGED <<pid, parent, killed, plock, wait_lock, nextpid, pc, locals>>

(* The timer interrupt can take the processor away where the thread holds  *)
(* no spinlock and is not spinning in acquire() for one that another       *)
(* thread keeps: both happen with interrupts off (push_off).               *)
Interruptible(p) ==
  \/ pc[p] = "user"
  \/ pc[p] \in {"fork_parent", "wait_enter", "exit_enter"} /\ wait_lock = None
  \/ pc[p] = "fork_run" /\ Free(np[p])

\* yield(), from the timer interrupt.
Yield(p) ==
  /\ p \in oncpu /\ Free(p) /\ Interruptible(p)
  /\ state' = [state EXCEPT ![p] = "RUNNABLE"]
  /\ oncpu' = oncpu \ {p}
  /\ UNCHANGED <<pid, parent, chan, killed, plock, wait_lock, nextpid, pc,
                 locals, missed>>
-----------------------------------------------------------------------------
\* Reads and increments nextpid in one critical section of pid_lock, which is held
\* nowhere else; that no two forks draw one pid is taken from it, not shown.
allocpid ==
  /\ nextpid <= MaxPid
  /\ nextpid' = nextpid + 1

(* fork(): allocproc (found slot n) and copying the parent, under n's lock *)
Fork(p, n) ==
  /\ At(p, "user") /\ p \notin killed
  /\ state[n] = "UNUSED" /\ Free(n)
  /\ allocpid
  /\ pid' = [pid EXCEPT ![n] = nextpid]
  /\ state' = [state EXCEPT ![n] = "USED"]
  /\ pc' = [pc EXCEPT ![p] = "fork_parent", ![n] = "user"]
  /\ np' = [np EXCEPT ![p] = n]
  /\ UNCHANGED <<parent, chan, killed, plock, wait_lock, oncpu, pp, havekids,
                 wp, missed>>

\* allocproc or uvmcopy runs out of memory: freeproc, and only the pid is used up.
ForkFails(p) ==
  /\ At(p, "user") /\ p \notin killed
  /\ \E n \in Slots : /\ state[n] = "UNUSED" /\ Free(n)
                      /\ killed' = killed \ {n}
  /\ allocpid
  /\ UNCHANGED <<state, pid, parent, chan, plock, wait_lock, oncpu, pc, locals,
                 missed>>

ForkParent(p) ==
  /\ At(p, "fork_parent")
  /\ wait_lock = None
  /\ parent' = [parent EXCEPT ![np[p]] = p]
  /\ Goto(p, "fork_run")
  /\ UNCHANGED <<state, pid, chan, killed, plock, wait_lock, oncpu, nextpid,
                 locals, missed>>

ForkRun(p) ==
  /\ At(p, "fork_run")
  /\ Free(np[p])
  /\ state' = [state EXCEPT ![np[p]] = "RUNNABLE"]
  /\ np' = [np EXCEPT ![p] = None]
  /\ Goto(p, "user")
  /\ UNCHANGED <<pid, parent, chan, killed, plock, wait_lock, oncpu, nextpid,
                 pp, havekids, wp, missed>>
-----------------------------------------------------------------------------
(* wait().                                                                 *)
Wait(p) ==
  /\ At(p, "user") /\ p \notin killed
  /\ Goto(p, "wait_enter")
  /\ UNCHANGED <<fields, plock, wait_lock, oncpu, nextpid, locals, missed>>

\* acquire(&wait_lock): on entry, or at the end of sleep().
WaitEnter(p) ==
  /\ At(p, "wait_enter")
  /\ wait_lock = None
  /\ wait_lock' = p
  /\ Goto(p, "wait_scan")
  /\ UNCHANGED <<fields, plock, oncpu, nextpid, locals, missed>>

\* One round of the scan, when slot pp is not an exited child.
WaitScan(p) ==
  /\ At(p, "wait_scan")
  /\ \/ /\ parent[pp] # p
        /\ UNCHANGED havekids
     \/ /\ parent[pp] = p
        /\ Free(pp) /\ state[pp] # "ZOMBIE"
        /\ havekids' = TRUE
  /\ pp' = pp + 1
  /\ Goto(p, IF pp = NPROC THEN "wait_done" ELSE "wait_scan")
  /\ UNCHANGED <<fields, plock, wait_lock, oncpu, nextpid, np, wp, missed>>

\* wait() is done with pp and havekids.
EndScan == pp' = 1 /\ havekids' = FALSE

ExitedChild_StillInExit(p) == parent[pp] = p /\ state[pp] = "ZOMBIE"

\* The scan meets a child that has exited and left exit() and swtch().
ExitedChild(p) == parent[pp] = p /\ Free(pp) /\ state[pp] = "ZOMBIE"

\* freeproc() of the zombie at pp up to its last line: state = UNUSED.
WaitReap(p) ==
  /\ At(p, "wait_scan")
  /\ ExitedChild(p)
  /\ plock' = [plock EXCEPT ![pp] = p]
  /\ pid' = [pid EXCEPT ![pp] = 0]
  /\ parent' = [parent EXCEPT ![pp] = None]
  /\ chan' = [chan EXCEPT ![pp] = None]
  /\ killed' = killed \ {pp}
  /\ Goto(p, "wait_free")
  /\ UNCHANGED <<state, wait_lock, oncpu, nextpid, locals, missed>>

WaitFree(p) ==
  /\ At(p, "wait_free")
  /\ state' = [state EXCEPT ![pp] = "UNUSED"]
  /\ plock' = [plock EXCEPT ![pp] = None]
  /\ wait_lock' = None
  /\ pc' = [pc EXCEPT ![p] = "user", ![pp] = "user"]
  /\ EndScan
  /\ UNCHANGED <<pid, parent, chan, killed, oncpu, nextpid, np, wp, missed>>

\* copyout of xstate fails: -1, and the zombie stays.  init passes no address.
WaitFault(p) ==
  /\ At(p, "wait_scan") /\ p # initproc
  /\ ExitedChild(p)
  /\ wait_lock' = None
  /\ Goto(p, "user")
  /\ EndScan
  /\ UNCHANGED <<fields, plock, oncpu, nextpid, np, wp, missed>>

\* After the scan: return -1, or go on to sleep().
WaitDoneWith(p, return) ==
  /\ At(p, "wait_done") /\ Free(p)
  /\ IF ~havekids \/ p \in killed
       THEN Goto(p, "user") /\ wait_lock' = return
       ELSE Goto(p, "wait_sleep") /\ UNCHANGED wait_lock
  /\ EndScan
  /\ UNCHANGED <<fields, plock, oncpu, nextpid, np, wp, missed>>

WaitDone_NoRelease(p) == WaitDoneWith(p, wait_lock)

WaitDone(p) == WaitDoneWith(p, None)

WaitSleep_LockLate(p) ==
  /\ At(p, "wait_sleep") /\ Free(p)
  /\ Goto(p, "sleep_release")
  /\ UNCHANGED <<fields, plock, wait_lock, oncpu, nextpid, locals, missed>>

\* sleep(p, &wait_lock): acquire(&p->lock), and only then release(lk).
WaitSleep(p) ==
  /\ At(p, "wait_sleep") /\ Free(p)
  /\ plock' = [plock EXCEPT ![p] = p]
  /\ Goto(p, "sleep_release")
  /\ UNCHANGED <<fields, wait_lock, oncpu, nextpid, locals, missed>>

SleepRelease(p) ==
  /\ At(p, "sleep_release")
  /\ wait_lock' = None
  /\ Goto(p, "sleep_switch")
  /\ UNCHANGED <<fields, plock, oncpu, nextpid, locals, missed>>

\* SLEEPING, and sched(): the scheduler releases p->lock.
SleepSwitch(p) ==
  /\ At(p, "sleep_switch")
  /\ chan' = [chan EXCEPT ![p] = p]
  /\ state' = [state EXCEPT ![p] = "SLEEPING"]
  /\ plock' = [plock EXCEPT ![p] = None]
  /\ oncpu' = oncpu \ {p}
  /\ Goto(p, "wait_enter")
  /\ UNCHANGED <<pid, parent, killed, wait_lock, nextpid, locals, missed>>
-----------------------------------------------------------------------------
(* exit().                                                                 *)
Exit(p) ==
  /\ At(p, "user") /\ p # initproc
  /\ Goto(p, "exit_enter")
  /\ UNCHANGED <<fields, plock, wait_lock, oncpu, nextpid, locals, missed>>

ExitEnter(p) ==
  /\ At(p, "exit_enter")
  /\ wait_lock = None
  /\ wait_lock' = p
  /\ Goto(p, "exit_reparent")
  /\ UNCHANGED <<fields, plock, oncpu, nextpid, locals, missed>>

ExitReparent_Skip(p) ==
  /\ At(p, "exit_reparent")
  /\ Goto(p, "exit_wakeparent")
  /\ UNCHANGED <<fields, plock, wait_lock, oncpu, nextpid, locals, missed>>

\* One round of reparent(); a child found is followed by wakeup(initproc).
ExitReparent(p) ==
  /\ At(p, "exit_reparent")
  /\ IF pp > NPROC
       THEN /\ Goto(p, "exit_wakeparent")
            /\ pp' = 1
            /\ UNCHANGED parent
       ELSE IF parent[pp] = p
       THEN /\ parent' = [parent EXCEPT ![pp] = initproc]
            /\ Goto(p, "exit_wakeinit")
            /\ UNCHANGED pp
       ELSE /\ pp' = pp + 1
            /\ UNCHANGED <<parent, pc>>
  /\ UNCHANGED <<state, pid, chan, killed, plock, wait_lock, oncpu, nextpid,
                 np, havekids, wp, missed>>

WakeupOne_SkipsLast(p, c) ==
  /\ wp <= NPROC
  /\ wp # p => Free(wp)
  /\ state' = IF wp < NPROC /\ wp # p /\ state[wp] = "SLEEPING" /\ chan[wp] = c
                THEN [state EXCEPT ![wp] = "RUNNABLE"] ELSE state
  /\ wp' = wp + 1

\* One round of wakeup(c) by p's thread.
WakeupOne(p, c) ==
  /\ wp <= NPROC
  /\ wp # p => Free(wp)
  /\ state' = IF wp # p /\ state[wp] = "SLEEPING" /\ chan[wp] = c
                THEN [state EXCEPT ![wp] = "RUNNABLE"] ELSE state
  /\ wp' = wp + 1

\* wakeup() has been round the table.
WakeupEnd == wp > NPROC /\ wp' = 1 /\ UNCHANGED state

ExitWakeInit(p) ==
  /\ At(p, "exit_wakeinit")
  /\ \/ WakeupOne(p, initproc) /\ UNCHANGED <<pp, pc>>
     \/ WakeupEnd /\ pp' = pp + 1 /\ Goto(p, "exit_reparent")
  /\ UNCHANGED <<pid, parent, chan, killed, plock, wait_lock, oncpu, nextpid,
                 np, havekids, missed>>

ExitWakeParent_None(p) ==
  /\ At(p, "exit_wakeparent")
  /\ Goto(p, "exit_zombie")
  /\ UNCHANGED <<fields, plock, wait_lock, oncpu, nextpid, locals, missed>>

ExitWakeParent(p) ==
  /\ At(p, "exit_wakeparent")
  /\ \/ WakeupOne(p, parent[p]) /\ UNCHANGED pc
     \/ WakeupEnd /\ Goto(p, "exit_zombie")
  /\ UNCHANGED <<pid, parent, chan, killed, plock, wait_lock, oncpu, nextpid,
                 np, pp, havekids, missed>>

\* ZOMBIE, and wait_lock released, with p->lock held until the switch.
ExitZombie(p) ==
  /\ At(p, "exit_zombie") /\ Free(p)
  /\ state' = [state EXCEPT ![p] = "ZOMBIE"]
  /\ plock' = [plock EXCEPT ![p] = p]
  /\ wait_lock' = None
  /\ Goto(p, "exit_switch")
  /\ UNCHANGED <<pid, parent, chan, killed, oncpu, nextpid, locals, missed>>

\* sched(): the scheduler is back on its own stack and releases p->lock.
ExitSwitch(p) ==
  /\ At(p, "exit_switch")
  /\ plock' = [plock EXCEPT ![p] = None]
  /\ oncpu' = oncpu \ {p}
  /\ Goto(p, "dead")
  /\ UNCHANGED <<fields, wait_lock, nextpid, locals, missed>>
-----------------------------------------------------------------------------
(* kill(n), at the slot s its scan stops at; setkilled after a fault.      *)
KillWith(p, s, waked) ==
  /\ At(p, "user") /\ p \notin killed
  /\ Free(s) /\ pid[s] \in KillPids
  /\ killed' = killed \cup {s}
  /\ state' = IF state[s] \in waked THEN [state EXCEPT ![s] = "RUNNABLE"] ELSE state
  /\ missed' = IF pc[s] = "wait_sleep" THEN missed \cup {s} ELSE missed \ {s}
  /\ UNCHANGED <<pid, parent, chan, plock, wait_lock, oncpu, nextpid, pc, locals>>

Kill_AnyState(p, s) == KillWith(p, s, {state[s]})

Kill_NoWakeup(p, s) == KillWith(p, s, {})

Kill(p, s) == KillWith(p, s, {"SLEEPING"})

SetKilled(p) ==
  /\ At(p, "user") /\ Free(p) /\ pid[p] \in FaultPids
  /\ killed' = killed \cup {p}
  /\ UNCHANGED <<state, pid, parent, chan, plock, wait_lock, oncpu, nextpid,
                 pc, locals, missed>>
-----------------------------------------------------------------------------
\* What the kernel does on its own once a system call has started.
KernelStep(p) ==
  \/ ForkParent(p) \/ ForkRun(p)
  \/ WaitEnter(p) \/ WaitScan(p) \/ WaitReap(p) \/ WaitFree(p)
  \/ WaitDone(p) \/ WaitSleep(p) \/ SleepRelease(p) \/ SleepSwitch(p)
  \/ ExitEnter(p) \/ ExitReparent(p) \/ ExitWakeInit(p) \/ ExitWakeParent(p)
  \/ ExitZombie(p) \/ ExitSwitch(p)

Thread(p) ==
  \/ \E s \in Slots : Fork(p, s) \/ Kill(p, s)
  \/ ForkFails(p) \/ Wait(p) \/ WaitFault(p) \/ Exit(p)
  \/ SetKilled(p) \/ Yield(p)
  \/ KernelStep(p)

\* What a thread on a processor does without a choice of its program's.
MustStep(p) ==
  \/ KernelStep(p)
  \/ p = initproc /\ Wait(p)
  \/ p \in killed /\ Exit(p)

Next == \E s \in Slots : Thread(s) \/ Schedule(s)

Spec == Init /\ [][Next]_vars

(* The timer preempts a thread that computes, every processor's scheduler  *)
(* goes round the whole table, a thread that is on a processor executes    *)
(* its system call, a spinlock that is free again and again is acquired,   *)
(* init (user/init.c) calls wait() in a loop, and a killed process exits   *)
(* when usertrap() sees p->killed, at the latest on the next timer         *)
(* interrupt.  No other call of a process is assumed.                      *)
Fairness ==
  \A s \in Slots : /\ SF_vars(Schedule(s)) /\ WF_vars(Yield(s))
                   /\ SF_vars(MustStep(s))

FairSpec == Spec /\ Fairness
-----------------------------------------------------------------------------
TypeOK ==
  /\ state \in [Slots -> {"UNUSED", "USED", "SLEEPING", "RUNNABLE", "RUNNING",
                          "ZOMBIE"}]
  /\ pid \in [Slots -> Nat]
  /\ parent \in [Slots -> Slots \cup {None}]
  /\ chan \in [Slots -> Slots \cup {None}]
  /\ killed \subseteq Slots
  /\ plock \in [Slots -> Slots \cup {None}]
  /\ wait_lock \in Slots \cup {None}
  /\ oncpu \subseteq Slots
  /\ nextpid \in Nat
  /\ pc \in [Slots -> {"user", "fork_parent", "fork_run", "wait_enter",
               "wait_scan", "wait_free", "wait_done", "wait_sleep",
               "sleep_release", "sleep_switch",
               "exit_enter", "exit_reparent", "exit_wakeinit",
               "exit_wakeparent", "exit_zombie", "exit_switch", "dead"}]
  /\ np \in [Slots -> Slots \cup {None}]
  /\ pp \in 1 .. NPROC + 1
  /\ wp \in 1 .. NPROC + 1
  /\ havekids \in BOOLEAN
  /\ missed \subseteq Slots

(* A thread is on a processor exactly when its slot is RUNNING, but for    *)
(* the last steps of exit(); so a slot that wait() has freed, or that      *)
(* fork() reuses, has no thread left running on its kernel stack.          *)
RunningOnCpu ==
  \A s \in Slots :
    /\ state[s] = "RUNNING" => s \in oncpu
    /\ s \in oncpu => \/ state[s] = "RUNNING"
                      \/ state[s] = "ZOMBIE" /\ pc[s] = "exit_switch"

(* No wakeup is lost: outside wait_lock, a process asleep in wait() has no *)
(* child that already exited.  exit() wakes the parent before it becomes a *)
(* ZOMBIE, and reparent() wakes init after handing it a child, which may   *)
(* be a ZOMBIE already.                                                    *)
NoLostWakeup ==
  wait_lock = None =>
    \A p, c \in Slots :
      state[p] = "SLEEPING" /\ chan[p] = p /\ parent[c] = p => state[c] # "ZOMBIE"

(* Every process that runs or has exited has a parent that can still reap  *)
(* it: reparent() leaves no child behind when its parent exits.            *)
ParentAlive ==
  \A c \in Slots \ {initproc} :
    state[c] \in {"RUNNABLE", "RUNNING", "SLEEPING"}
      \/ (state[c] = "ZOMBIE" /\ Free(c))
    => /\ parent[c] \in Slots
       /\ state[parent[c]] \in {"RUNNABLE", "RUNNING", "SLEEPING"}

(* The wait_lock is never abandoned: whoever holds it is on a processor,   *)
(* inside exit() or wait(), since a spinlock holder may not be descheduled *)
(* (sched() panics with "sched locks").                                    *)
WaitLockHolderRuns == wait_lock # None => wait_lock \in oncpu

(* Only processes are killed: kill(n) finds the process with that pid, so  *)
(* a free slot is never marked and fork() never hands out a slot whose     *)
(* next owner would be killed before its first instruction.  It holds as   *)
(* long as 0 is not in KillPids; with it, kill() finds a free slot (run    *)
(* kill_zero).                                                             *)
FreeSlotsNotKilled == \A s \in Slots : state[s] = "UNUSED" => s \notin killed

(* A process keeps its pid, and only leaves the table through its parent's *)
(* wait(): the ZOMBIE's pid is cleared while the parent holds its lock.    *)
ReapedByParent ==
  [][\A s \in Slots :
       pid[s] # 0 /\ pid'[s] # pid[s] =>
         /\ pid'[s] = 0 /\ state[s] = "ZOMBIE" /\ s \notin oncpu
         /\ plock'[s] = parent[s]]_vars

(* init adopts and reaps every orphan: an exited process whose parent is   *)
(* init, by birth or through reparent(), eventually frees its slot.        *)
OrphansReaped ==
  \A s \in Slots \ {initproc} :
    state[s] = "ZOMBIE" /\ parent[s] = initproc ~> state[s] = "UNUSED"

(* wait() returns to a caller that has an exited child, asleep or not.     *)
WaitReturns ==
  \A p \in Slots :
    /\ pc[p] = "wait_enter"
    /\ \E c \in Slots : parent[c] = p /\ state[c] = "ZOMBIE"
    ~> pc[p] = "user"

(* A killed process exits, wherever kill() met it: running, asleep in      *)
(* wait() for a child that never exits, or forking.  The exception is a    *)
(* kill() between wait()'s test of p->killed and its sleep(), which are    *)
(* not one critical section of p->lock: kill() finds nobody asleep yet,    *)
(* and the process sleeps until a child exits or it is killed again        *)
(* (missed).                                                               *)
KilledExits ==
  \A p \in Slots \ {initproc} :
    p \in killed /\ p \notin missed ~> pc[p] = "dead" \/ p \notin killed
=============================================================================
