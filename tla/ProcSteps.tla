----------------------------- MODULE ProcSteps -----------------------------
(***************************************************************************)
(* The inductive invariant IInv of the process table, for any number of    *)
(* slots, processors and pids, and that the steps of the scheduler, of     *)
(* fork(), wait() and sleep() keep it.                                     *)
(*                                                                         *)
(* What a slot's thread may do next decides which locks it holds, so IInv  *)
(* is stated by pc: ThreadInv ties pc to the state and to the processors,  *)
(* LockInv to p->lock and wait_lock, and ForkInv, LoopInv, ParentInv and   *)
(* WakeInv say how far the loops of fork(), wait(), reparent() and         *)
(* wakeup() have come under those locks.                                   *)
(***************************************************************************)
EXTENDS Proc, TLAPS

Alive == {"RUNNABLE", "RUNNING", "SLEEPING"}

\* Where a thread holds wait_lock, and where it is in fork() or exit().
Holding == {"wait_scan", "wait_free", "wait_done", "wait_sleep", "sleep_release",
            "exit_reparent", "exit_wakeinit", "exit_wakeparent", "exit_zombie"}
Forking == {"fork_parent", "fork_run"}
\* Where a thread holds its own p->lock from one step to the next.
Switching == {"sleep_release", "sleep_switch", "exit_switch"}
Exiting == {"exit_enter", "exit_reparent", "exit_wakeinit", "exit_wakeparent",
            "exit_zombie", "exit_switch", "dead"}

\* A thread's place and the state of its slot agree, and init never exits.
ThreadInv ==
  /\ \A s \in Slots :
       /\ s \in oncpu <=> state[s] = "RUNNING" \/ pc[s] = "exit_switch"
       /\ state[s] = "ZOMBIE" <=> pc[s] \in {"exit_switch", "dead"}
       /\ state[s] \in {"UNUSED", "USED"} => pc[s] = "user"
       /\ state[s] = "SLEEPING" => pc[s] = "wait_enter" /\ chan[s] = s
       /\ pc[s] = "sleep_switch" => state[s] = "RUNNING"
       /\ state[s] = "RUNNABLE" => pc[s] \notin Holding
  /\ state[initproc] \in Alive /\ pc[initproc] \notin Exiting

\* A child being made is its parent's alone.
ForkInv ==
  /\ \A p \in Slots : pc[p] \in Forking =>
       /\ np[p] \in Slots /\ state[np[p]] = "USED"
       /\ pc[p] = "fork_run" => parent[np[p]] = p
  /\ \A p, q \in Slots : pc[p] \in Forking /\ pc[q] \in Forking /\ np[p] = np[q] => p = q

\* Who holds wait_lock, and who keeps a p->lock from one step to the next.
LockInv ==
  /\ \A s \in Slots : pc[s] \in Holding <=> wait_lock = s
  /\ \A s \in Slots : pc[s] \in Switching => plock[s] = s
  /\ \A s \in Slots : plock[s] # None =>
       \/ plock[s] = s /\ pc[s] \in Switching
       \/ plock[s] = wait_lock /\ pc[wait_lock] = "wait_free" /\ pp = s
  /\ \A p \in Slots : pc[p] = "wait_free" =>
       /\ pp \in Slots /\ plock[pp] = p
       /\ pc[pp] = "dead" /\ parent[pp] = None /\ pid[pp] = 0

\* The loop variables start at 1 and are in use at few places.
LoopInv ==
  /\ wait_lock = None => pp = 1 /\ wp = 1
  /\ \A p \in Slots :
       /\ pc[p] \in {"wait_scan", "wait_free", "exit_wakeinit"} => pp \in Slots
       /\ pc[p] \in {"wait_sleep", "sleep_release", "exit_wakeparent", "exit_zombie"} => pp = 1
       /\ pc[p] \in Holding \ {"exit_wakeinit", "exit_wakeparent"} => wp = 1

\* Children have a parent that is alive; an exiting process has given away
\* those that reparent() has passed.
ParentInv ==
  /\ \A c \in Slots \ {initproc} : state[c] \in Alive \cup {"ZOMBIE"} =>
       \/ parent[c] \in Slots /\ state[parent[c]] \in Alive
       \/ \E p \in Slots : pc[p] = "wait_free" /\ pp = c
  /\ \A p, c \in Slots : parent[c] = p =>
       /\ pc[p] = "exit_reparent" => c >= pp
       /\ pc[p] = "exit_wakeinit" => c > pp
       /\ pc[p] \notin {"exit_wakeparent", "exit_zombie"}

\* Who sleeps, or has given up wait_lock to do so.
Asleep(p) == state[p] = "SLEEPING" \/ pc[p] = "sleep_switch"

\* A sleeper with an exited child is init, which reparent() is about to wake.
WakeInv ==
  /\ \A p, c \in Slots : Asleep(p) /\ parent[c] = p /\ state[c] = "ZOMBIE" =>
       /\ p = initproc /\ wp = 1
       /\ wait_lock # None /\ pc[wait_lock] = "exit_wakeinit"
  /\ \A p, c \in Slots : parent[c] = p /\ state[c] = "ZOMBIE" =>
       /\ pc[p] = "wait_scan" => c >= pp
       /\ pc[p] \notin {"wait_done", "wait_sleep", "sleep_release"}
  /\ \A p, q \in Slots : parent[p] = q /\ Asleep(q) =>
       /\ pc[p] = "exit_wakeparent" => q >= wp
       /\ pc[p] # "exit_zombie"

\* A free slot has no pid.
PidInv == \A s \in Slots : state[s] = "UNUSED" => pid[s] = 0

IInv == TypeOK /\ ThreadInv /\ ForkInv /\ LockInv /\ LoopInv /\ ParentInv /\ WakeInv /\ PidInv
-----------------------------------------------------------------------------
\* scheduler() gives a RUNNABLE slot a processor.
LEMMA ScheduleKeeps ==
  ASSUME NEW p \in Slots, IInv, Schedule(p)
  PROVE  IInv'
<1> USE ProcAssumption DEF Slots, None, initproc, IInv, Schedule, Free, locals
<1>1. TypeOK'
  BY SMTT(30) DEF TypeOK
<1>2. ThreadInv'
  BY DEF ThreadInv, TypeOK, Alive
<1>3. ForkInv'
  BY DEF ForkInv
<1>4. LockInv'
  BY DEF LockInv
<1>5. LoopInv'
  BY DEF LoopInv
<1>6. ParentInv'
  BY
  DEF ParentInv, TypeOK, ThreadInv, ForkInv, LockInv, Switching, LoopInv, Holding, Forking, Exiting,
     Alive
<1>7. WakeInv'
  BY DEF WakeInv, Asleep
<1>8. PidInv'
  BY DEF PidInv
<1> QED
  BY <1>1, <1>2, <1>3, <1>4, <1>5, <1>6, <1>7, <1>8

\* The timer takes the processor from a thread that holds no lock.
LEMMA YieldKeeps ==
  ASSUME NEW p \in Slots, IInv, Yield(p)
  PROVE  IInv'
<1> USE ProcAssumption DEF Slots, None, initproc, IInv, Yield, Free, locals
<1>1. TypeOK'
  BY SMTT(30) DEF TypeOK
<1>2. ThreadInv'
  BY DEF ThreadInv, TypeOK, Holding, Alive, Interruptible
<1>3. ForkInv'
  BY SMTT(30) DEF ForkInv, ThreadInv
<1>4. LockInv'
  BY DEF LockInv
<1>5. LoopInv'
  BY DEF LoopInv
<1>6. ParentInv'
  BY
  DEF ParentInv, TypeOK, ThreadInv, ForkInv, LockInv, Switching, LoopInv, Holding, Forking, Exiting,
     Alive
<1>7. WakeInv'
  BY DEF WakeInv, Asleep
<1>8. PidInv'
  BY DEF PidInv
<1> QED
  BY <1>1, <1>2, <1>3, <1>4, <1>5, <1>6, <1>7, <1>8

\* allocproc() for fork(): the child is USED, and has no parent yet.
LEMMA ForkKeeps ==
  ASSUME NEW p \in Slots, NEW n \in Slots, IInv, Fork(p, n)
  PROVE  IInv'
<1> USE ProcAssumption DEF Slots, None, initproc, IInv, Fork, At, Free, allocpid
<1>1. TypeOK'
  <2>1. havekids' \in BOOLEAN
    BY Zenon DEF TypeOK
  <2>2. pc' \in [Slots -> {"user", "fork_parent", "fork_run", "wait_enter",
               "wait_scan", "wait_free", "wait_done", "wait_sleep",
               "sleep_release", "sleep_switch",
               "exit_enter", "exit_reparent", "exit_wakeinit",
               "exit_wakeparent", "exit_zombie", "exit_switch", "dead"}]
    BY SMTT(30) DEF TypeOK
  <2>3. pp' \in 1 .. NPROC + 1 /\ wp' \in 1 .. NPROC + 1
    BY SMTT(30) DEF TypeOK
  <2> QED
    BY SMTT(30), <2>1, <2>2, <2>3
    DEF TypeOK, LockInv, Switching, LoopInv, ForkInv, Holding, Exiting, Alive
<1>2. ThreadInv'
  BY SMTT(30) DEF ThreadInv, TypeOK, Exiting, Alive
<1>3. ForkInv'
  BY SMTT(30) DEF ForkInv, TypeOK, LockInv, Switching, Forking, Exiting, Alive
<1>4. LockInv'
  BY SMTT(30) DEF LockInv, Switching, TypeOK, ThreadInv, ForkInv, LoopInv, Holding
<1>5. LoopInv'
  BY DEF LoopInv, TypeOK, Holding
<1>6. ParentInv'
  BY SMTT(30)
  DEF ParentInv, TypeOK, ThreadInv, ForkInv, LockInv, Switching, LoopInv, Holding, Forking,
     Exiting, Alive
<1>7. WakeInv'
  BY SMTT(30)
  DEF WakeInv, Asleep, TypeOK, ThreadInv, ForkInv, LockInv, Switching, LoopInv, ParentInv, Holding
<1>8. PidInv'
  BY DEF PidInv, TypeOK
<1> QED
  BY <1>1, <1>2, <1>3, <1>4, <1>5, <1>6, <1>7, <1>8

\* fork() finds no free slot, or no memory.
LEMMA ForkFailsKeeps ==
  ASSUME NEW p \in Slots, IInv, ForkFails(p)
  PROVE  IInv'
<1> USE ProcAssumption DEF Slots, None, initproc, IInv, ForkFails, At, Free, allocpid, locals
<1>1. TypeOK'
  BY SMTT(30) DEF TypeOK, LockInv, LoopInv
<1>2. ThreadInv'
  BY DEF ThreadInv
<1>3. ForkInv'
  BY DEF ForkInv
<1>4. LockInv'
  BY DEF LockInv
<1>5. LoopInv'
  BY DEF LoopInv
<1>6. ParentInv'
  BY DEF ParentInv
<1>7. WakeInv'
  BY DEF WakeInv, Asleep
<1>8. PidInv'
  BY DEF PidInv
<1> QED
  BY <1>1, <1>2, <1>3, <1>4, <1>5, <1>6, <1>7, <1>8

\* fork() sets the child's parent, under wait_lock.
LEMMA ForkParentKeeps ==
  ASSUME NEW p \in Slots, IInv, ForkParent(p)
  PROVE  IInv'
<1> USE ProcAssumption DEF Slots, None, initproc, IInv, ForkParent, At, Goto, locals
<1>1. TypeOK'
  BY Zenon DEF TypeOK, LockInv, Switching, LoopInv, ForkInv, Holding, Exiting, Alive
<1>2. ThreadInv'
  BY DEF ThreadInv, Exiting
<1>3. ForkInv'
  BY SMTT(30) DEF ForkInv, TypeOK, Forking
<1>4. LockInv'
  BY DEF LockInv, Switching, Holding
<1>5. LoopInv'
  BY DEF LoopInv
<1>6. ParentInv'
  BY SMTT(30) DEF ParentInv, ThreadInv, Alive
<1>7. WakeInv'
  BY DEF WakeInv, Asleep, ThreadInv
<1>8. PidInv'
  BY DEF PidInv
<1> QED
  BY <1>1, <1>2, <1>3, <1>4, <1>5, <1>6, <1>7, <1>8

\* fork() makes the child RUNNABLE.
LEMMA ForkRunKeeps ==
  ASSUME NEW p \in Slots, IInv, ForkRun(p)
  PROVE  IInv'
<1> USE ProcAssumption DEF Slots, None, initproc, IInv, ForkRun, At, Goto, Free
<1>1. TypeOK'
  BY Zenon DEF TypeOK, LockInv, Switching, LoopInv, ForkInv, Holding
<1>2. ThreadInv'
  BY DEF ThreadInv, ForkInv, Holding, Forking, Exiting, Alive
<1>3. ForkInv'
  BY DEF ForkInv, TypeOK, Forking
<1>4. LockInv'
  BY DEF LockInv, Switching, Holding
<1>5. LoopInv'
  BY DEF LoopInv, Holding
<1>6. ParentInv'
  BY SMTT(30) DEF ParentInv, ThreadInv, ForkInv, Switching, LoopInv, Forking, Alive
<1>7. WakeInv'
  BY DEF WakeInv, Asleep
<1>8. PidInv'
  BY DEF PidInv
<1> QED
  BY <1>1, <1>2, <1>3, <1>4, <1>5, <1>6, <1>7, <1>8

\* A process calls wait().
LEMMA WaitKeeps ==
  ASSUME NEW p \in Slots, IInv, Wait(p)
  PROVE  IInv'
<1> USE ProcAssumption DEF Slots, None, initproc, IInv, Wait, At, Goto, fields, locals
<1>1. TypeOK'
  BY SMTT(30) DEF TypeOK, LockInv, ForkInv
<1>2. ThreadInv'
  BY DEF ThreadInv, Exiting
<1>3. ForkInv'
  BY DEF ForkInv, Forking
<1>4. LockInv'
  BY DEF LockInv, Switching, Holding
<1>5. LoopInv'
  BY DEF LoopInv, Holding
<1>6. ParentInv'
  BY DEF ParentInv
<1>7. WakeInv'
  BY DEF WakeInv, Asleep
<1>8. PidInv'
  BY DEF PidInv
<1> QED
  BY <1>1, <1>2, <1>3, <1>4, <1>5, <1>6, <1>7, <1>8

\* wait() takes wait_lock, at first or after its sleep.
LEMMA WaitEnterKeeps ==
  ASSUME NEW p \in Slots, IInv, WaitEnter(p)
  PROVE  IInv'
<1> USE ProcAssumption DEF Slots, None, initproc, IInv, WaitEnter, At, Goto, fields, locals
<1>1. TypeOK'
  BY DEF TypeOK, LoopInv
<1>2. ThreadInv'
  BY DEF ThreadInv, Exiting
<1>3. ForkInv'
  BY DEF ForkInv, Forking
<1>4. LockInv'
  BY DEF LockInv, Switching, TypeOK, Holding
<1>5. LoopInv'
  BY DEF LoopInv
<1>6. ParentInv'
  BY DEF ParentInv
<1>7. WakeInv'
  BY DEF WakeInv, Asleep, LoopInv
<1>8. PidInv'
  BY DEF PidInv
<1> QED
  BY <1>1, <1>2, <1>3, <1>4, <1>5, <1>6, <1>7, <1>8

\* wait() passes a slot that is no exited child of its own.
LEMMA WaitScanKeeps ==
  ASSUME NEW p \in Slots, IInv, WaitScan(p)
  PROVE  IInv'
<1> USE ProcAssumption DEF Slots, None, initproc, IInv, WaitScan, At, Goto, Free, fields
<1>1. TypeOK'
  <2>1. havekids' \in BOOLEAN
    BY Zenon DEF TypeOK
  <2>2. pc' \in [Slots -> {"user", "fork_parent", "fork_run", "wait_enter",
               "wait_scan", "wait_free", "wait_done", "wait_sleep",
               "sleep_release", "sleep_switch",
               "exit_enter", "exit_reparent", "exit_wakeinit",
               "exit_wakeparent", "exit_zombie", "exit_switch", "dead"}]
    BY SMTT(30) DEF TypeOK
  <2>3. pp' \in 1 .. NPROC + 1 /\ wp' \in 1 .. NPROC + 1
    BY SMTT(30) DEF TypeOK, LoopInv
  <2> QED
    BY SMTT(30), <2>1, <2>2, <2>3 DEF TypeOK, LockInv, LoopInv, Holding
<1>2. ThreadInv'
  BY DEF ThreadInv, Exiting
<1>3. ForkInv'
  BY DEF ForkInv, Forking
<1>4. LockInv'
  BY DEF LockInv, Switching, Holding
<1>5. LoopInv'
  BY DEF LoopInv, TypeOK, LockInv, Holding
<1>6. ParentInv'
  BY DEF ParentInv, LockInv, Holding
<1>7. WakeInv'
  BY DEF WakeInv, Asleep, LockInv, LoopInv, Holding
<1>8. PidInv'
  BY DEF PidInv
<1> QED
  BY <1>1, <1>2, <1>3, <1>4, <1>5, <1>6, <1>7, <1>8

\* wait() finds an exited child, and begins freeproc().
LEMMA WaitReapKeeps ==
  ASSUME NEW p \in Slots, IInv, WaitReap(p)
  PROVE  IInv'
<1> USE ProcAssumption
    DEF Slots, None, initproc, IInv, WaitReap, At, Goto, Free, ExitedChild, locals
<1>1. TypeOK'
  BY SMTT(30) DEF TypeOK, LoopInv, Holding
<1>2. ThreadInv'
  BY DEF ThreadInv, Exiting
<1>3. ForkInv'
  BY SMTT(30) DEF ForkInv, Forking
<1>4. LockInv'
  BY SMTT(30) DEF LockInv, Switching, TypeOK, ThreadInv, LoopInv, Holding
<1>5. LoopInv'
  BY DEF LoopInv, Holding
<1>6. ParentInv'
  BY SMTT(30) DEF ParentInv, TypeOK
<1>7. WakeInv'
  BY DEF WakeInv, Asleep
<1>8. PidInv'
  BY DEF PidInv
<1> QED
  BY <1>1, <1>2, <1>3, <1>4, <1>5, <1>6, <1>7, <1>8

\* wait() has freed the child's slot.
LEMMA WaitFreeKeeps ==
  ASSUME NEW p \in Slots, IInv, WaitFree(p)
  PROVE  IInv'
<1> USE ProcAssumption DEF Slots, None, initproc, IInv, WaitFree, At, EndScan
<1>1. TypeOK'
  <2>1. havekids' \in BOOLEAN
    BY Zenon
  <2>2. pc' \in [Slots -> {"user", "fork_parent", "fork_run", "wait_enter",
               "wait_scan", "wait_free", "wait_done", "wait_sleep",
               "sleep_release", "sleep_switch",
               "exit_enter", "exit_reparent", "exit_wakeinit",
               "exit_wakeparent", "exit_zombie", "exit_switch", "dead"}]
    BY SMTT(30) DEF TypeOK, LockInv
  <2>3. pp' \in 1 .. NPROC + 1 /\ wp' \in 1 .. NPROC + 1
    BY SMTT(30) DEF TypeOK
  <2> QED
    BY SMTT(30), <2>1, <2>2, <2>3 DEF TypeOK, LockInv
<1>2. ThreadInv'
  BY SMTT(30) DEF ThreadInv, TypeOK, LockInv, Exiting, Alive
<1>3. ForkInv'
  BY SMTT(30) DEF ForkInv, TypeOK, ThreadInv, LockInv, Holding, Forking, Exiting, Alive
<1>4. LockInv'
  <2>1. pp \in Slots /\ pc[pp] = "dead" /\ wait_lock = p /\ plock[pp] = p
    BY DEF LockInv
  <2>2. \A s \in Slots : /\ pc'[s] = IF s \in {p, pp} THEN "user" ELSE pc[s]
                         /\ plock'[s] = IF s = pp THEN None ELSE plock[s]
    BY <2>1 DEF TypeOK
  <2>3. \A s \in Slots : /\ pc[s] \in Holding <=> s = p
                         /\ plock'[s] # None => plock[s] = s /\ pc[s] \in Switching
    BY SMTT(30), <2>1, <2>2 DEF LockInv
  <2>4. \A s \in Slots : /\ pc'[s] \notin Holding
                         /\ pc'[s] \in Switching <=> pc[s] \in Switching /\ s # p
                         /\ pc'[s] # "wait_free"
    BY ONLY SMTT(60), <2>1, <2>2, <2>3 DEF Holding, Switching
  <2>5. wait_lock' = None /\ None \notin Slots /\ pc[p] \notin Switching /\ pc[pp] \notin Switching
    BY SMTT(30), <2>1 DEF Switching
  <2> QED
    BY ONLY SMTT(60), LockInv, <2>1, <2>2, <2>3, <2>4, <2>5 DEF LockInv
<1>5. LoopInv'
  BY DEF LoopInv, Holding
<1>6. ParentInv'
  BY SMTT(30) DEF ParentInv, TypeOK, ThreadInv, LockInv, Alive
<1>7. WakeInv'
  BY SMTT(30) DEF WakeInv, Asleep, TypeOK, LockInv, Holding
<1>8. PidInv'
  BY DEF PidInv, LockInv
<1> QED
  BY <1>1, <1>2, <1>3, <1>4, <1>5, <1>6, <1>7, <1>8

\* wait() finds an exited child, but copyout() fails.
LEMMA WaitFaultKeeps ==
  ASSUME NEW p \in Slots, IInv, WaitFault(p)
  PROVE  IInv'
<1> USE ProcAssumption DEF Slots, None, initproc, IInv, WaitFault, At, Goto, EndScan, fields
<1>1. TypeOK'
  <2>1. havekids' \in BOOLEAN
    BY Zenon
  <2>2. pc' \in [Slots -> {"user", "fork_parent", "fork_run", "wait_enter",
               "wait_scan", "wait_free", "wait_done", "wait_sleep",
               "sleep_release", "sleep_switch",
               "exit_enter", "exit_reparent", "exit_wakeinit",
               "exit_wakeparent", "exit_zombie", "exit_switch", "dead"}]
    BY SMTT(30) DEF TypeOK
  <2>3. pp' \in 1 .. NPROC + 1 /\ wp' \in 1 .. NPROC + 1
    BY SMTT(30) DEF TypeOK
  <2> QED
    BY SMTT(30), <2>1, <2>2, <2>3 DEF TypeOK, LockInv
<1>2. ThreadInv'
  BY DEF ThreadInv
<1>3. ForkInv'
  BY SMTT(30) DEF ForkInv, Forking
<1>4. LockInv'
  BY DEF LockInv, Switching, TypeOK, Holding
<1>5. LoopInv'
  BY DEF LoopInv, Holding
<1>6. ParentInv'
  BY DEF ParentInv, LockInv, Holding
<1>7. WakeInv'
  BY DEF WakeInv, Asleep, LockInv, Holding
<1>8. PidInv'
  BY DEF PidInv
<1> QED
  BY <1>1, <1>2, <1>3, <1>4, <1>5, <1>6, <1>7, <1>8

\* wait() has seen the whole table: it returns, or is going to sleep.
LEMMA WaitDoneKeeps ==
  ASSUME NEW p \in Slots, IInv, WaitDone(p)
  PROVE  IInv'
<1> USE ProcAssumption
    DEF Slots, None, initproc, IInv, WaitDone, WaitDoneWith, At, Goto, EndScan, fields
<1>1. TypeOK'
  <2>1. havekids' \in BOOLEAN
    BY Zenon
  <2>2. pc' \in [Slots -> {"user", "fork_parent", "fork_run", "wait_enter",
               "wait_scan", "wait_free", "wait_done", "wait_sleep",
               "sleep_release", "sleep_switch",
               "exit_enter", "exit_reparent", "exit_wakeinit",
               "exit_wakeparent", "exit_zombie", "exit_switch", "dead"}]
    BY SMTT(30) DEF TypeOK
  <2>3. pp' \in 1 .. NPROC + 1 /\ wp' \in 1 .. NPROC + 1
    BY SMTT(30) DEF TypeOK
  <2> QED
    BY SMTT(30), <2>1, <2>2, <2>3 DEF TypeOK, LockInv, Switching, LoopInv, Holding
<1>2. ThreadInv'
  BY SMTT(30) DEF ThreadInv, TypeOK, Exiting
<1>3. ForkInv'
  <2>1. \A q \in Slots : pc'[q] \in Forking => pc[q] = pc'[q]
    BY SMTT(30) DEF TypeOK, Forking
  <2> QED
    BY SMTT(30), <2>1 DEF ForkInv
<1>4. LockInv'
  <2>1. CASE ~havekids \/ p \in killed
    <3>1. \A q \in Slots : pc'[q] = IF q = p THEN "user" ELSE pc[q]
      BY SMTT(30), <2>1 DEF TypeOK
    <3>2. wait_lock = p /\ wait_lock' = None /\ plock' = plock
      BY SMTT(30), <2>1 DEF LockInv, Holding
    <3>3. \A q \in Slots : pc[q] \in Holding => q = p
      BY SMTT(30), <3>2 DEF LockInv
    <3>4. \A q \in Slots : plock[q] # None => plock[q] = q /\ pc[q] \in Switching
      BY SMTT(30), <3>2 DEF LockInv
    <3> QED
      BY SMTT(30), <3>1, <3>2, <3>3, <3>4 DEF LockInv, Switching, Holding
  <2>2. CASE ~(~havekids \/ p \in killed)
    BY SMTT(30), <2>2 DEF LockInv, Switching, TypeOK, ThreadInv, ForkInv, Holding
  <2> QED
    BY <2>1, <2>2
<1>5. LoopInv'
  BY DEF LoopInv, Holding
<1>6. ParentInv'
  BY SMTT(30) DEF ParentInv, TypeOK, LockInv, Holding
<1>7. WakeInv'
  BY SMTT(30) DEF WakeInv, Asleep, TypeOK, LockInv, Holding
<1>8. PidInv'
  BY DEF PidInv
<1> QED
  BY <1>1, <1>2, <1>3, <1>4, <1>5, <1>6, <1>7, <1>8

\* wait() is about to sleep: sleep() takes p->lock.
LEMMA WaitSleepKeeps ==
  ASSUME NEW p \in Slots, IInv, WaitSleep(p)
  PROVE  IInv'
<1> USE ProcAssumption DEF Slots, None, initproc, IInv, WaitSleep, At, Goto, Free, fields, locals
<1>1. TypeOK'
  BY SMTT(30) DEF TypeOK
<1>2. ThreadInv'
  BY SMTT(30) DEF ThreadInv, Exiting
<1>3. ForkInv'
  BY SMTT(30) DEF ForkInv, Forking
<1>4. LockInv'
  <2>1. \A q \in Slots : /\ pc'[q] = IF q = p THEN "sleep_release" ELSE pc[q]
                         /\ plock'[q] = IF q = p THEN p ELSE plock[q]
    BY SMTT(30) DEF TypeOK
  <2>2. wait_lock = p /\ wait_lock' = wait_lock /\ pp' = pp /\ parent' = parent /\ pid' = pid
    BY SMTT(30) DEF LockInv, Holding
  <2>3. \A q \in Slots : pc[q] \in Holding <=> q = p
    BY SMTT(30), <2>2 DEF LockInv
  <2>4. pc[p] # "wait_free"
    OBVIOUS
  <2>5. \A q \in Slots : pc'[q] \in Holding <=> q = p
    BY ONLY SMTT(60), <2>1, <2>3 DEF Holding
  <2>6. \A q \in Slots : pc'[q] # "wait_free" /\ pc[q] # "wait_free"
    BY ONLY SMTT(60), <2>1, <2>3, <2>4 DEF Holding
  <2>7. \A q \in Slots : pc'[q] \in Switching <=> pc[q] \in Switching \/ q = p
    BY ONLY SMTT(60), <2>1, <2>3 DEF Holding, Switching
  <2>8. \A q \in Slots : plock[q] # None => plock[q] = q /\ pc[q] \in Switching
    BY SMTT(30), <2>2, <2>6 DEF LockInv
  <2> QED
    BY ONLY SMTT(60), LockInv, <2>1, <2>2, <2>5, <2>6, <2>7, <2>8 DEF LockInv
<1>5. LoopInv'
  <2>1. \A q \in Slots : pc'[q] = IF q = p THEN "sleep_release" ELSE pc[q]
    BY SMTT(30) DEF TypeOK
  <2>2. UNCHANGED <<wait_lock, pp, wp>> /\ pc[p] = "wait_sleep"
    BY Zenon
  <2> QED
    BY ONLY SMTT(60), LoopInv, <2>1, <2>2, p \in Slots DEF LoopInv, Holding
<1>6. ParentInv'
  BY SMTT(30) DEF ParentInv
<1>7. WakeInv'
  BY SMTT(30) DEF WakeInv, Asleep
<1>8. PidInv'
  BY DEF PidInv
<1> QED
  BY <1>1, <1>2, <1>3, <1>4, <1>5, <1>6, <1>7, <1>8

\* sleep() gives wait_lock up, with p->lock held.
LEMMA SleepReleaseKeeps ==
  ASSUME NEW p \in Slots, IInv, SleepRelease(p)
  PROVE  IInv'
<1> USE ProcAssumption DEF Slots, None, initproc, IInv, SleepRelease, At, Goto, fields, locals
<1>1. TypeOK'
  BY SMTT(30) DEF TypeOK
<1>2. ThreadInv'
  BY SMTT(30) DEF ThreadInv, Exiting
<1>3. ForkInv'
  BY SMTT(30) DEF ForkInv, Forking
<1>4. LockInv'
  BY SMTT(30) DEF LockInv, Switching, TypeOK, Holding
<1>5. LoopInv'
  BY SMTT(30) DEF LoopInv, LockInv, TypeOK, Holding
<1>6. ParentInv'
  BY SMTT(30) DEF ParentInv
<1>7. WakeInv'
  BY SMTT(30) DEF WakeInv, Asleep, LockInv, Holding
<1>8. PidInv'
  BY DEF PidInv
<1> QED
  BY <1>1, <1>2, <1>3, <1>4, <1>5, <1>6, <1>7, <1>8

\* sleep() leaves the processor.
LEMMA SleepSwitchKeeps ==
  ASSUME NEW p \in Slots, IInv, SleepSwitch(p)
  PROVE  IInv'
<1> USE ProcAssumption DEF Slots, None, initproc, IInv, SleepSwitch, At, Goto, locals
<1>1. TypeOK'
  BY SMTT(30) DEF TypeOK
<1>2. ThreadInv'
  BY SMTT(30) DEF ThreadInv, TypeOK, Exiting, Alive
<1>3. ForkInv'
  BY SMTT(30) DEF ForkInv, ThreadInv, Forking
<1>4. LockInv'
  BY SMTT(30) DEF LockInv, Switching, TypeOK, Holding
<1>5. LoopInv'
  BY SMTT(30) DEF LoopInv, Holding
<1>6. ParentInv'
  BY SMTT(30) DEF ParentInv, ThreadInv, Alive
<1>7. WakeInv'
  BY SMTT(30) DEF WakeInv, Asleep
<1>8. PidInv'
  BY DEF PidInv
<1> QED
  BY <1>1, <1>2, <1>3, <1>4, <1>5, <1>6, <1>7, <1>8
=============================================================================
