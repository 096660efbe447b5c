----------------------------- MODULE ProcProof -----------------------------
(***************************************************************************)
(* The process table, for any number of slots, processors and pids: the    *)
(* steps of exit() and kill() keep the invariant IInv of ProcSteps, and    *)
(* with it the invariants of Proc hold, and what wait() may do to a        *)
(* process.                                                                *)
(***************************************************************************)
EXTENDS ProcSteps

\* A process calls exit(), or is made to.
LEMMA ExitKeeps ==
  ASSUME NEW p \in Slots, IInv, Exit(p)
  PROVE  IInv'
<1> USE ProcAssumption DEF Slots, None, initproc, IInv, Exit, At, Goto, fields, locals
<1>1. TypeOK'
  BY SMTT(30) DEF TypeOK
<1>2. ThreadInv'
  BY DEF ThreadInv
<1>3. ForkInv'
  BY SMTT(30) DEF ForkInv, Forking
<1>4. LockInv'
  BY DEF LockInv, Switching, Holding
<1>5. LoopInv'
  BY DEF LoopInv, Holding
<1>6. ParentInv'
  BY DEF ParentInv
<1>7. WakeInv'
  BY DEF WakeInv, Asleep
<1>8. PidInv'
  BY DEF PidInv
<1> QED
  BY <1>1, <1>2, <1>3, <1>4, <1>5, <1>6, <1>7, <1>8

\* exit() takes wait_lock.
LEMMA ExitEnterKeeps ==
  ASSUME NEW p \in Slots, IInv, ExitEnter(p)
  PROVE  IInv'
<1> USE ProcAssumption DEF Slots, None, initproc, IInv, ExitEnter, At, Goto, fields, locals
<1>1. TypeOK'
  BY SMTT(30) DEF TypeOK, Holding
<1>2. ThreadInv'
  BY DEF ThreadInv, Exiting
<1>3. ForkInv'
  BY SMTT(30) DEF ForkInv, Forking
<1>4. LockInv'
  BY DEF LockInv, Switching, TypeOK, Holding
<1>5. LoopInv'
  BY DEF LoopInv
<1>6. ParentInv'
  BY DEF ParentInv, LoopInv
<1>7. WakeInv'
  BY DEF WakeInv, Asleep
<1>8. PidInv'
  BY DEF PidInv
<1> QED
  BY <1>1, <1>2, <1>3, <1>4, <1>5, <1>6, <1>7, <1>8

\* One round of reparent()'s loop.
LEMMA ExitReparentKeeps ==
  ASSUME NEW p \in Slots, IInv, ExitReparent(p)
  PROVE  IInv'
<1> USE ProcAssumption DEF Slots, None, initproc, IInv, ExitReparent, At, Goto
<1>1. TypeOK'
  <2>1. havekids' \in BOOLEAN
    BY Zenon DEF TypeOK
  <2>2. pc' \in [Slots -> {"user", "fork_parent", "fork_run", "wait_enter",
               "wait_scan", "wait_free", "wait_done", "wait_sleep",
               "sleep_release", "sleep_switch",
               "exit_enter", "exit_reparent", "exit_wakeinit",
               "exit_wakeparent", "exit_zombie", "exit_switch", "dead"}]
    BY SMTT(30) DEF TypeOK
  <2>3. pp' \in 1 .. NPROC + 1 /\ wp' \in 1 .. NPROC + 1
    BY SMTT(30) DEF TypeOK
  <2> QED
    BY SMTT(30), <2>1, <2>2, <2>3 DEF TypeOK, LockInv, Holding
<1>2. ThreadInv'
  BY SMTT(30) DEF ThreadInv, TypeOK, Exiting, Alive
<1>3. ForkInv'
  BY SMTT(30)
  DEF ForkInv, TypeOK, ThreadInv, LockInv, Switching, Holding, Forking, Exiting, Alive
<1>4. LockInv'
  BY SMTT(30) DEF LockInv, Switching, TypeOK, ThreadInv, ForkInv, LoopInv, Holding
<1>5. LoopInv'
  BY SMTT(30) DEF LoopInv, TypeOK, LockInv, Holding
<1>6. ParentInv'
  BY SMTT(30)
  DEF ParentInv, TypeOK, ThreadInv, ForkInv, LockInv, Switching, LoopInv, Holding, Forking,
     Exiting, Alive
<1>7. WakeInv'
  BY SMTT(30)
  DEF WakeInv, Asleep, TypeOK, ThreadInv, ForkInv, LockInv, Switching, LoopInv, ParentInv, Holding
<1>8. PidInv'
  BY DEF PidInv
<1> QED
  BY <1>1, <1>2, <1>3, <1>4, <1>5, <1>6, <1>7, <1>8

\* One round of wakeup(initproc), within reparent().
LEMMA ExitWakeInitKeeps ==
  ASSUME NEW p \in Slots, IInv, ExitWakeInit(p)
  PROVE  IInv'
<1> USE ProcAssumption
    DEF Slots, None, initproc, IInv, ExitWakeInit, At, Goto, Free, WakeupOne, WakeupEnd
<1>1. TypeOK'
  <2>1. havekids' \in BOOLEAN
    BY Zenon DEF TypeOK
  <2>2. pc' \in [Slots -> {"user", "fork_parent", "fork_run", "wait_enter",
               "wait_scan", "wait_free", "wait_done", "wait_sleep",
               "sleep_release", "sleep_switch",
               "exit_enter", "exit_reparent", "exit_wakeinit",
               "exit_wakeparent", "exit_zombie", "exit_switch", "dead"}]
    BY SMTT(30) DEF TypeOK
  <2>3. pp' \in 1 .. NPROC + 1 /\ wp' \in 1 .. NPROC + 1
    BY SMTT(30) DEF TypeOK, LoopInv
  <2> QED
    BY SMTT(30), <2>1, <2>2, <2>3 DEF TypeOK, LockInv, Switching, LoopInv, ForkInv, Holding
<1>2. ThreadInv'
  BY SMTT(30) DEF ThreadInv, TypeOK, Holding, Forking, Exiting, Alive
<1>3. ForkInv'
  <2>1. CASE WakeupOne(p, initproc) /\ UNCHANGED <<pp, pc>>
    BY SMTT(30), <2>1 DEF ForkInv
  <2>2. CASE WakeupEnd /\ pp' = pp + 1 /\ Goto(p, "exit_reparent")
    BY SMTT(30), <2>2 DEF ForkInv, Forking
  <2> QED
    BY <2>1, <2>2
<1>4. LockInv'
  <2>1. CASE WakeupOne(p, initproc) /\ UNCHANGED <<pp, pc>>
    BY SMTT(30), <2>1 DEF LockInv
  <2>2. CASE WakeupEnd /\ pp' = pp + 1 /\ Goto(p, "exit_reparent")
    BY SMTT(30), <2>2 DEF LockInv, Switching, Holding
  <2> QED
    BY <2>1, <2>2
<1>5. LoopInv'
  BY SMTT(30) DEF LoopInv, TypeOK, LockInv, Switching, Holding
<1>6. ParentInv'
  <2>1. CASE WakeupOne(p, initproc) /\ UNCHANGED <<pp, pc>>
    BY SMTT(30), <2>1 DEF ParentInv, Alive
  <2>2. CASE WakeupEnd /\ pp' = pp + 1 /\ Goto(p, "exit_reparent")
    BY SMTT(30), <2>2 DEF ParentInv, TypeOK, LockInv, Holding
  <2> QED
    BY <2>1, <2>2
<1>7. WakeInv'
  <2>1. CASE WakeupOne(p, initproc) /\ UNCHANGED <<pp, pc>>
    <3>1. wait_lock = p /\ pc[p] = "exit_wakeinit" /\ wp \in Slots
      BY SMTT(30), <2>1 DEF TypeOK, LockInv, Holding
    <3>2. pc[wp] # "sleep_switch"
      BY SMTT(30), <2>1, <3>1 DEF LockInv, Switching
    <3>3. \A q \in Slots : /\ state'[q] = "SLEEPING" => state[q] = "SLEEPING"
                           /\ state'[q] = "ZOMBIE" => state[q] = "ZOMBIE"
      BY SMTT(30), <2>1, <3>1
    <3>4. wp = initproc => state'[initproc] # "SLEEPING" /\ pc[initproc] # "sleep_switch"
      BY SMTT(30), <2>1, <3>1, <3>2 DEF TypeOK, ThreadInv
    <3>5. \A q \in Slots : pc[q] \notin {"exit_wakeparent", "exit_zombie"}
      BY SMTT(30), <3>1 DEF LockInv, Holding
    <3>6. UNCHANGED <<pc, parent, wait_lock, pp>>
      BY Zenon, <2>1
    <3> QED
      BY ONLY SMTT(60), WakeInv, <3>3, <3>4, <3>5, <3>6 DEF WakeInv, Asleep, initproc, Slots
  <2>2. CASE WakeupEnd /\ pp' = pp + 1 /\ Goto(p, "exit_reparent")
    BY SMTT(30), <2>2 DEF WakeInv, Asleep, LockInv, Holding
  <2> QED
    BY <2>1, <2>2
<1>8. PidInv'
  BY SMTT(30) DEF PidInv, TypeOK
<1> QED
  BY <1>1, <1>2, <1>3, <1>4, <1>5, <1>6, <1>7, <1>8

\* One round of wakeup(p->parent).
LEMMA ExitWakeParentKeeps ==
  ASSUME NEW p \in Slots, IInv, ExitWakeParent(p)
  PROVE  IInv'
<1> USE ProcAssumption
    DEF Slots, None, initproc, IInv, ExitWakeParent, At, Goto, Free, WakeupOne, WakeupEnd
<1>1. TypeOK'
  <2>1. havekids' \in BOOLEAN
    BY Zenon DEF TypeOK
  <2>2. pc' \in [Slots -> {"user", "fork_parent", "fork_run", "wait_enter",
               "wait_scan", "wait_free", "wait_done", "wait_sleep",
               "sleep_release", "sleep_switch",
               "exit_enter", "exit_reparent", "exit_wakeinit",
               "exit_wakeparent", "exit_zombie", "exit_switch", "dead"}]
    BY SMTT(30) DEF TypeOK
  <2>3. pp' \in 1 .. NPROC + 1 /\ wp' \in 1 .. NPROC + 1
    BY SMTT(30) DEF TypeOK
  <2> QED
    BY SMTT(30), <2>1, <2>2, <2>3 DEF TypeOK, LockInv, Switching, LoopInv, ForkInv, Holding
<1>2. ThreadInv'
  BY SMTT(30) DEF ThreadInv, TypeOK, LockInv, Holding, Exiting, Alive
<1>3. ForkInv'
  <2>1. CASE WakeupOne(p, parent[p]) /\ UNCHANGED pc
    BY <2>1 DEF ForkInv
  <2>2. CASE WakeupEnd /\ Goto(p, "exit_zombie")
    BY SMTT(30), <2>2 DEF ForkInv, Forking
  <2> QED
    BY SMTT(60), <2>1, <2>2
<1>4. LockInv'
  <2>1. CASE WakeupOne(p, parent[p]) /\ UNCHANGED pc
    BY SMTT(30), <2>1 DEF LockInv
  <2>2. CASE WakeupEnd /\ Goto(p, "exit_zombie")
    BY SMTT(30), <2>2 DEF LockInv, Switching, Holding
  <2> QED
    BY SMTT(60), <2>1, <2>2
<1>5. LoopInv'
  BY DEF LoopInv, LockInv, Holding
<1>6. ParentInv'
  <2>1. CASE WakeupOne(p, parent[p]) /\ UNCHANGED pc
    BY SMTT(30), <2>1 DEF ParentInv, Alive
  <2>2. CASE WakeupEnd /\ Goto(p, "exit_zombie")
    BY <2>2 DEF ParentInv
  <2> QED
    BY SMTT(60), <2>1, <2>2
<1>7. WakeInv'
  <2>1. CASE WakeupOne(p, parent[p]) /\ UNCHANGED pc
    BY SMTT(30), <2>1 DEF WakeInv, Asleep, TypeOK, ThreadInv, LockInv, Switching, Holding
  <2>2. CASE WakeupEnd /\ Goto(p, "exit_zombie")
    BY SMTT(30), <2>2 DEF WakeInv, Asleep, TypeOK
  <2> QED
    BY <2>1, <2>2
<1>8. PidInv'
  BY SMTT(30) DEF PidInv, TypeOK
<1> QED
  BY <1>1, <1>2, <1>3, <1>4, <1>5, <1>6, <1>7, <1>8

\* exit() makes the slot ZOMBIE and gives wait_lock up.
LEMMA ExitZombieKeeps ==
  ASSUME NEW p \in Slots, IInv, ExitZombie(p)
  PROVE  IInv'
<1> USE ProcAssumption DEF Slots, None, initproc, IInv, ExitZombie, At, Goto, Free, locals
<1>1. TypeOK'
  BY SMTT(30) DEF TypeOK
<1>2. ThreadInv'
  BY SMTT(30) DEF ThreadInv, TypeOK, Exiting
<1>3. ForkInv'
  BY SMTT(30) DEF ForkInv, ThreadInv, Forking
<1>4. LockInv'
  BY SMTT(30) DEF LockInv, Switching, TypeOK, Holding
<1>5. LoopInv'
  BY DEF LoopInv, Holding
<1>6. ParentInv'
  BY SMTT(30) DEF ParentInv, ThreadInv, Alive
<1>7. WakeInv'
  BY SMTT(30) DEF WakeInv, Asleep, LockInv, Holding
<1>8. PidInv'
  BY DEF PidInv
<1> QED
  BY <1>1, <1>2, <1>3, <1>4, <1>5, <1>6, <1>7, <1>8

\* sched() leaves the processor for good.
LEMMA ExitSwitchKeeps ==
  ASSUME NEW p \in Slots, IInv, ExitSwitch(p)
  PROVE  IInv'
<1> USE ProcAssumption DEF Slots, None, initproc, IInv, ExitSwitch, At, Goto, fields, locals
<1>1. TypeOK'
  BY SMTT(30) DEF TypeOK
<1>2. ThreadInv'
  BY SMTT(30) DEF ThreadInv, TypeOK, Exiting
<1>3. ForkInv'
  BY SMTT(30) DEF ForkInv, Forking
<1>4. LockInv'
  BY SMTT(30) DEF LockInv, Switching, TypeOK, Holding
<1>5. LoopInv'
  BY DEF LoopInv, Holding
<1>6. ParentInv'
  BY SMTT(30) DEF ParentInv
<1>7. WakeInv'
  BY SMTT(30) DEF WakeInv, Asleep
<1>8. PidInv'
  BY DEF PidInv
<1> QED
  BY <1>1, <1>2, <1>3, <1>4, <1>5, <1>6, <1>7, <1>8

\* kill() marks one slot, and wakes it if it sleeps.
LEMMA KillKeeps ==
  ASSUME NEW p \in Slots, NEW s \in Slots, IInv, Kill(p, s)
  PROVE  IInv'
<1> USE ProcAssumption DEF Slots, None, initproc, IInv, Kill, KillWith, At, Free, locals
<1>1. TypeOK'
  BY SMTT(30) DEF TypeOK, LoopInv
<1>2. ThreadInv'
  BY SMTT(30) DEF ThreadInv, Holding, Alive
<1>3. ForkInv'
  BY DEF ForkInv
<1>4. LockInv'
  BY DEF LockInv
<1>5. LoopInv'
  BY DEF LoopInv
<1>6. ParentInv'
  BY SMTT(30) DEF ParentInv, Alive
<1>7. WakeInv'
  <2>1. \A q \in Slots : /\ state'[q] = "SLEEPING" => state[q] = "SLEEPING"
                         /\ state'[q] = "ZOMBIE" => state[q] = "ZOMBIE"
    BY SMTT(30) DEF TypeOK
  <2>2. UNCHANGED <<pc, parent, wait_lock, pp, wp>>
    BY Zenon
  <2> QED
    BY ONLY SMTT(60), WakeInv, <2>1, <2>2 DEF WakeInv, Asleep
<1>8. PidInv'
  BY DEF PidInv
<1> QED
  BY <1>1, <1>2, <1>3, <1>4, <1>5, <1>6, <1>7, <1>8

\* usertrap() marks its own process.
LEMMA SetKilledKeeps ==
  ASSUME NEW p \in Slots, IInv, SetKilled(p)
  PROVE  IInv'
<1> USE ProcAssumption DEF Slots, None, initproc, IInv, SetKilled, At, Free, locals
<1>1. TypeOK'
  BY SMTT(30) DEF TypeOK, LoopInv
<1>2. ThreadInv'
  BY DEF ThreadInv
<1>3. ForkInv'
  BY DEF ForkInv
<1>4. LockInv'
  BY DEF LockInv
<1>5. LoopInv'
  BY DEF LoopInv
<1>6. ParentInv'
  BY SMTT(30) DEF ParentInv
<1>7. WakeInv'
  BY SMTT(30) DEF WakeInv, Asleep
<1>8. PidInv'
  BY DEF PidInv
<1> QED
  BY <1>1, <1>2, <1>3, <1>4, <1>5, <1>6, <1>7, <1>8

-----------------------------------------------------------------------------
\* procinit() and userinit() establish IInv.
LEMMA Initially == Init => IInv
<1> SUFFICES ASSUME Init PROVE IInv
  OBVIOUS
<1> USE ProcAssumption DEF Slots, None, initproc, Init
<1>1. TypeOK
  <2>1. havekids \in BOOLEAN
    BY Zenon
  <2> QED
    BY <2>1 DEF TypeOK
<1>2. ThreadInv /\ ForkInv /\ LockInv /\ LoopInv
  BY DEF ThreadInv, ForkInv, LockInv, Switching, LoopInv, Holding, Forking, Exiting, Alive
<1>3. ParentInv /\ WakeInv /\ PidInv
  BY SMTT(60) DEF ParentInv, WakeInv, Asleep, PidInv, Alive
<1> QED
  BY <1>1, <1>2, <1>3 DEF IInv

\* Every step of every thread and of the schedulers keeps IInv.
LEMMA Inductive == IInv /\ [Next]_vars => IInv'
<1> SUFFICES ASSUME IInv, [Next]_vars PROVE IInv'
  OBVIOUS
<1>1. ASSUME NEW p \in Slots, Thread(p) PROVE IInv'
  <2>1. CASE \E s \in Slots : Fork(p, s) \/ Kill(p, s)
    BY Zenon, <2>1, ForkKeeps, KillKeeps
  <2>2. CASE ForkFails(p) \/ Wait(p) \/ WaitFault(p) \/ Exit(p) \/ SetKilled(p) \/ Yield(p)
    BY Zenon, <2>2, ForkFailsKeeps, WaitKeeps, WaitFaultKeeps, ExitKeeps, SetKilledKeeps,
       YieldKeeps
  <2>3. CASE KernelStep(p)
    BY Zenon, <2>3, ForkParentKeeps, ForkRunKeeps, WaitEnterKeeps, WaitScanKeeps,
       WaitReapKeeps, WaitFreeKeeps, WaitDoneKeeps, WaitSleepKeeps, SleepReleaseKeeps,
       SleepSwitchKeeps, ExitEnterKeeps,
       ExitReparentKeeps, ExitWakeInitKeeps, ExitWakeParentKeeps, ExitZombieKeeps,
       ExitSwitchKeeps
    DEF KernelStep
  <2> QED
    BY Zenon, <1>1, <2>1, <2>2, <2>3 DEF Thread
<1>2. CASE UNCHANGED vars
  <2>1. TypeOK'
    BY Zenon, <1>2 DEF vars, IInv, TypeOK
  <2>2. ThreadInv' /\ ForkInv' /\ LoopInv'
    BY SMTT(60), <1>2 DEF vars, IInv, ThreadInv, ForkInv, LoopInv
  <2>3. LockInv'
    BY Zenon, <1>2 DEF vars, IInv, LockInv
  <2>4. ParentInv' /\ WakeInv' /\ PidInv'
    BY SMTT(60), <1>2 DEF vars, IInv, ParentInv, WakeInv, Asleep, PidInv
  <2> QED
    BY <2>1, <2>2, <2>3, <2>4 DEF IInv
<1> QED
  BY Zenon, <1>1, <1>2, ScheduleKeeps DEF Next

(* IInv holds in every reachable state of the process table, whatever the  *)
(* processes of user programs call.                                        *)
THEOREM Invariance == Spec => []IInv
  BY Initially, Inductive, PTL DEF Spec

(* For any number of slots and processors, a thread is on a processor      *)
(* exactly while its slot is RUNNING, or in the last steps of exit().      *)
THEOREM RunningIsOnCpu == Spec => []RunningOnCpu
<1>1. IInv => RunningOnCpu
  BY Zenon DEF IInv, ThreadInv, RunningOnCpu
<1> QED
  BY <1>1, Invariance, PTL

(* Who holds wait_lock, in exit() or wait(), is never off its processor.   *)
THEOREM WaitLockIsHeldRunning == Spec => []WaitLockHolderRuns
<1>1. IInv => WaitLockHolderRuns
  BY DEF IInv, TypeOK, ThreadInv, LockInv, Switching, WaitLockHolderRuns, Holding, None
<1> QED
  BY <1>1, Invariance, PTL

(* Every process but init, running or exited, has a parent that is there   *)
(* to reap it: reparent() and fork() leave none behind.                    *)
THEOREM ParentsStayAlive == Spec => []ParentAlive
<1>1. IInv => ParentAlive
  <2> SUFFICES ASSUME IInv, NEW c \in Slots \ {initproc},
                      state[c] \in Alive \/ (state[c] = "ZOMBIE" /\ Free(c))
               PROVE  parent[c] \in Slots /\ state[parent[c]] \in Alive
    BY Zenon DEF ParentAlive, Alive
  <2>1. ~ \E p \in Slots : pc[p] = "wait_free" /\ pp = c
    BY DEF IInv, LockInv, Switching, ThreadInv, Alive, Free, None, Slots
  <2> QED
    BY Zenon, <2>1 DEF IInv, ParentInv
<1> QED
  BY <1>1, Invariance, PTL

(* Nobody sleeps in wait() with an exited child, once wait_lock is free:   *)
(* the wakeup of exit() or of reparent() was not lost.                     *)
THEOREM NoWakeupIsLost == Spec => []NoLostWakeup
<1>1. IInv => NoLostWakeup
  BY DEF IInv, WakeInv, Asleep, NoLostWakeup
<1> QED
  BY <1>1, Invariance, PTL

(* A process leaves the table only as a ZOMBIE off its processor, through  *)
(* the wait() of its parent: no other step changes a pid that is in use.   *)
THEOREM OnlyParentsReap == Spec => ReapedByParent
<1> DEFINE Reaped == \A s \in Slots :
                       pid[s] # 0 /\ pid'[s] # pid[s] =>
                         /\ pid'[s] = 0 /\ state[s] = "ZOMBIE" /\ s \notin oncpu
                         /\ plock'[s] = parent[s]
<1>1. IInv /\ [Next]_vars => [Reaped]_vars
  <2> SUFFICES ASSUME IInv, Next, NEW s \in Slots, pid[s] # 0, pid'[s] # pid[s]
               PROVE  /\ pid'[s] = 0 /\ state[s] = "ZOMBIE" /\ s \notin oncpu
                      /\ plock'[s] = parent[s]
    BY Zenon
  <2>1. PICK p \in Slots : Thread(p) \/ Schedule(p)
    BY Zenon DEF Next
  <2>2. (\E n \in Slots : Fork(p, n)) \/ WaitReap(p)
    BY Zenon, <2>1 DEF Thread, KernelStep, Schedule, Kill, KillWith, ForkFails, Wait, WaitFault, Exit,
       SetKilled, Yield, ForkParent, ForkRun, WaitEnter, WaitScan, WaitFree, WaitDone,
       WaitDoneWith, WaitSleep, SleepRelease, SleepSwitch, ExitEnter, ExitReparent,
       ExitWakeInit, ExitWakeParent,
       ExitZombie, ExitSwitch, fields
  <2>3. ASSUME NEW n \in Slots, Fork(p, n) PROVE FALSE
    BY <2>3 DEF Fork, IInv, TypeOK, PidInv
  <2>4. CASE WaitReap(p)
    BY SMTT(60), <2>4
    DEF WaitReap, ExitedChild, At, IInv, TypeOK, ThreadInv, LockInv, Switching, LoopInv, Free, None,
       Slots
  <2> QED
    BY SMTT(60), <2>2, <2>3, <2>4
<1> QED
  BY <1>1, Invariance, PTL DEF Spec, ReapedByParent
=============================================================================
