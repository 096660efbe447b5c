------------------------------ MODULE LogProof ------------------------------
(***************************************************************************)
(* Invariance proofs about module Log, for any number of processes,        *)
(* blocks, log blocks and crashes: an inductive invariant, the safety      *)
(* invariants that follow from it, that the log implements AtomicDisk, and *)
(* that it never runs out of room when every call keeps to its             *)
(* reservation.                                                            *)
(***************************************************************************)
EXTENDS Log, FiniteSetTheorems, TLAPS

-----------------------------------------------------------------------------
(* The inductive invariant, one named part per concern.                    *)

NoDup(h) == \A i, j \in 1 .. Len(h) : h[i] = h[j] => i = j

\* Shape of the two headers and of the loop variable.
HeadInv ==
  /\ NoDup(lh) /\ NoDup(dhead)
  /\ Len(lh) <= NLOG - 1 /\ Len(dhead) <= NLOG - 1
  /\ stage \in {"write_log", "install", "recover"} => tail < Len(lh)
  /\ stage \in {"none", "write_log", "write_head", "done"} => dhead = <<>>
  /\ stage \in {"install", "clear", "recover", "recover_clear"} => dhead = lh
  /\ stage = "done" => lh = <<>>
  /\ stage = "write_head" => Len(lh) > 0

\* Who is inside the log: the counters agree with the processes.
CountInv ==
  /\ outstanding = Cardinality(InOp)
  /\ committing <=> stage \in Commit
  /\ committing => outstanding = 0
  /\ outstanding = 0 /\ stage = "none" => lh = <<>>
  /\ ~Running => /\ InOp = {} /\ leaked = {}
                 /\ \A p \in Procs : pc[p] # "sleep"

\* lh[i] still has to be written home by the running transaction.
Pending(i) ==
  /\ Running /\ stage # "clear"
  /\ stage = "install" => i > tail
PendingBlock(b) == \E i \in 1 .. Len(lh) : lh[i] = b /\ Pending(i)

\* What the buffers hold, and who references them.
BufInv ==
  \A b \in Blocks :
    /\ pin[b] = IF PendingBlock(b) THEN 1 ELSE 0
    /\ PendingBlock(b) => cache[b] # NoBuf
    /\ ~PendingBlock(b) /\ b \notin leaked => cache[b] \in {NoBuf, home[b]}
    /\ b \in leaked => ~InLog(b, lh)
    /\ ~Running => held[b] = NoProc

\* What the log blocks hold.
DataInv ==
  \A i \in 1 .. Len(lh) :
    /\ stage = "write_log" /\ i <= tail => logd[i] = cache[lh[i]]
    /\ stage = "write_head" => logd[i] = cache[lh[i]]
    /\ stage = "install" /\ i > tail => logd[i] = cache[lh[i]]
    /\ stage \in {"install", "recover"} /\ i <= tail => home[lh[i]] = logd[i]
    /\ stage \in {"clear", "recover_clear"} => home[lh[i]] = logd[i]

IInv == TypeOK /\ HeadInv /\ CountInv /\ BufInv /\ DataInv
-----------------------------------------------------------------------------
LEMMA ZeroesInValues == Zeroes \in Values
  BY Zenon, LogAssumption DEF Zeroes

LEMMA InitInv == Init => IInv
  <1> SUFFICES ASSUME Init PROVE IInv
    BY Zenon
  <1> USE DEF Init
  <1>1. TypeOK
    <2>1. home \in [Blocks -> Values] /\ logd \in [LogBlock -> Values]
      BY Zenon, ZeroesInValues
    <2>2. cache \in [Blocks -> Values \cup {NoBuf}]
      BY Zenon
    <2>3. pin \in [Blocks -> Nat] /\ held \in [Blocks -> Procs \cup {NoProc}]
      BY Zenon
    <2>4. /\ lh \in Seq(Blocks) /\ dhead \in Seq(Blocks)
          /\ leaked \in SUBSET Blocks
      OBVIOUS
    <2>5. committing \in BOOLEAN
      BY Zenon
    <2>6. touched \in [Procs -> SUBSET Blocks]
      BY Zenon
    <2>7. pc \in [Procs -> {"idle", "retry", "sleep", "op", "commit"}]
      BY Zenon
    <2> QED
      BY Zenon, <2>1, <2>2, <2>3, <2>4, <2>5, <2>6, <2>7 DEF TypeOK, Recovery, Commit
  <1>2. InOp = {}
    BY Zenon DEF InOp
  <1>3. HeadInv
    BY LogAssumption DEF HeadInv, NoDup
  <1>4. CountInv
    BY Zenon, <1>2, FS_EmptySet DEF CountInv, Running, Recovery, Commit
  <1>5. BufInv
    BY DEF BufInv, PendingBlock, Pending
  <1>6. DataInv
    BY Zenon DEF DataInv
  <1> QED
    BY Zenon, <1>1, <1>3, <1>4, <1>5, <1>6 DEF IInv

(* A process inside a call excludes commit and recovery.                   *)
LEMMA InOpFinite == IsFiniteSet(InOp)
  BY Zenon, LogAssumption, FS_Subset DEF InOp

LEMMA OpExcludesCommit ==
  ASSUME IInv, NEW p \in InOp
  PROVE  stage = "none" /\ outstanding >= 1 /\ ~committing
  <1>1. outstanding # 0 /\ outstanding \in Nat
    BY Zenon, InOpFinite, FS_EmptySet, FS_CardinalityType DEF IInv, CountInv
  <1> QED
    BY <1>1 DEF IInv, CountInv, Running, TypeOK

(* A log_write that does not panic finds some call in progress, whoever    *)
(* calls it.                                                               *)
LEMMA LogWriteInTransaction ==
  ASSUME IInv, ~LogWritePanics
  PROVE  stage = "none" /\ outstanding >= 1 /\ InOp # {}
  <1>1. outstanding >= 1 /\ outstanding \in Nat
    BY DEF LogWritePanics, IInv, TypeOK
  <1>2. outstanding # 0
    BY <1>1
  <1>3. InOp # {}
    BY Zenon, <1>2, FS_EmptySet DEF IInv, CountInv
  <1> QED
    BY Zenon, <1>1, <1>3, OpExcludesCommit

(* Every variable keeps its type.                                          *)
LEMMA TypeStep == IInv /\ [Next]_vars => TypeOK'
  <1> SUFFICES ASSUME IInv, [Next]_vars PROVE TypeOK'
    BY Zenon
  <1> USE DEF IInv, TypeOK, Recovery, Commit, diskVars, bufVars
  <1>1. ASSUME NEW p \in Procs, BeginOp(p) PROVE TypeOK'
    BY <1>1 DEF BeginOp
  <1>2. ASSUME NEW p \in Procs, BeginOpSleep(p) PROVE TypeOK'
    BY Zenon, <1>2 DEF BeginOpSleep
  <1>3. ASSUME NEW p \in Procs, EndOp(p) PROVE TypeOK'
    <2>1. pc' \in [Procs -> {"idle", "retry", "sleep", "op", "commit"}]
      BY <1>3, Zenon DEF EndOp, WakeLog
    <2>2. committing' \in BOOLEAN /\ panicked' \in Procs \cup {NoProc}
      BY <1>3, Zenon DEF EndOp
    <2>3. /\ stage' \in Recovery \cup Commit \cup {"none"}
          /\ tail' \in Nat
          /\ touched' \in [Procs -> SUBSET Blocks]
      BY <1>3 DEF EndOp
    <2>4. outstanding' \in Nat
      BY <1>3, OpExcludesCommit DEF EndOp, InOp
    <2> QED
      BY Zenon, <1>3, <2>1, <2>2, <2>3, <2>4 DEF EndOp
  <1>4. ASSUME NEW p \in Procs, FinishCommit(p) PROVE TypeOK'
    BY <1>4, Zenon DEF FinishCommit, WakeLog
  <1>5. ASSUME NEW p \in Procs, NEW b \in Blocks, BRead(p, b) PROVE TypeOK'
    BY Zenon, <1>5 DEF BRead, Cached
  <1>6. ASSUME NEW p \in Procs, NEW b \in Blocks, NEW v \in Values, LogWrite(p, b, v) PROVE TypeOK'
    <2>1. cache' \in [Blocks -> Values \cup {NoBuf}]
      BY Zenon, <1>6 DEF LogWrite
    <2>2. leaked' \in SUBSET Blocks /\ panicked' \in Procs \cup {NoProc}
      BY Zenon, <1>6 DEF LogWrite
    <2>3. lh' \in Seq(Blocks)
      <3>1. lh \in Seq(Blocks) /\ Append(lh, b) \in Seq(Blocks)
        OBVIOUS
      <3>2. lh' = lh \/ lh' = Append(lh, b)
        BY Zenon, <1>6 DEF LogWrite
      <3> QED
        BY <3>1, <3>2, Zenon
    <2>4. pin' \in [Blocks -> Nat]
      <3>1. pin \in [Blocks -> Nat] /\ pin[b] + 1 \in Nat
        OBVIOUS
      <3>2. pin' = pin \/ pin' = [pin EXCEPT ![b] = pin[b] + 1]
        BY <1>6, Zenon DEF LogWrite
      <3> QED
        BY ONLY Zenon, <3>1, <3>2, b \in Blocks
    <2>5. touched' \in [Procs -> SUBSET Blocks]
      <3>1. touched' = touched \/ touched' = [touched EXCEPT ![p] = touched[p] \cup {b}]
        BY Zenon, <1>6 DEF LogWrite
      <3>2. touched \in [Procs -> SUBSET Blocks] /\ touched[p] \cup {b} \in SUBSET Blocks
        BY Zenon
      <3> QED
        BY ONLY Zenon, <3>1, <3>2, p \in Procs
    <2> QED
      BY Zenon, <1>6, <2>1, <2>2, <2>3, <2>4, <2>5 DEF LogWrite
  <1>7. ASSUME NEW p \in Procs, NEW b \in Blocks, BRelse(p, b) PROVE TypeOK'
    BY Zenon, <1>7 DEF BRelse
  <1>8. ASSUME NEW p \in Procs, NEW b \in Blocks, NEW v \in Values, FailedWrite(p, b, v) PROVE TypeOK'
    BY <1>8 DEF FailedWrite
  <1>9. ASSUME NEW b \in Blocks, Evict(b) PROVE TypeOK'
    BY Zenon, <1>9 DEF Evict
  <1>10. CASE WriteLog
    <2>1. lh[tail + 1] \in Blocks
      BY <1>10 DEF WriteLog, HeadInv
    <2>2. Cached(lh[tail + 1]) \in Values
      BY Zenon, <2>1 DEF Cached
    <2>3. logd' \in [LogBlock -> Values]
      BY <1>10, <2>2, Zenon DEF WriteLog
    <2>4. cache' \in [Blocks -> Values \cup {NoBuf}]
      BY <1>10, <2>2, Zenon DEF WriteLog
    <2> QED
      BY <1>10, <2>3, <2>4 DEF WriteLog
  <1>11. CASE WriteHead
    BY Zenon, <1>11 DEF WriteHead
  <1>12. CASE InstallTrans
    <2> DEFINE b == lh[tail + 1]
    <2>1. b \in Blocks /\ tail + 1 \in 1 .. Len(lh) /\ tail + 1 \in LogBlock
      BY <1>12, LogAssumption DEF InstallTrans, HeadInv, LogBlock
    <2>2. PendingBlock(b)
      BY <1>12, <2>1 DEF InstallTrans, PendingBlock, Pending, Running
    <2>3. pin[b] = 1
      BY Zenon, <2>1, <2>2 DEF BufInv
    <2>4. pin' \in [Blocks -> Nat]
      BY <1>12, <2>1, <2>3 DEF InstallTrans, InstallOne
    <2> QED
      BY <1>12, <2>1, <2>4 DEF InstallTrans, InstallOne
  <1>13. CASE ClearLog
    BY <1>13 DEF ClearLog
  <1>14. CASE Crash
    <2>1. cache' \in [Blocks -> Values \cup {NoBuf}]
      BY Zenon, <1>14 DEF Crash
    <2>2. pin' \in [Blocks -> Nat]
      BY Zenon, <1>14 DEF Crash
    <2>3. held' \in [Blocks -> Procs \cup {NoProc}]
      BY Zenon, <1>14 DEF Crash
    <2>4. lh' \in Seq(Blocks) /\ leaked' \in SUBSET Blocks
      BY <1>14 DEF Crash
    <2>5. committing' \in BOOLEAN
      BY <1>14, Zenon DEF Crash
    <2>6. touched' \in [Procs -> SUBSET Blocks]
      BY Zenon, <1>14 DEF Crash
    <2>7. pc' \in [Procs -> {"idle", "retry", "sleep", "op", "commit"}]
      BY Zenon, <1>14 DEF Crash
    <2> QED
      BY <1>14, <2>1, <2>2, <2>3, <2>4, <2>5, <2>6, <2>7 DEF Crash
  <1>15. CASE ReadHead
    BY Zenon, <1>15 DEF ReadHead
  <1>16. CASE RecoverInstall
    BY <1>16, LogAssumption DEF RecoverInstall, InstallOne, LogBlock, HeadInv
  <1>17. CASE RecoverClear
    BY <1>17 DEF RecoverClear
  <1>18. CASE UNCHANGED vars
    BY Zenon, <1>18 DEF vars
  <1> QED
    BY <1>1, <1>2, <1>3, <1>4, <1>5, <1>6, <1>7, <1>8, <1>9, <1>10, <1>11, <1>12, <1>13,
       <1>14, <1>15, <1>16, <1>17, <1>18, Zenon
    DEF Next

-----------------------------------------------------------------------------
(* The headers keep their shape.                                           *)
LEMMA HeadStep == IInv /\ [Next]_vars => HeadInv'
  <1> SUFFICES ASSUME IInv, [Next]_vars PROVE HeadInv'
    BY Zenon
  <1> USE DEF IInv, TypeOK, HeadInv, NoDup, diskVars, bufVars
  <1>1. ASSUME NEW p \in Procs, BeginOp(p) PROVE HeadInv'
    BY <1>1 DEF BeginOp
  <1>2. ASSUME NEW p \in Procs, BeginOpSleep(p) PROVE HeadInv'
    BY <1>2 DEF BeginOpSleep
  <1>3. ASSUME NEW p \in Procs, EndOp(p) PROVE HeadInv'
    <2>1. stage = "none"
      BY Zenon, <1>3, OpExcludesCommit DEF EndOp, InOp
    <2>2. lh # <<>> => Len(lh) > 0
      OBVIOUS
    <2> QED
      BY <1>3, <2>1, <2>2 DEF EndOp
  <1>4. ASSUME NEW p \in Procs, FinishCommit(p) PROVE HeadInv'
    BY <1>4 DEF FinishCommit
  <1>5. ASSUME NEW p \in Procs, NEW b \in Blocks, BRead(p, b) PROVE HeadInv'
    BY <1>5 DEF BRead
  <1>6. ASSUME NEW p \in Procs, NEW b \in Blocks, NEW v \in Values, LogWrite(p, b, v) PROVE HeadInv'
    <2>1. ~LogWritePanics => stage = "none"
      BY Zenon, LogWriteInTransaction
    <2>2. CASE lh' = lh
      BY <1>6, <2>2 DEF LogWrite
    <2>3. CASE lh' = Append(lh, b) /\ ~InLog(b, lh) /\ ~LogWritePanics
      <3>1. Len(lh') = Len(lh) + 1 /\ Len(lh') <= NLOG - 1
        BY <2>3, LogAssumption DEF LogWritePanics
      <3>2. NoDup(lh')
        BY <2>3, <3>1 DEF InLog
      <3> QED
        BY <1>6, <2>1, <2>3, <3>1, <3>2 DEF LogWrite
    <2> QED
      BY Zenon, <1>6, <2>2, <2>3 DEF LogWrite
  <1>7. ASSUME NEW p \in Procs, NEW b \in Blocks, BRelse(p, b) PROVE HeadInv'
    BY <1>7 DEF BRelse
  <1>8. ASSUME NEW p \in Procs, NEW b \in Blocks, NEW v \in Values, FailedWrite(p, b, v) PROVE HeadInv'
    BY <1>8 DEF FailedWrite
  <1>9. ASSUME NEW b \in Blocks, Evict(b) PROVE HeadInv'
    BY <1>9 DEF Evict
  <1>10. CASE WriteLog
    BY <1>10 DEF WriteLog
  <1>11. CASE WriteHead
    BY <1>11 DEF WriteHead
  <1>12. CASE InstallTrans
    BY <1>12 DEF InstallTrans, InstallOne
  <1>13. CASE ClearLog
    BY <1>13, LogAssumption DEF ClearLog
  <1>14. CASE Crash
    BY <1>14, LogAssumption DEF Crash
  <1>15. CASE ReadHead
    BY <1>15 DEF ReadHead
  <1>16. CASE RecoverInstall
    BY <1>16 DEF RecoverInstall, InstallOne
  <1>17. CASE RecoverClear
    BY <1>17, LogAssumption DEF RecoverClear
  <1>18. CASE UNCHANGED vars
    BY <1>18 DEF vars
  <1> QED
    BY <1>1, <1>2, <1>3, <1>4, <1>5, <1>6, <1>7, <1>8, <1>9, <1>10, <1>11, <1>12, <1>13,
       <1>14, <1>15, <1>16, <1>17, <1>18, Zenon
    DEF Next

(* The counters follow the processes.                                      *)
LEMMA CountStep == IInv /\ [Next]_vars => CountInv'
  <1> SUFFICES ASSUME IInv, [Next]_vars PROVE CountInv'
    BY Zenon
  <1> USE DEF IInv, TypeOK, HeadInv, CountInv, Running, Recovery, Commit, diskVars, bufVars
  <1>0. pc' = pc => InOp' = InOp
    BY Zenon DEF InOp
  <1>1. ASSUME NEW p \in Procs, BeginOp(p) PROVE CountInv'
    <2>1. InOp' = InOp \cup {p} /\ p \notin InOp
      BY <1>1 DEF BeginOp, InOp
    <2>2. outstanding' = Cardinality(InOp')
      BY <1>1, <2>1, InOpFinite, FS_AddElement, Zenon DEF BeginOp
    <2>3. stage = "none" /\ ~committing
      BY Zenon, <1>1 DEF BeginOp, LogBusy
    <2> QED
      BY <1>1, <2>2, <2>3, InOpFinite, FS_CardinalityType DEF BeginOp
  <1>2. ASSUME NEW p \in Procs, BeginOpSleep(p) PROVE CountInv'
    <2>1. InOp' = InOp
      BY Zenon, <1>2 DEF BeginOpSleep, InOp
    <2> QED
      BY Zenon, <1>2, <2>1 DEF BeginOpSleep
  <1>3. ASSUME NEW p \in Procs, EndOp(p) PROVE CountInv'
    <2>1. stage = "none" /\ outstanding >= 1 /\ ~committing
      BY Zenon, <1>3, OpExcludesCommit DEF EndOp, InOp
    <2>2. InOp' = InOp \ {p} /\ p \in InOp
      BY Zenon, <1>3, <2>1 DEF EndOp, InOp, WakeLog
    <2>3. outstanding' = Cardinality(InOp')
      BY <1>3, <2>2, InOpFinite, FS_RemoveElement, Zenon DEF EndOp
    <2> QED
      BY <1>3, <2>1, <2>3 DEF EndOp
  <1>4. ASSUME NEW p \in Procs, FinishCommit(p) PROVE CountInv'
    <2>1. InOp' = InOp
      BY Zenon, <1>4 DEF FinishCommit, InOp, WakeLog
    <2> QED
      BY Zenon, <1>4, <2>1 DEF FinishCommit
  <1>5. ASSUME NEW p \in Procs, NEW b \in Blocks, BRead(p, b) PROVE CountInv'
    BY Zenon, <1>5, <1>0 DEF BRead
  <1>6. ASSUME NEW p \in Procs, NEW b \in Blocks, NEW v \in Values, LogWrite(p, b, v) PROVE CountInv'
    <2>1. InOp' = InOp
      BY Zenon, <1>6 DEF LogWrite, InOp
    <2>2. CASE LogWritePanics
      BY Zenon, <1>6, <2>1, <2>2 DEF LogWrite
    <2>3. CASE ~LogWritePanics
      <3>1. stage = "none" /\ outstanding >= 1
        BY Zenon, <2>3, LogWriteInTransaction
      <3> QED
        BY <1>6, <2>1, <3>1 DEF LogWrite
    <2> QED
      BY Zenon, <2>2, <2>3
  <1>7. ASSUME NEW p \in Procs, NEW b \in Blocks, BRelse(p, b) PROVE CountInv'
    BY Zenon, <1>7, <1>0 DEF BRelse
  <1>8. ASSUME NEW p \in Procs, NEW b \in Blocks, NEW v \in Values, FailedWrite(p, b, v) PROVE CountInv'
    <2>1. Running
      BY Zenon, <1>8 DEF FailedWrite, InOp
    <2> QED
      BY Zenon, <1>8, <1>0, <2>1 DEF FailedWrite
  <1>9. ASSUME NEW b \in Blocks, Evict(b) PROVE CountInv'
    BY Zenon, <1>9, <1>0 DEF Evict
  <1>10. CASE WriteLog
    BY Zenon, <1>10, <1>0 DEF WriteLog
  <1>11. CASE WriteHead
    BY Zenon, <1>11, <1>0 DEF WriteHead
  <1>12. CASE InstallTrans
    BY Zenon, <1>12, <1>0 DEF InstallTrans, InstallOne
  <1>13. CASE ClearLog
    BY Zenon, <1>13, <1>0 DEF ClearLog
  <1>14. CASE Crash
    <2>1. InOp' = {}
      BY Zenon, <1>14 DEF Crash, InOp
    <2> QED
      BY Zenon, <1>14, <2>1, FS_EmptySet DEF Crash
  <1>15. CASE ReadHead
    BY Zenon, <1>15, <1>0 DEF ReadHead
  <1>16. CASE RecoverInstall
    BY Zenon, <1>16, <1>0 DEF RecoverInstall, InstallOne
  <1>17. CASE RecoverClear
    BY Zenon, <1>17, <1>0 DEF RecoverClear
  <1>18. CASE UNCHANGED vars
    BY Zenon, <1>18, <1>0 DEF vars
  <1> QED
    BY <1>1, <1>2, <1>3, <1>4, <1>5, <1>6, <1>7, <1>8, <1>9, <1>10, <1>11, <1>12, <1>13,
       <1>14, <1>15, <1>16, <1>17, <1>18, Zenon
    DEF Next

(* The log blocks hold what the transaction will install.                  *)
LEMMA DataStep == IInv /\ [Next]_vars => DataInv'
  <1> SUFFICES ASSUME IInv, [Next]_vars PROVE DataInv'
    BY Zenon
  <1> USE DEF IInv, TypeOK, DataInv, diskVars, bufVars
  <1>1. ASSUME NEW p \in Procs, BeginOp(p) PROVE DataInv'
    BY Zenon, <1>1 DEF BeginOp
  <1>2. ASSUME NEW p \in Procs, BeginOpSleep(p) PROVE DataInv'
    BY Zenon, <1>2 DEF BeginOpSleep
  <1>3. ASSUME NEW p \in Procs, EndOp(p) PROVE DataInv'
    <2>1. stage = "none" /\ ~committing
      BY Zenon, <1>3, OpExcludesCommit DEF EndOp, InOp
    <2> QED
      BY <1>3, <2>1 DEF EndOp
  <1>4. ASSUME NEW p \in Procs, FinishCommit(p) PROVE DataInv'
    BY Zenon, <1>4 DEF FinishCommit
  <1>5. ASSUME NEW p \in Procs, NEW b \in Blocks, BRead(p, b) PROVE DataInv'
    <2>1. \A i \in 1 .. Len(lh) : Pending(i) => cache[lh[i]] # NoBuf /\ pin[lh[i]] = 1
      BY DEF BufInv, PendingBlock
    <2> QED
      BY <1>5, <2>1 DEF BRead, Cached, Pending, Running, Recovery
  <1>6. ASSUME NEW p \in Procs, NEW b \in Blocks, NEW v \in Values, LogWrite(p, b, v) PROVE DataInv'
    <2>1. CASE LogWritePanics
      BY Zenon, <1>6, <2>1 DEF LogWrite
    <2>2. CASE ~LogWritePanics
      <3>1. stage = "none"
        BY Zenon, <2>2, LogWriteInTransaction
      <3> QED
        BY Zenon, <1>6, <3>1 DEF LogWrite
    <2> QED
      BY Zenon, <2>1, <2>2
  <1>7. ASSUME NEW p \in Procs, NEW b \in Blocks, BRelse(p, b) PROVE DataInv'
    BY Zenon, <1>7 DEF BRelse
  <1>8. ASSUME NEW p \in Procs, NEW b \in Blocks, NEW v \in Values, FailedWrite(p, b, v) PROVE DataInv'
    <2>1. stage = "none"
      BY Zenon, <1>8, OpExcludesCommit DEF FailedWrite, InOp
    <2> QED
      BY Zenon, <1>8, <2>1 DEF FailedWrite
  <1>9. ASSUME NEW b \in Blocks, Evict(b) PROVE DataInv'
    <2>1. \A i \in 1 .. Len(lh) : Pending(i) => cache[lh[i]] # NoBuf /\ pin[lh[i]] = 1
      BY DEF BufInv, PendingBlock
    <2> QED
      BY <1>9, <2>1 DEF Evict, Pending, Running, Recovery
  <1>10. CASE WriteLog
    <2>1. \A i \in 1 .. Len(lh) : Pending(i) => cache[lh[i]] # NoBuf /\ pin[lh[i]] = 1
      BY DEF BufInv, PendingBlock
    <2>2. tail + 1 \in 1 .. Len(lh) /\ Pending(tail + 1)
      BY <1>10 DEF WriteLog, HeadInv, Pending, Running, Recovery
    <2>3. Cached(lh[tail + 1]) = cache[lh[tail + 1]]
      BY Zenon, <2>1, <2>2 DEF Cached
    <2>4. cache' = cache
      BY Zenon, <1>10, <2>2, <2>3 DEF WriteLog
    <2>5. logd' = [logd EXCEPT ![tail + 1] = cache[lh[tail + 1]]]
      BY Zenon, <1>10, <2>3 DEF WriteLog
    <2> QED
      BY <1>10, <2>2, <2>4, <2>5, LogAssumption DEF WriteLog, HeadInv, LogBlock
  <1>11. CASE WriteHead
    BY <1>11 DEF WriteHead
  <1>12. CASE InstallTrans
    <2>1. lh[tail + 1] \in Blocks /\ tail + 1 \in 1 .. Len(lh)
      BY <1>12 DEF InstallTrans, HeadInv
    <2>2. \A i \in 1 .. Len(lh) : i # tail + 1 => lh[i] # lh[tail + 1]
      BY Zenon, <2>1 DEF HeadInv, NoDup
    <2> QED
      BY SMTT(60), <1>12, <2>1, <2>2 DEF InstallTrans, InstallOne
  <1>13. CASE ClearLog
    BY Zenon, <1>13 DEF ClearLog
  <1>14. CASE Crash
    BY Zenon, <1>14 DEF Crash
  <1>15. CASE ReadHead
    BY <1>15 DEF ReadHead
  <1>16. CASE RecoverInstall
    <2>1. lh[tail + 1] \in Blocks /\ tail + 1 \in 1 .. Len(lh)
      BY <1>16 DEF RecoverInstall, HeadInv
    <2>2. \A i \in 1 .. Len(lh) : i # tail + 1 => lh[i] # lh[tail + 1]
      BY Zenon, <2>1 DEF HeadInv, NoDup
    <2> QED
      BY SMTT(60), <1>16, <2>1, <2>2 DEF RecoverInstall, InstallOne
  <1>17. CASE RecoverClear
    BY Zenon, <1>17 DEF RecoverClear
  <1>18. CASE UNCHANGED vars
    BY Zenon, <1>18 DEF vars
  <1> QED
    BY <1>1, <1>2, <1>3, <1>4, <1>5, <1>6, <1>7, <1>8, <1>9, <1>10, <1>11, <1>12, <1>13,
       <1>14, <1>15, <1>16, <1>17, <1>18, Zenon
    DEF Next

(* Buffers that differ from the disk are logged and pinned, or leaked.     *)
LEMMA BufStep == IInv /\ [Next]_vars => BufInv'
  <1> SUFFICES ASSUME IInv, [Next]_vars PROVE BufInv'
    BY Zenon
  <1> USE DEF IInv, TypeOK, BufInv, Running, Recovery, diskVars, bufVars
  <1>1. ASSUME NEW p \in Procs, BeginOp(p) PROVE BufInv'
    <2>1. \A c \in Blocks : PendingBlock(c)' <=> PendingBlock(c)
      BY Zenon, <1>1 DEF BeginOp, PendingBlock, Pending
    <2> QED
      BY Zenon, <1>1, <2>1 DEF BeginOp
  <1>2. ASSUME NEW p \in Procs, BeginOpSleep(p) PROVE BufInv'
    <2>1. \A c \in Blocks : PendingBlock(c)' <=> PendingBlock(c)
      BY Zenon, <1>2 DEF BeginOpSleep, PendingBlock, Pending
    <2> QED
      BY Zenon, <1>2, <2>1 DEF BeginOpSleep
  <1>3. ASSUME NEW p \in Procs, EndOp(p) PROVE BufInv'
    <2>1. stage = "none" /\ ~committing
      BY Zenon, <1>3, OpExcludesCommit DEF EndOp, InOp
    <2>2. stage' \in {"none", "write_log", "done"} /\ (stage' = "done" => lh = <<>>)
      BY Zenon, <1>3, <2>1 DEF EndOp
    <2>3. \A c \in Blocks : PendingBlock(c)' <=> PendingBlock(c)
      BY Zenon, <1>3, <2>1, <2>2 DEF EndOp, PendingBlock, Pending
    <2> QED
      BY Zenon, <1>3, <2>2, <2>3 DEF EndOp
  <1>4. ASSUME NEW p \in Procs, FinishCommit(p) PROVE BufInv'
    <2>1. \A c \in Blocks : PendingBlock(c)' <=> PendingBlock(c)
      BY Zenon, <1>4 DEF FinishCommit, PendingBlock, Pending
    <2> QED
      BY Zenon, <1>4, <2>1 DEF FinishCommit
  <1>5. ASSUME NEW p \in Procs, NEW b \in Blocks, BRead(p, b) PROVE BufInv'
    <2>1. \A c \in Blocks : PendingBlock(c)' <=> PendingBlock(c)
      BY Zenon, <1>5 DEF BRead, PendingBlock, Pending
    <2> QED
      BY Zenon, <1>5, <2>1, LogAssumption DEF BRead, Cached
  <1>6. ASSUME NEW p \in Procs, NEW b \in Blocks, NEW v \in Values, LogWrite(p, b, v) PROVE BufInv'
    <2>1. ~LogWritePanics => stage = "none"
      BY Zenon, LogWriteInTransaction
    <2>2. CASE LogWritePanics
      <3>1. \A c \in Blocks : PendingBlock(c)' <=> PendingBlock(c)
        BY Zenon, <1>6, <2>2 DEF LogWrite, PendingBlock, Pending
      <3> QED
        BY Zenon, <1>6, <2>2, <3>1 DEF LogWrite
    <2>3. CASE ~LogWritePanics /\ lh' = lh /\ pin' = pin /\ InLog(b, lh)
      <3>1. \A c \in Blocks : PendingBlock(c)' <=> PendingBlock(c)
        BY Zenon, <1>6, <2>3 DEF LogWrite, PendingBlock, Pending
      <3>2. PendingBlock(b)
        BY Zenon, <2>1, <2>3 DEF InLog, PendingBlock, Pending
      <3>3. cache' = [cache EXCEPT ![b] = v] /\ leaked' = leaked \ {b} /\ v # NoBuf
        BY Zenon, <1>6, <2>3, LogAssumption DEF LogWrite
      <3> QED
        BY Zenon, <1>6, <2>3, <3>1, <3>2, <3>3 DEF LogWrite
    <2>4. CASE /\ ~LogWritePanics
               /\ lh' = Append(lh, b) /\ pin' = [pin EXCEPT ![b] = @ + 1]
               /\ ~InLog(b, lh)
      <3>1. \A c \in Blocks : PendingBlock(c)' <=> PendingBlock(c) \/ c = b
        <4>1. /\ Len(lh') = Len(lh) + 1 /\ lh'[Len(lh) + 1] = b
              /\ \A i \in 1 .. Len(lh) : lh'[i] = lh[i]
          BY <2>4
        <4>2. /\ \A c \in Blocks : PendingBlock(c) <=> \E i \in 1 .. Len(lh) : lh[i] = c
              /\ \A c \in Blocks : PendingBlock(c)' <=> \E i \in 1 .. Len(lh') : lh'[i] = c
          BY <1>6, <2>1, <2>4, Zenon DEF LogWrite, PendingBlock, Pending
        <4>3. Len(lh) \in Nat /\ Len(lh) + 1 \in 1 .. Len(lh')
          BY <4>1
        <4>4. \A i \in 1 .. Len(lh') : i \in 1 .. Len(lh) \/ i = Len(lh) + 1
          BY <4>1, <4>3
        <4>5. \A i \in 1 .. Len(lh) : i \in 1 .. Len(lh')
          BY <4>1, <4>3
        <4>6. ASSUME NEW c \in Blocks, PendingBlock(c)' PROVE PendingBlock(c) \/ c = b
          <5>1. PICK i \in 1 .. Len(lh') : lh'[i] = c
            BY Zenon, <4>2, <4>6
          <5> QED
            BY <5>1, <4>1, <4>2, <4>4, Zenon
        <4>7. ASSUME NEW c \in Blocks, PendingBlock(c) \/ c = b PROVE PendingBlock(c)'
          <5>1. CASE PendingBlock(c)
            <6>1. PICK i \in 1 .. Len(lh) : lh[i] = c
              BY <4>2, <5>1, Zenon
            <6>2. i \in 1 .. Len(lh') /\ lh'[i] = c
              BY Zenon, <6>1, <4>1, <4>5
            <6> QED
              BY Zenon, <6>2, <4>2
          <5>2. CASE c = b
            BY <5>2, <4>1, <4>2, <4>3, Zenon
          <5> QED
            BY Zenon, <4>7, <5>1, <5>2
        <4> QED
          BY Zenon, <4>6, <4>7
      <3>2. ~PendingBlock(b)
        BY Zenon, <2>4 DEF InLog, PendingBlock
      <3>3. /\ cache' = [cache EXCEPT ![b] = v] /\ leaked' = leaked \ {b} /\ v # NoBuf
            /\ home' = home /\ held' = held /\ stage' = stage
        BY Zenon, <1>6, <2>4, LogAssumption DEF LogWrite
      <3>4. \A c \in Blocks : InLog(c, lh') => PendingBlock(c)'
        BY Zenon, <2>1, <2>4, <3>3 DEF InLog, PendingBlock, Pending
      <3>5. \A c \in Blocks : c \in leaked' => ~InLog(c, lh')
        BY Zenon, <3>1, <3>3, <3>4 DEF PendingBlock, InLog
      <3>6. \A c \in Blocks : pin'[c] = IF PendingBlock(c)' THEN 1 ELSE 0
        BY <2>4, <3>1, <3>2
      <3>7. \A c \in Blocks : PendingBlock(c)' => cache'[c] # NoBuf
        BY Zenon, <3>1, <3>3
      <3>8. \A c \in Blocks :
              ~PendingBlock(c)' /\ c \notin leaked' => cache'[c] \in {NoBuf, home'[c]}
        BY Zenon, <3>1, <3>3
      <3> QED
        BY Zenon, <2>1, <2>4, <3>3, <3>5, <3>6, <3>7, <3>8
    <2> QED
      BY Zenon, <1>6, <2>2, <2>3, <2>4 DEF LogWrite
  <1>7. ASSUME NEW p \in Procs, NEW b \in Blocks, BRelse(p, b) PROVE BufInv'
    <2>1. \A c \in Blocks : PendingBlock(c)' <=> PendingBlock(c)
      BY Zenon, <1>7 DEF BRelse, PendingBlock, Pending
    <2> QED
      BY Zenon, <1>7, <2>1 DEF BRelse
  <1>8. ASSUME NEW p \in Procs, NEW b \in Blocks, NEW v \in Values, FailedWrite(p, b, v) PROVE BufInv'
    <2>1. \A c \in Blocks : PendingBlock(c)' <=> PendingBlock(c)
      BY Zenon, <1>8 DEF FailedWrite, PendingBlock, Pending
    <2>2. stage = "none" /\ Running /\ Running'
      BY Zenon, <1>8, OpExcludesCommit DEF FailedWrite, InOp
    <2>3. InLog(b, lh) => PendingBlock(b)
      BY Zenon, <2>2 DEF InLog, PendingBlock, Pending
    <2> QED
      BY Zenon, <1>8, <2>1, <2>2, <2>3, LogAssumption DEF FailedWrite
  <1>9. ASSUME NEW b \in Blocks, Evict(b) PROVE BufInv'
    <2>1. \A c \in Blocks : PendingBlock(c)' <=> PendingBlock(c)
      BY Zenon, <1>9 DEF Evict, PendingBlock, Pending
    <2>2. ~PendingBlock(b)
      BY <1>9 DEF Evict
    <2> QED
      BY Zenon, <1>9, <2>1, <2>2 DEF Evict
  <1>10. CASE WriteLog
    <2>1. \A c \in Blocks : PendingBlock(c)' <=> PendingBlock(c)
      BY Zenon, <1>10 DEF WriteLog, PendingBlock, Pending
    <2>2. lh[tail + 1] \in Blocks /\ PendingBlock(lh[tail + 1])
      BY <1>10 DEF WriteLog, HeadInv, PendingBlock, Pending
    <2>3. cache' = cache
      BY Zenon, <1>10, <2>2 DEF WriteLog, Cached
    <2> QED
      BY Zenon, <1>10, <2>1, <2>3 DEF WriteLog
  <1>11. CASE WriteHead
    <2>1. \A c \in Blocks : PendingBlock(c)' <=> PendingBlock(c)
      BY <1>11 DEF WriteHead, PendingBlock, Pending
    <2> QED
      BY Zenon, <1>11, <2>1 DEF WriteHead
  <1>12. CASE InstallTrans
    <2> DEFINE d == lh[tail + 1]
    <2>1. d \in Blocks /\ tail + 1 \in 1 .. Len(lh)
      BY <1>12 DEF InstallTrans, HeadInv
    <2>2. \A i \in 1 .. Len(lh) : i # tail + 1 => lh[i] # d
      BY Zenon, <2>1 DEF HeadInv, NoDup
    <2>3. \A c \in Blocks : PendingBlock(c)' <=> PendingBlock(c) /\ c # d
      BY <1>12, <2>1, <2>2 DEF InstallTrans, InstallOne, PendingBlock, Pending
    <2>4. PendingBlock(d)
      BY <1>12, <2>1 DEF InstallTrans, PendingBlock, Pending
    <2>5. d \notin leaked
      BY Zenon, <2>1 DEF InLog
    <2>6. pin' = [pin EXCEPT ![d] = @ - 1] /\ held' = held
      BY Zenon, <1>12 DEF InstallTrans, InstallOne
    <2>7. /\ home' = [home EXCEPT ![d] = logd[tail + 1]]
          /\ cache' = [cache EXCEPT ![d] = logd[tail + 1]]
      BY Zenon, <1>12 DEF InstallTrans, InstallOne
    <2>8. logd[tail + 1] # NoBuf
      BY <2>1, LogAssumption DEF HeadInv, LogBlock
    <2> HIDE DEF d
    <2> QED
      BY <1>12, <2>1, <2>3, <2>4, <2>5, <2>6, <2>7 DEF InstallTrans
  <1>13. CASE ClearLog
    <2>1. \A c \in Blocks : ~PendingBlock(c)' /\ ~PendingBlock(c)
      BY <1>13 DEF ClearLog, PendingBlock, Pending
    <2>2. \A c \in Blocks : ~InLog(c, lh')
      BY <1>13 DEF ClearLog, InLog
    <2> QED
      BY Zenon, <1>13, <2>1, <2>2 DEF ClearLog
  <1>14. CASE Crash
    <2>1. \A c \in Blocks : ~PendingBlock(c)'
      BY Zenon, <1>14 DEF Crash, PendingBlock, Pending
    <2> QED
      BY Zenon, <1>14, <2>1 DEF Crash
  <1>15. CASE ReadHead
    <2>1. \A c \in Blocks : ~PendingBlock(c)' /\ ~PendingBlock(c)
      BY Zenon, <1>15 DEF ReadHead, PendingBlock, Pending
    <2>2. leaked = {}
      BY Zenon, <1>15 DEF ReadHead, CountInv
    <2> QED
      BY Zenon, <1>15, <2>1, <2>2 DEF ReadHead
  <1>16. CASE RecoverInstall
    <2> DEFINE d == lh[tail + 1]
    <2>1. d \in Blocks
      BY <1>16 DEF RecoverInstall, HeadInv
    <2>2. \A c \in Blocks : ~PendingBlock(c)' /\ ~PendingBlock(c)
      BY Zenon, <1>16 DEF RecoverInstall, InstallOne, PendingBlock, Pending
    <2>3. /\ home' = [home EXCEPT ![d] = logd[tail + 1]]
          /\ cache' = [cache EXCEPT ![d] = logd[tail + 1]]
          /\ pin' = pin
      BY Zenon, <1>16 DEF RecoverInstall, InstallOne
    <2>4. leaked = {}
      BY Zenon, <1>16 DEF RecoverInstall, CountInv
    <2> HIDE DEF d
    <2> QED
      BY Zenon, <1>16, <2>1, <2>2, <2>3, <2>4 DEF RecoverInstall
  <1>17. CASE RecoverClear
    <2>1. \A c \in Blocks : ~PendingBlock(c)' /\ ~PendingBlock(c)
      BY <1>17 DEF RecoverClear, PendingBlock, Pending
    <2>2. \A c \in Blocks : ~InLog(c, lh')
      BY <1>17 DEF RecoverClear, InLog
    <2> QED
      BY Zenon, <1>17, <2>1, <2>2 DEF RecoverClear
  <1>18. CASE UNCHANGED vars
    <2>1. \A c \in Blocks : PendingBlock(c)' <=> PendingBlock(c)
      BY Zenon, <1>18 DEF vars, PendingBlock, Pending
    <2> QED
      BY Zenon, <1>18, <2>1 DEF vars
  <1> QED
    BY <1>1, <1>2, <1>3, <1>4, <1>5, <1>6, <1>7, <1>8, <1>9, <1>10, <1>11, <1>12, <1>13,
       <1>14, <1>15, <1>16, <1>17, <1>18, Zenon
    DEF Next

(* The inductive invariant holds in every reachable state.                 *)
THEOREM Invariance == Spec => []IInv
  <1>1. Init => IInv
    BY Zenon, InitInv
  <1>2. IInv /\ [Next]_vars => IInv'
    BY Zenon, TypeStep, HeadStep, CountStep, BufStep, DataStep DEF IInv
  <1> QED
    BY <1>1, <1>2, PTL DEF Spec

-----------------------------------------------------------------------------
(* The buffer cache never recycles a buffer that holds the only copy of a  *)
(* logged block: log_write pins it until install_trans has written it      *)
(* home.  A buffer that differs from the disk and is not pinned was left   *)
(* so by a failed writei(), and is in no transaction.                      *)
THEOREM DirtyBuffersArePinned == Spec => []DirtyIsPinned
  <1>1. IInv => DirtyIsPinned
    <2> SUFFICES ASSUME IInv, NEW b \in Blocks
                 PROVE  /\ cache[b] \notin {NoBuf, home[b]} => pin[b] > 0 \/ b \in leaked
                        /\ b \in leaked => ~InLog(b, lh) /\ pin[b] = 0
      BY Zenon DEF DirtyIsPinned
    <2>1. PendingBlock(b) => InLog(b, lh)
      BY Zenon DEF PendingBlock, InLog
    <2> QED
      BY <2>1 DEF IInv, BufInv
  <1> QED
    BY <1>1, Invariance, PTL

(* Every bpin of log_write is matched by install_trans's bunpin.           *)
THEOREM NoPinLeaks == Spec => []PinsBalance
  <1>1. IInv => PinsBalance
    BY DEF IInv, BufInv, PinsBalance, PendingBlock
  <1> QED
    BY <1>1, Invariance, PTL

(* Every variable of the model keeps its type: the counters log.outstanding*)
(* and b->refcnt never go below zero.                                      *)
THEOREM TypeCorrect == Spec => []TypeOK
  BY Invariance, PTL DEF IInv

(* A process sleeps in begin_op only while a commit runs or a call is in   *)
(* progress, either of which ends with wakeup(&log): once both are over    *)
(* the log is empty and admits a call.                                     *)
LEMMA SleeperStep ==
  IInv /\ SleeperHasWaker /\ [Next]_vars => SleeperHasWaker'
  <1> SUFFICES ASSUME IInv, SleeperHasWaker, [Next]_vars PROVE SleeperHasWaker'
    BY Zenon
  <1> USE DEF SleeperHasWaker, IInv, TypeOK
  <1>1. ASSUME NEW p \in Procs, BeginOp(p) PROVE SleeperHasWaker'
    BY <1>1 DEF BeginOp
  <1>2. ASSUME NEW p \in Procs, BeginOpSleep(p) PROVE SleeperHasWaker'
    <2>1. CASE ~committing /\ outstanding = 0
      <3>1. lh = <<>>
        BY Zenon, <1>2, <2>1 DEF BeginOpSleep, Running, CountInv
      <3>2. ~LogBusy
        BY <2>1, <3>1, LogAssumption DEF LogBusy
      <3> QED
        BY Zenon, <1>2, <3>2 DEF BeginOpSleep
    <2>2. CASE committing \/ outstanding > 0
      BY Zenon, <1>2, <2>2 DEF BeginOpSleep
    <2> QED
      BY <2>1, <2>2
  <1>3. ASSUME NEW p \in Procs, EndOp(p) PROVE SleeperHasWaker'
    <2>1. outstanding >= 1 /\ ~committing
      BY Zenon, <1>3, OpExcludesCommit DEF EndOp, InOp
    <2>2. CASE outstanding = 1
      BY Zenon, <1>3, <2>1, <2>2 DEF EndOp
    <2>3. CASE outstanding # 1
      BY <1>3, <2>1, <2>3 DEF EndOp
    <2> QED
      BY Zenon, <2>2, <2>3
  <1>4. ASSUME NEW p \in Procs, FinishCommit(p) PROVE SleeperHasWaker'
    BY Zenon, <1>4 DEF FinishCommit, WakeLog
  <1>5. ASSUME NEW p \in Procs, NEW b \in Blocks, NEW v \in Values, LogWrite(p, b, v)
        PROVE  SleeperHasWaker'
    BY Zenon, <1>5 DEF LogWrite
  <1>6. CASE Crash
    BY Zenon, <1>6 DEF Crash
  <1>7. ASSUME UNCHANGED <<pc, committing, outstanding>> PROVE SleeperHasWaker'
    BY Zenon, <1>7
  <1>8. ASSUME NEW p \in Procs, NEW b \in Blocks,
               BRead(p, b) \/ BRelse(p, b) \/ \E v \in Values : FailedWrite(p, b, v)
        PROVE  SleeperHasWaker'
    BY <1>8, <1>7, Zenon DEF BRead, BRelse, FailedWrite
  <1>9. ASSUME NEW b \in Blocks, Evict(b) PROVE SleeperHasWaker'
    BY Zenon, <1>9, <1>7 DEF Evict
  <1>10. CASE WriteLog \/ WriteHead \/ InstallTrans \/ ClearLog
    BY <1>10, <1>7, Zenon DEF WriteLog, WriteHead, InstallTrans, ClearLog
  <1>11. CASE ReadHead \/ RecoverInstall \/ RecoverClear
    BY <1>11, <1>7, Zenon DEF ReadHead, RecoverInstall, RecoverClear
  <1>12. CASE UNCHANGED vars
    BY Zenon, <1>12, <1>7 DEF vars
  <1> QED
    BY Zenon, <1>1, <1>2, <1>3, <1>4, <1>5, <1>6, <1>8, <1>9, <1>10, <1>11, <1>12
       DEF Next

THEOREM SleepersHaveAWaker == Spec => []SleeperHasWaker
  <1>1. Init => SleeperHasWaker
    BY Zenon DEF Init, SleeperHasWaker
  <1> QED
    BY <1>1, SleeperStep, Invariance, PTL DEF Spec
-----------------------------------------------------------------------------
(* The log implements AtomicDisk: the contents that a crash would leave    *)
(* change only when the header of a committed group of calls reaches the   *)
(* disk, and then all at once.                                             *)

(* What Overlay returns for a logged block, and for any other.             *)
LEMMA OverlayLogged ==
  ASSUME NEW h \in Seq(Blocks), NoDup(h), NEW data, NEW base, NEW i \in 1 .. Len(h)
  PROVE  Overlay(h, data, base)[h[i]] = data[i]
  <1>1. h[i] \in Blocks /\ InLog(h[i], h)
    BY DEF InLog
  <1>2. (CHOOSE j \in 1 .. Len(h) : h[j] = h[i]) = i
    BY Zenon DEF NoDup
  <1> QED
    BY <1>1, <1>2, Zenon DEF Overlay

LEMMA OverlayOther ==
  ASSUME NEW h, NEW data, NEW base, NEW b \in Blocks, ~InLog(b, h)
  PROVE  Overlay(h, data, base)[b] = base[b]
  BY Zenon DEF Overlay

LEMMA OverlayEmpty ==
  ASSUME NEW data, NEW base \in [Blocks -> Values]
  PROVE  Overlay(<<>>, data, base) = base
  BY DEF Overlay, InLog

(* Installing a logged block, or erasing a header whose blocks are all     *)
(* home, does not change the durable contents.                             *)
LEMMA OverlayInstall ==
  ASSUME NEW h \in Seq(Blocks), NoDup(h), NEW data, NEW base \in [Blocks -> Values],
         NEW i \in 1 .. Len(h)
  PROVE  Overlay(h, data, [base EXCEPT ![h[i]] = data[i]]) = Overlay(h, data, base)
  BY Zenon DEF Overlay, InLog

LEMMA OverlayInstalled ==
  ASSUME NEW h \in Seq(Blocks), NoDup(h), NEW data, NEW base \in [Blocks -> Values],
         \A i \in 1 .. Len(h) : base[h[i]] = data[i]
  PROVE  Overlay(h, data, base) = base
  <1>1. ASSUME NEW b \in Blocks PROVE Overlay(h, data, base)[b] = base[b]
    <2>1. CASE InLog(b, h)
      <3>1. PICK i \in 1 .. Len(h) : h[i] = b
        BY <2>1, Zenon DEF InLog
      <3>2. Overlay(h, data, base)[h[i]] = data[i]
        BY ONLY h \in Seq(Blocks), NoDup(h), i \in 1 .. Len(h), OverlayLogged
      <3> QED
        BY <3>1, <3>2, Zenon
    <2>2. CASE ~InLog(b, h)
      BY <2>2, OverlayOther
    <2> QED
      BY Zenon, <2>1, <2>2
  <1> QED
    BY <1>1, Zenon DEF Overlay

(* A buffer that is in no transaction agrees with the disk, or is leaked.  *)
LEMMA CleanCache ==
  ASSUME IInv, NEW b \in Blocks, ~PendingBlock(b), b \notin leaked
  PROVE  Cached(b) = home[b]
  BY Zenon DEF IInv, BufInv, Cached

(* While installing, the next log block holds what its buffer holds.       *)
LEMMA NextToInstall ==
  ASSUME IInv, stage = "install"
  PROVE  /\ tail + 1 \in 1 .. Len(lh) /\ dhead = lh /\ lh[tail + 1] \in Blocks
         /\ logd[tail + 1] = cache[lh[tail + 1]]
         /\ cache[lh[tail + 1]] # NoBuf
  <1>1. /\ tail + 1 \in 1 .. Len(lh) /\ dhead = lh /\ lh[tail + 1] \in Blocks
        /\ tail + 1 > tail
    BY DEF IInv, HeadInv, TypeOK
  <1>2. PendingBlock(lh[tail + 1])
    BY Zenon, <1>1 DEF PendingBlock, Pending, Running, Recovery
  <1> QED
    BY Zenon, <1>1, <1>2 DEF IInv, DataInv, BufInv

(* Once everything is installed the committed header adds nothing.         *)
LEMMA InstalledHeader ==
  ASSUME IInv, stage \in {"clear", "recover_clear"}
  PROVE  NoDup(dhead) /\ \A i \in 1 .. Len(dhead) : home[dhead[i]] = logd[i]
  BY Zenon DEF IInv, HeadInv, DataInv

-----------------------------------------------------------------------------
(* Every step of the log is a step of the atomic disk, or leaves it alone. *)
LEMMA RefinementStep ==
  IInv /\ [Next]_vars => [AD!Next]_<<Durable, Visible, InOp>>
  <1> SUFFICES ASSUME IInv, [Next]_vars PROVE [AD!Next]_<<Durable, Visible, InOp>>
    BY Zenon
  <1> USE DEF IInv, TypeOK, Durable, Running, Recovery, diskVars, bufVars
  <1>1. ASSUME NEW p \in Procs, BeginOp(p) PROVE [AD!Next]_<<Durable, Visible, InOp>>
    <2>1. Durable' = Durable
      BY Zenon, <1>1 DEF BeginOp
    <2>2. Visible' = Visible
      BY Zenon, <1>1, <2>1 DEF BeginOp, Visible, Cached, Running
    <2>3. InOp' = InOp \cup {p} /\ p \notin InOp
      BY Zenon, <1>1 DEF BeginOp, InOp
    <2> QED
      BY Zenon, <2>1, <2>2, <2>3 DEF AD!Next, AD!Begin
  <1>2. ASSUME NEW p \in Procs, BeginOpSleep(p) PROVE [AD!Next]_<<Durable, Visible, InOp>>
    <2>1. Durable' = Durable
      BY Zenon, <1>2 DEF BeginOpSleep
    <2>2. Visible' = Visible
      BY Zenon, <1>2, <2>1 DEF BeginOpSleep, Visible, Cached, Running
    <2>3. InOp' = InOp
      BY Zenon, <1>2 DEF BeginOpSleep, InOp
    <2> QED
      BY Zenon, <2>1, <2>2, <2>3
  <1>3. ASSUME NEW p \in Procs, EndOp(p) PROVE [AD!Next]_<<Durable, Visible, InOp>>
    <2>1. Durable' = Durable
      BY Zenon, <1>3 DEF EndOp
    <2>2. stage = "none" /\ ~committing
      BY Zenon, <1>3, OpExcludesCommit DEF EndOp, InOp
    <2>3. Visible' = Visible
      BY Zenon, <1>3, <2>1, <2>2 DEF EndOp, Visible, Cached, Running
    <2>4. InOp' = InOp \ {p} /\ p \in InOp
      BY Zenon, <1>3, <2>2 DEF EndOp, InOp, WakeLog
    <2> QED
      BY Zenon, <2>1, <2>3, <2>4 DEF AD!Next, AD!End
  <1>4. ASSUME NEW p \in Procs, FinishCommit(p) PROVE [AD!Next]_<<Durable, Visible, InOp>>
    <2>1. Durable' = Durable
      BY Zenon, <1>4 DEF FinishCommit
    <2>2. Visible' = Visible
      BY Zenon, <1>4, <2>1 DEF FinishCommit, Visible, Cached, Running, Recovery
    <2>3. InOp' = InOp
      BY Zenon, <1>4 DEF FinishCommit, InOp, WakeLog
    <2> QED
      BY Zenon, <2>1, <2>2, <2>3
  <1>5. ASSUME NEW p \in Procs, NEW b \in Blocks, BRead(p, b) PROVE [AD!Next]_<<Durable, Visible, InOp>>
    <2>1. Durable' = Durable
      BY Zenon, <1>5 DEF BRead
    <2>2. \A c \in Blocks : Cached(c)' = Cached(c)
      BY Zenon, <1>5, LogAssumption DEF BRead, Cached
    <2>3. Visible' = Visible
      BY Zenon, <1>5, <2>1, <2>2 DEF BRead, Visible, Running
    <2>4. InOp' = InOp
      BY Zenon, <1>5 DEF BRead, InOp
    <2> QED
      BY Zenon, <2>1, <2>3, <2>4
  <1>6. ASSUME NEW p \in Procs, NEW b \in Blocks, NEW v \in Values, LogWrite(p, b, v) PROVE [AD!Next]_<<Durable, Visible, InOp>>
    <2>1. Durable' = Durable /\ InOp' = InOp
      BY Zenon, <1>6 DEF LogWrite, InOp
    <2>2. CASE LogWritePanics
      <3>1. Visible' = Visible
        BY Zenon, <1>6, <2>1, <2>2 DEF LogWrite, Visible, Cached, Running
      <3> QED
        BY Zenon, <2>1, <3>1
    <2>3. CASE ~LogWritePanics
      <3>1. InOp # {} /\ Running /\ Running'
        BY Zenon, <1>6, <2>3, LogWriteInTransaction DEF LogWrite
      <3>2. cache' = [cache EXCEPT ![b] = v] /\ leaked' = leaked \ {b} /\ home' = home
        BY Zenon, <1>6, <2>3 DEF LogWrite
      <3>3. Visible' = [Visible EXCEPT ![b] = v]
        BY Zenon, <3>1, <3>2, LogAssumption DEF Visible, Cached
      <3> QED
        BY Zenon, <2>1, <3>1, <3>3 DEF AD!Next, AD!Write
    <2> QED
      BY Zenon, <2>2, <2>3
  <1>7. ASSUME NEW p \in Procs, NEW b \in Blocks, BRelse(p, b) PROVE [AD!Next]_<<Durable, Visible, InOp>>
    <2>1. Durable' = Durable
      BY Zenon, <1>7 DEF BRelse
    <2>2. Visible' = Visible
      BY Zenon, <1>7, <2>1 DEF BRelse, Visible, Cached, Running
    <2>3. InOp' = InOp
      BY Zenon, <1>7 DEF BRelse, InOp
    <2> QED
      BY Zenon, <2>1, <2>2, <2>3
  <1>8. ASSUME NEW p \in Procs, NEW b \in Blocks, NEW v \in Values, FailedWrite(p, b, v) PROVE [AD!Next]_<<Durable, Visible, InOp>>
    <2>1. Durable' = Durable
      BY Zenon, <1>8 DEF FailedWrite
    <2>2. p \in InOp /\ InOp' = InOp /\ stage = "none" /\ Running /\ Running'
      BY Zenon, <1>8, OpExcludesCommit DEF FailedWrite, InOp
    <2>3. cache' = [cache EXCEPT ![b] = v] /\ home' = home
      BY Zenon, <1>8 DEF FailedWrite
    <2>4. CASE InLog(b, lh)
      <3>1. leaked' = leaked /\ b \notin leaked
        BY Zenon, <1>8, <2>4 DEF FailedWrite, BufInv
      <3>2. Visible' = [Visible EXCEPT ![b] = v]
        BY Zenon, <2>2, <2>3, <3>1, LogAssumption DEF Visible, Cached
      <3> QED
        BY Zenon, <2>1, <2>2, <3>2 DEF AD!Next, AD!Write
    <2>5. CASE ~InLog(b, lh)
      <3>1. leaked' = leaked \cup {b} /\ ~PendingBlock(b)
        BY Zenon, <1>8, <2>5 DEF FailedWrite, PendingBlock, InLog
      <3>2. b \in leaked \/ Cached(b) = home[b]
        BY Zenon, <3>1, CleanCache
      <3>3. Visible' = Visible
        BY Zenon, <2>2, <2>3, <3>1, <3>2 DEF Visible, Cached
      <3> QED
        BY Zenon, <2>1, <2>2, <3>3
    <2> QED
      BY Zenon, <2>4, <2>5
  <1>9. ASSUME NEW b \in Blocks, Evict(b) PROVE [AD!Next]_<<Durable, Visible, InOp>>
    <2>1. Durable' = Durable
      BY Zenon, <1>9 DEF Evict
    <2>2. ~PendingBlock(b)
      BY <1>9 DEF Evict, BufInv
    <2>3. b \in leaked \/ Cached(b) = home[b]
      BY Zenon, <2>2, CleanCache
    <2>4. Visible' = Visible
      BY Zenon, <1>9, <2>1, <2>3 DEF Evict, Visible, Cached, Running
    <2>5. InOp' = InOp
      BY Zenon, <1>9 DEF Evict, InOp
    <2> QED
      BY Zenon, <2>1, <2>4, <2>5
  <1>10. CASE WriteLog
    <2>1. Durable' = Durable
      <3>1. dhead = <<>> /\ dhead' = <<>> /\ home' = home
        BY Zenon, <1>10 DEF WriteLog, HeadInv
      <3> QED
        BY <3>1, OverlayEmpty, Zenon
    <2>2. lh[tail + 1] \in Blocks /\ PendingBlock(lh[tail + 1])
      BY <1>10 DEF WriteLog, HeadInv, PendingBlock, Pending
    <2>3. cache' = cache
      BY <1>10, <2>2, Zenon DEF WriteLog, Cached, BufInv
    <2>4. Visible' = Visible
      BY <1>10, <2>1, <2>3 DEF WriteLog, Visible, Cached
    <2>5. InOp' = InOp
      BY Zenon, <1>10 DEF WriteLog, InOp
    <2> QED
      BY Zenon, <2>1, <2>4, <2>5
  <1>11. CASE WriteHead
    <2>1. InOp = {} /\ InOp' = {}
      <3>1. \A q \in InOp : stage = "none"
        BY Zenon, OpExcludesCommit
      <3> QED
        BY Zenon, <1>11, <3>1 DEF WriteHead, InOp
    <2> DEFINE See(c) == IF c \in leaked THEN home[c] ELSE Cached(c)
    <2>2. \A c \in Blocks : Overlay(lh, logd, home)[c] = See(c)
      <3> SUFFICES ASSUME NEW c \in Blocks
                   PROVE  Overlay(lh, logd, home)[c] = See(c)
        BY Zenon
      <3>1. CASE InLog(c, lh)
        <4>1. PICK i \in 1 .. Len(lh) : lh[i] = c
          BY Zenon, <3>1 DEF InLog
        <4>2. logd[i] = cache[c] /\ PendingBlock(c)
          BY Zenon, <1>11, <4>1 DEF WriteHead, DataInv, PendingBlock, Pending
        <4>3. Overlay(lh, logd, home)[lh[i]] = logd[i]
          <5>1. lh \in Seq(Blocks) /\ NoDup(lh)
            BY Zenon DEF HeadInv
          <5>2. i \in 1 .. Len(lh)
            BY Zenon
          <5> QED
            BY ONLY <5>1, <5>2, OverlayLogged
        <4>4. Cached(c) = cache[c] /\ c \notin leaked
          BY Zenon, <3>1, <4>2 DEF BufInv, Cached
        <4> QED
          BY <4>1, <4>2, <4>3, <4>4, Zenon
      <3>2. CASE ~InLog(c, lh)
        <4>1. ~PendingBlock(c)
          BY <3>2, Zenon DEF PendingBlock, InLog
        <4>2. See(c) = home[c]
          BY Zenon, <4>1, CleanCache
        <4>3. Overlay(lh, logd, home)[c] = home[c]
          BY <3>2, OverlayOther
        <4> HIDE DEF See
        <4> QED
          BY Zenon, <4>2, <4>3
      <3> QED
        BY Zenon, <3>1, <3>2
    <2>3. Durable' = Visible
      BY Zenon, <1>11, <2>2 DEF WriteHead, Visible, Overlay
    <2>4. Visible' = Visible
      BY Zenon, <1>11 DEF WriteHead, Visible, Cached
    <2> QED
      BY Zenon, <2>1, <2>3, <2>4 DEF AD!Next, AD!Commit
  <1>12. CASE InstallTrans
    <2>1. tail + 1 \in 1 .. Len(lh) /\ dhead = lh /\ lh[tail + 1] \in Blocks
      BY Zenon, <1>12, NextToInstall DEF InstallTrans
    <2>2. home' = [home EXCEPT ![dhead[tail + 1]] = logd[tail + 1]]
      BY Zenon, <1>12, <2>1 DEF InstallTrans, InstallOne
    <2>3. Durable' = Durable
      <3>1. Overlay(dhead, logd, [home EXCEPT ![dhead[tail + 1]] = logd[tail + 1]])
              = Overlay(dhead, logd, home)
        <4>1. dhead \in Seq(Blocks) /\ home \in [Blocks -> Values] /\ NoDup(dhead)
          BY Zenon DEF HeadInv
        <4>2. tail + 1 \in 1 .. Len(dhead)
          BY Zenon, <2>1
        <4> QED
          BY ONLY <4>1, <4>2, OverlayInstall, Zenon
      <3>2. dhead' = dhead /\ logd' = logd
        BY Zenon, <1>12 DEF InstallTrans
      <3> QED
        BY Zenon, <2>2, <3>1, <3>2
    <2>4. cache' = cache
      <3>1. logd[tail + 1] = cache[lh[tail + 1]]
        BY Zenon, <1>12, NextToInstall DEF InstallTrans
      <3> QED
        BY Zenon, <1>12, <2>1, <3>1 DEF InstallTrans, InstallOne
    <2>5. cache[lh[tail + 1]] # NoBuf
      BY Zenon, <1>12, NextToInstall DEF InstallTrans
    <2>6. \A c \in Blocks : Cached(c)' = Cached(c)
      BY Zenon, <2>1, <2>2, <2>4, <2>5 DEF Cached
    <2>7. Visible' = Visible
      <3>1. leaked' = leaked /\ lh[tail + 1] \notin leaked
        BY Zenon, <1>12, <2>1 DEF InstallTrans, BufInv, InLog
      <3>2. \A c \in Blocks : c \in leaked => home'[c] = home[c]
        BY Zenon, <2>1, <2>2, <3>1
      <3> QED
        BY Zenon, <1>12, <2>3, <2>6, <3>1, <3>2 DEF InstallTrans, Visible
    <2>8. InOp' = InOp
      BY Zenon, <1>12 DEF InstallTrans, InOp
    <2> QED
      BY Zenon, <2>3, <2>7, <2>8
  <1>13. CASE ClearLog
    <2>1. Durable = home
      <3>1. NoDup(dhead) /\ \A i \in 1 .. Len(dhead) : home[dhead[i]] = logd[i]
        BY Zenon, <1>13, InstalledHeader DEF ClearLog
      <3>2. dhead \in Seq(Blocks) /\ home \in [Blocks -> Values]
        BY Zenon
      <3>3. Overlay(dhead, logd, home) = home
        BY ONLY <3>1, <3>2, OverlayInstalled, Zenon
      <3> QED
        BY Zenon, <3>3
    <2>2. Durable' = home
      BY Zenon, <1>13, OverlayEmpty DEF ClearLog
    <2>3. Visible' = Visible
      BY Zenon, <1>13 DEF ClearLog, Visible, Cached
    <2>4. InOp' = InOp
      BY Zenon, <1>13 DEF ClearLog, InOp
    <2> QED
      BY Zenon, <2>1, <2>2, <2>3, <2>4
  <1>14. CASE Crash
    <2>1. Durable' = Durable
      BY Zenon, <1>14 DEF Crash
    <2>2. Visible' = Durable
      BY Zenon, <1>14, <2>1 DEF Crash, Visible
    <2>3. InOp' = {}
      BY Zenon, <1>14 DEF Crash, InOp
    <2> QED
      BY Zenon, <2>1, <2>2, <2>3 DEF AD!Next, AD!Crash
  <1>15. CASE ReadHead
    <2>1. Durable' = Durable
      BY Zenon, <1>15 DEF ReadHead
    <2>2. Visible' = Visible
      BY Zenon, <1>15, <2>1 DEF ReadHead, Visible
    <2>3. InOp' = InOp
      BY Zenon, <1>15 DEF ReadHead, InOp
    <2> QED
      BY Zenon, <2>1, <2>2, <2>3
  <1>16. CASE RecoverInstall
    <2>1. tail + 1 \in 1 .. Len(lh) /\ dhead = lh
      BY <1>16 DEF RecoverInstall, HeadInv
    <2>2. home' = [home EXCEPT ![dhead[tail + 1]] = logd[tail + 1]]
      BY Zenon, <1>16, <2>1 DEF RecoverInstall, InstallOne
    <2>3. Durable' = Durable
      <3>1. Overlay(dhead, logd, [home EXCEPT ![dhead[tail + 1]] = logd[tail + 1]])
              = Overlay(dhead, logd, home)
        <4>1. dhead \in Seq(Blocks) /\ home \in [Blocks -> Values] /\ NoDup(dhead)
          BY Zenon DEF HeadInv
        <4>2. tail + 1 \in 1 .. Len(dhead)
          BY Zenon, <2>1
        <4> QED
          BY ONLY <4>1, <4>2, OverlayInstall, Zenon
      <3>2. dhead' = dhead /\ logd' = logd
        BY Zenon, <1>16 DEF RecoverInstall
      <3> QED
        BY Zenon, <2>2, <3>1, <3>2
    <2>4. Visible' = Visible
      BY Zenon, <1>16, <2>3 DEF RecoverInstall, Visible
    <2>5. InOp' = InOp
      BY Zenon, <1>16 DEF RecoverInstall, InOp
    <2> QED
      BY Zenon, <2>3, <2>4, <2>5
  <1>17. CASE RecoverClear
    <2>1. Durable = home
      <3>1. NoDup(dhead) /\ \A i \in 1 .. Len(dhead) : home[dhead[i]] = logd[i]
        BY Zenon, <1>17, InstalledHeader DEF RecoverClear
      <3>2. dhead \in Seq(Blocks) /\ home \in [Blocks -> Values]
        BY Zenon
      <3>3. Overlay(dhead, logd, home) = home
        BY ONLY <3>1, <3>2, OverlayInstalled, Zenon
      <3> QED
        BY Zenon, <3>3
    <2>2. Durable' = home
      BY Zenon, <1>17, OverlayEmpty DEF RecoverClear
    <2>3. leaked = {} /\ \A c \in Blocks : ~PendingBlock(c)
      BY <1>17, Zenon DEF RecoverClear, PendingBlock, Pending, CountInv
    <2>4. leaked' = {} /\ \A c \in Blocks : Cached(c)' = home[c]
      BY Zenon, <1>17, <2>3, CleanCache DEF RecoverClear, Cached
    <2>5. Visible = home /\ Visible' = home
      BY Zenon, <1>17, <2>1, <2>4 DEF RecoverClear, Visible
    <2>6. InOp' = InOp
      BY Zenon, <1>17 DEF RecoverClear, InOp
    <2> QED
      BY Zenon, <2>1, <2>2, <2>5, <2>6
  <1>18. CASE UNCHANGED vars
    <2>1. Durable' = Durable /\ Visible' = Visible /\ InOp' = InOp
      BY Zenon, <1>18 DEF vars, Visible, Cached, InOp
    <2> QED
      BY Zenon, <2>1
  <1> QED
    BY <1>1, <1>2, <1>3, <1>4, <1>5, <1>6, <1>7, <1>8, <1>9, <1>10, <1>11, <1>12, <1>13,
       <1>14, <1>15, <1>16, <1>17, <1>18, Zenon
    DEF Next

(* kernel/log.c implements the atomic disk: whatever the interleaving of   *)
(* calls, evictions and crashes, a group of file-system calls becomes      *)
(* durable as a whole or not at all.                                       *)
THEOREM LogImplementsAtomicDisk == Spec => AtomicDiskSpec
  <1>1. Init => AD!Init
    <2> SUFFICES ASSUME Init PROVE AD!Init
      BY Zenon
    <2>1. Durable = home
      BY Zenon, OverlayEmpty DEF Init, Durable
    <2>2. Visible = Durable
      BY Zenon DEF Init, Visible, Running, Recovery
    <2>3. InOp = {}
      BY Zenon DEF Init, InOp
    <2> QED
      BY Zenon, <2>1, <2>2, <2>3 DEF Init, AD!Init
  <1>2. IInv /\ [Next]_vars => [AD!Next]_(AD!vars)
    BY Zenon, RefinementStep DEF AD!vars
  <1> QED
    BY <1>1, <1>2, Invariance, PTL DEF Spec, AtomicDiskSpec, AD!Spec

(* When no call is in progress and no commit is running, everything the    *)
(* finished calls logged is durable, and the cache agrees with the disk    *)
(* but for what failed writes left in it.                                  *)
THEOREM ReturnedCallsAreDurable == Spec => []QuiescentDurable
  <1>1. IInv => QuiescentDurable
    <2> SUFFICES ASSUME IInv, Running, outstanding = 0, ~committing
                 PROVE  /\ lh = <<>> /\ dhead = <<>>
                        /\ \A b \in Blocks : b \in leaked \/ Cached(b) = Durable[b]
      BY Zenon DEF QuiescentDurable
    <2>1. stage = "none"
      BY Zenon DEF IInv, CountInv, TypeOK, Running
    <2>2. lh = <<>> /\ dhead = <<>>
      BY Zenon, <2>1 DEF IInv, CountInv, HeadInv
    <2>3. \A b \in Blocks : b \in leaked \/ Cached(b) = home[b]
      <3>1. \A b \in Blocks : ~PendingBlock(b)
        BY <2>2 DEF PendingBlock
      <3> QED
        BY Zenon, <3>1, CleanCache
    <2>4. Durable = home
      BY Zenon, <2>2, OverlayEmpty DEF Durable, IInv, TypeOK
    <2> QED
      BY Zenon, <2>2, <2>3, <2>4
  <1> QED
    BY <1>1, Invariance, PTL
-----------------------------------------------------------------------------
(* No process panics in log.c if every call modifies fewer blocks than     *)
(* begin_op reserves for it (OPBLOCKS < MAXOPBLOCKS) and blocks are only   *)
(* written by calls (Allocators = {}).                                     *)
(*                                                                         *)
(* A block in the log was put there by a call that still runs and touched  *)
(* it, or is left from one that has ended (Older).  Older blocks and the   *)
(* reservations of the running calls together fit in LOGSIZE: a call that  *)
(* ends gives back at least what it leaves.  The header takes one of the   *)
(* NLOG blocks, so that is not enough by one block: but older blocks are   *)
(* there only if two calls overlapped, and each has something to spare.    *)

Logged == {lh[i] : i \in 1 .. Len(lh)}
Touched == UNION {touched[p] : p \in InOp}
Older == Logged \ Touched

\* What a call reserves and does not use.
Spare == MAXOPBLOCKS - OPBLOCKS

\* The header needs a block, and a call must fit in the log when it is alone.
\* No reader writes: a read that allocates has reserved nothing.
Room ==
  /\ OPBLOCKS < MAXOPBLOCKS /\ LOGSIZE <= NLOG /\ OPBLOCKS + 1 < LOGSIZE
  /\ Allocators = {}

RoomLeft ==
  /\ Running => Cardinality(Older) + outstanding * MAXOPBLOCKS <= LOGSIZE
  /\ Running /\ outstanding = 1 /\ Older # {} =>
       Cardinality(Older) + MAXOPBLOCKS + Spare <= LOGSIZE

RoomInv ==
  /\ NoPanic
  /\ \A p \in InOp : IsFiniteSet(touched[p]) /\ Cardinality(touched[p]) <= OPBLOCKS
  /\ RoomLeft
-----------------------------------------------------------------------------
(* A union of sets of at most K elements has at most K for each of them.   *)
(* By induction on the set S, as the choice of a least counterexample.     *)
LEMMA UnionBound ==
  ASSUME NEW S, IsFiniteSet(S), NEW K \in Nat, NEW T,
         \A p \in S : IsFiniteSet(T[p]) /\ Cardinality(T[p]) <= K
  PROVE  /\ IsFiniteSet(UNION {T[p] : p \in S})
         /\ Cardinality(UNION {T[p] : p \in S}) <= K * Cardinality(S)
<1> DEFINE U(A) == UNION {T[p] : p \in A}
           Good(A) == IsFiniteSet(U(A)) /\ Cardinality(U(A)) <= K * Cardinality(A)
           Bad == {A \in SUBSET S : ~Good(A)}
<1>1. Bad = {}
  <2> SUFFICES ASSUME Bad # {} PROVE FALSE
    BY Zenon
  <2>1. IsWellFoundedOn(StrictSubsetOrdering(S), SUBSET S)
    BY Zenon, FS_StrictSubsetOrderingWellFounded, FS_FiniteSubsetsOfFinite
  <2>2. PICK A \in Bad : \A B \in Bad : <<B, A>> \notin StrictSubsetOrdering(S)
    <3> HIDE DEF Bad
    <3>1. Bad \subseteq SUBSET S
      BY Zenon DEF Bad
    <3> QED
      BY Zenon, <2>1, <3>1, WFMin
  <2>3. A \subseteq S /\ IsFiniteSet(A) /\ ~Good(A)
    BY Zenon, FS_Subset
  <2>4. A # {}
    <3>1. Good({})
      <4>1. U({}) = {} /\ K * 0 = 0
        OBVIOUS
      <4> HIDE DEF U
      <4> QED
        BY <4>1, FS_EmptySet
    <3> QED
      BY Zenon, <2>3, <3>1
  <2>5. PICK a \in A : TRUE
    BY Zenon, <2>4
  <2> DEFINE B == A \ {a}
  <2>6. Good(B)
    <3>1. <<B, A>> \in StrictSubsetOrdering(S)
      BY Zenon, <2>3, <2>5 DEF StrictSubsetOrdering
    <3>2. B \notin Bad /\ B \in SUBSET S
      BY Zenon, <2>2, <2>3, <3>1
    <3> QED
      BY Zenon, <3>2
  <2>7. U(A) = U(B) \cup T[a]
    BY Zenon, <2>5
  <2>8. IsFiniteSet(B) /\ Cardinality(A) = Cardinality(B) + 1 /\ Cardinality(B) \in Nat
    <3>1. /\ IsFiniteSet(B) /\ Cardinality(B) = Cardinality(A) - 1
          /\ Cardinality(A) \in Nat
      BY Zenon, <2>3, <2>5, FS_RemoveElement, FS_CardinalityType
    <3>2. Cardinality(B) \in Nat
      BY Zenon, <3>1, FS_CardinalityType
    <3> HIDE DEF B
    <3> QED
      BY <3>1, <3>2
  <2>9. IsFiniteSet(T[a]) /\ Cardinality(T[a]) <= K
    BY Zenon, <2>3, <2>5
  <2> HIDE DEF U, B
  <2>10. /\ IsFiniteSet(U(A))
         /\ Cardinality(U(A)) = Cardinality(U(B)) + Cardinality(T[a]) - Cardinality(U(B) \cap T[a])
    BY <2>6, <2>7, <2>9, FS_Union
  <2>11. /\ Cardinality(U(B)) \in Nat /\ Cardinality(T[a]) \in Nat
         /\ Cardinality(U(B) \cap T[a]) \in Nat
    BY Zenon, <2>6, <2>9, FS_CardinalityType, FS_Intersection
  <2>12. K * (Cardinality(B) + 1) = K * Cardinality(B) + K
    BY <2>8
  <2>13. K * Cardinality(B) \in Nat
    BY <2>8
  <2> HIDE DEF Good
  <2>14. Cardinality(U(B)) <= K * Cardinality(B)
    BY Zenon, <2>6 DEF Good
  <2>15. Cardinality(U(A)) <= K * Cardinality(A)
    BY <2>8, <2>9, <2>10, <2>11, <2>12, <2>13, <2>14
  <2> QED
    BY Zenon, <2>3, <2>10, <2>15 DEF Good
<1>2. S \notin Bad /\ S \in SUBSET S
  BY Zenon, <1>1
<1> QED
  BY Zenon, <1>2
-----------------------------------------------------------------------------
\* The header has no block twice, so it has as many blocks as entries.
LEMMA LoggedBlocks ==
  ASSUME IInv
  PROVE  /\ IsFiniteSet(Logged) /\ Cardinality(Logged) = Len(lh)
         /\ IsFiniteSet(Older) /\ Cardinality(Older) \in Nat /\ Cardinality(Older) <= Len(lh)
<1>1. lh \in Seq(Blocks) /\ Len(lh) \in Nat /\ NoDup(lh)
  BY DEF IInv, TypeOK, HeadInv
<1>2. lh \in [1 .. Len(lh) -> Logged]
  BY <1>1 DEF Logged
<1>3. lh \in Surjection(1 .. Len(lh), Logged) /\ lh \in Injection(1 .. Len(lh), Logged)
  BY Zenon, <1>1, <1>2 DEF Surjection, Injection, IsInjective, Logged, NoDup
<1>4. IsFiniteSet(1 .. Len(lh)) /\ Cardinality(1 .. Len(lh)) = Len(lh)
  <2>1. /\ IsFiniteSet(1 .. Len(lh))
        /\ Cardinality(1 .. Len(lh)) = IF 1 > Len(lh) THEN 0 ELSE Len(lh) - 1 + 1
    BY <1>1, FS_Interval
  <2> QED
    BY <1>1, <2>1
<1>5. IsFiniteSet(Logged) /\ Cardinality(Logged) = Len(lh)
  BY Zenon, <1>3, <1>4, FS_Surjection
<1>6. Older \in SUBSET Logged
  BY Zenon DEF Older
<1> QED
  BY Zenon, <1>5, <1>6, FS_Subset, FS_CardinalityType

\* What the running calls have touched.
LEMMA TouchedBlocks ==
  ASSUME IInv, RoomInv
  PROVE  IsFiniteSet(Touched) /\ Cardinality(Touched) <= OPBLOCKS * outstanding
<1>1. IsFiniteSet(InOp) /\ Cardinality(InOp) = outstanding
  BY Zenon, InOpFinite DEF IInv, CountInv
<1>2. OPBLOCKS \in Nat
  BY Zenon, LogAssumption
<1>3. \A p \in InOp : IsFiniteSet(touched[p]) /\ Cardinality(touched[p]) <= OPBLOCKS
  BY Zenon DEF RoomInv
<1> QED
  BY <1>1, <1>2, <1>3, UnionBound DEF Touched

(* Inside a call the header has room for one more block.                   *)
LEMMA RoomForOne ==
  ASSUME Room, IInv, RoomInv, NEW p \in InOp
  PROVE  Len(lh) < LOGSIZE /\ Len(lh) < NLOG - 1 /\ outstanding >= 1
<1> DEFINE o == Cardinality(Older)
           t == Cardinality(Touched)
<1>1. Running /\ outstanding \in Nat /\ outstanding >= 1
  BY Zenon, OpExcludesCommit DEF IInv, TypeOK, Running, Recovery
<1>2. /\ OPBLOCKS \in Nat /\ MAXOPBLOCKS \in Nat /\ LOGSIZE \in Nat /\ NLOG \in Nat
      /\ OPBLOCKS < MAXOPBLOCKS /\ LOGSIZE <= NLOG /\ OPBLOCKS + 1 < LOGSIZE
      /\ Spare \in Nat /\ Spare >= 1 /\ MAXOPBLOCKS = OPBLOCKS + Spare
  BY SMTT(60), LogAssumption DEF Room, Spare
<1>3. o \in Nat /\ t \in Nat /\ t <= OPBLOCKS * outstanding /\ Len(lh) \in Nat
  BY Zenon, LoggedBlocks, TouchedBlocks, FS_CardinalityType
<1>4. Len(lh) <= o + t
  <2>1. IsFiniteSet(Older) /\ IsFiniteSet(Touched)
    BY Zenon, LoggedBlocks, TouchedBlocks
  <2>2. /\ IsFiniteSet(Older \cup Touched)
        /\ Cardinality(Older \cup Touched) = o + t - Cardinality(Older \cap Touched)
        /\ Cardinality(Older \cap Touched) \in Nat
    BY Zenon, <2>1, FS_Union, FS_Intersection, FS_CardinalityType
  <2>3. Logged \in SUBSET (Older \cup Touched)
    BY Zenon DEF Older
  <2>4. Cardinality(Logged) <= Cardinality(Older \cup Touched)
    BY Zenon, <2>2, <2>3, FS_Subset
  <2> HIDE DEF o, t
  <2> QED
    BY SMTT(60), <1>3, <2>2, <2>4, LoggedBlocks
<1>5. o + outstanding * MAXOPBLOCKS <= LOGSIZE
  BY Zenon, <1>1 DEF RoomInv, RoomLeft
<1>6. o = 0 \/ outstanding # 1 \/ o + MAXOPBLOCKS + Spare <= LOGSIZE
  BY Zenon, <1>1, LoggedBlocks, FS_EmptySet DEF RoomInv, RoomLeft
<1> HIDE DEF o, t
<1>7. CASE outstanding = 1
  BY <1>2, <1>3, <1>4, <1>6, <1>7
<1>8. CASE outstanding >= 2
  <2>1. outstanding * MAXOPBLOCKS = OPBLOCKS * outstanding + outstanding * Spare
    BY <1>1, <1>2
  <2>2. outstanding * Spare >= 2 /\ outstanding * Spare \in Nat /\ OPBLOCKS * outstanding \in Nat
    BY <1>1, <1>2, <1>8
  <2> QED
    BY <1>1, <1>2, <1>3, <1>4, <1>5, <2>1, <2>2
<1> QED
  BY <1>1, <1>7, <1>8
-----------------------------------------------------------------------------
\* A step that only takes blocks out of Older.
LEMMA OlderShrinks ==
  ASSUME IInv, RoomInv, Running, outstanding' = outstanding, Older' \subseteq Older
  PROVE  RoomLeft'
<1>1. IsFiniteSet(Older) /\ Cardinality(Older) \in Nat
  BY Zenon, LoggedBlocks
<1>2. IsFiniteSet(Older') /\ Cardinality(Older') <= Cardinality(Older)
  BY Zenon, <1>1, FS_Subset
<1>3. Cardinality(Older') \in Nat
  BY Zenon, <1>2, FS_CardinalityType
<1>4. outstanding \in Nat /\ MAXOPBLOCKS \in Nat /\ OPBLOCKS \in Nat /\ LOGSIZE \in Nat
  BY Zenon, LogAssumption DEF IInv, TypeOK
<1>5. outstanding * MAXOPBLOCKS \in Nat
  BY <1>4
<1>6. Cardinality(Older)' = Cardinality(Older')
  BY Zenon
<1>7. Older # {} \/ Older' = {}
  BY Zenon
<1> QED
  BY SMTT(60), <1>1, <1>2, <1>3, <1>4, <1>5, <1>6, <1>7 DEF RoomInv, RoomLeft, Spare

\* What RoomInv depends on.
roomvars == <<touched, lh, outstanding>>

LEMMA RoomSame ==
  ASSUME IInv, RoomInv, UNCHANGED roomvars, InOp' = InOp, NoPanic', Running
  PROVE  RoomInv'
<1>1. Older' = Older
  BY Zenon DEF roomvars, Older, Logged, Touched
<1>2. RoomLeft'
  BY Zenon, <1>1, OlderShrinks DEF roomvars
<1> QED
  BY Zenon, <1>2 DEF RoomInv, roomvars

LEMMA BeginOpRoom ==
  ASSUME Room, IInv, RoomInv, NEW p \in Procs, BeginOp(p)
  PROVE  RoomInv'
<1> USE DEF BeginOp, diskVars, bufVars
<1>1. pc \in [Procs -> {"idle", "retry", "sleep", "op", "commit"}]
      /\ touched \in [Procs -> SUBSET Blocks] /\ InOp \subseteq Procs
  BY Zenon DEF IInv, TypeOK, InOp
<1>2. InOp' = InOp \cup {p} /\ p \notin InOp
  BY Zenon, <1>1 DEF InOp
<1>3. \A q \in InOp : touched'[q] = touched[q]
  BY Zenon, <1>1, <1>2
<1>4. touched'[p] = {}
  BY Zenon, <1>1
<1>5. Touched' = Touched
  BY SMTT(60), <1>2, <1>3, <1>4 DEF Touched
<1>6. Older' = Older
  BY Zenon, <1>5 DEF Older, Logged
<1>7. NoPanic'
  BY Zenon, <1>1 DEF RoomInv, NoPanic
<1>8. \A q \in InOp' : IsFiniteSet(touched'[q]) /\ Cardinality(touched'[q]) <= OPBLOCKS
  BY <1>2, <1>3, <1>4, FS_EmptySet, LogAssumption DEF RoomInv
<1>9. RoomLeft'
  <2>1. /\ Cardinality(Older) <= Len(lh) /\ Cardinality(Older) \in Nat /\ Len(lh) \in Nat
        /\ MAXOPBLOCKS \in Nat /\ outstanding \in Nat /\ LOGSIZE \in Nat
    BY SMTT(60), LoggedBlocks, LogAssumption DEF IInv, TypeOK
  <2>2. Len(lh) + outstanding' * MAXOPBLOCKS <= LOGSIZE /\ ~committing /\ Running
    <3>1. ~committing /\ ~(Len(lh) + outstanding' * MAXOPBLOCKS > LOGSIZE) /\ Running
      BY Zenon DEF LogBusy
    <3>2. outstanding' * MAXOPBLOCKS \in Nat
      BY <2>1
    <3> QED
      BY <2>1, <3>1, <3>2
  <2>3. outstanding' * MAXOPBLOCKS \in Nat
    BY <2>1
  <2>4. Cardinality(Older) + outstanding' * MAXOPBLOCKS <= LOGSIZE
    BY <2>1, <2>2, <2>3
  <2>5. outstanding' = 1 => Older = {}
    <3> SUFFICES ASSUME outstanding' = 1 PROVE Older = {}
      BY Zenon
    <3>1. outstanding = 0 /\ stage = "none"
      BY <2>1, <2>2 DEF IInv, TypeOK, CountInv, Running
    <3>2. lh = <<>>
      BY Zenon, <3>1 DEF IInv, CountInv
    <3> QED
      BY <3>2 DEF Older, Logged
  <2>6. Cardinality(Older)' = Cardinality(Older)
    BY Zenon, <1>6
  <2> QED
    BY Zenon, <1>6, <2>4, <2>5, <2>6 DEF RoomLeft
<1> QED
  BY Zenon, <1>7, <1>8, <1>9 DEF RoomInv

LEMMA BeginOpSleepRoom ==
  ASSUME IInv, RoomInv, NEW p \in Procs, BeginOpSleep(p)
  PROVE  RoomInv'
<1> USE DEF BeginOpSleep, diskVars, bufVars
<1>1. pc \in [Procs -> {"idle", "retry", "sleep", "op", "commit"}]
  BY Zenon DEF IInv, TypeOK
<1>2. InOp' = InOp
  BY Zenon, <1>1 DEF InOp
<1>3. NoPanic'
  BY Zenon, <1>1 DEF RoomInv, NoPanic
<1> QED
  BY Zenon, <1>2, <1>3, RoomSame DEF roomvars

LEMMA BufferRoom ==
  ASSUME IInv, RoomInv, NEW p \in Procs, NEW b \in Blocks, NEW v \in Values,
         BRead(p, b) \/ BRelse(p, b) \/ FailedWrite(p, b, v)
  PROVE  RoomInv'
<1>1. UNCHANGED <<roomvars, pc, stage, panicked>>
  BY Zenon DEF BRead, BRelse, FailedWrite, roomvars
<1>2. NoPanic' /\ InOp' = InOp
  BY Zenon, <1>1 DEF RoomInv, NoPanic, InOp
<1>3. Running
  BY Zenon, LogAssumption DEF BRead, BRelse, FailedWrite, IInv, BufInv
<1> QED
  BY Zenon, <1>1, <1>2, <1>3, RoomSame

LEMMA LogWriteRoom ==
  ASSUME Room, IInv, RoomInv, NEW p \in Procs, NEW b \in Blocks, NEW v \in Values, LogWrite(p, b, v)
  PROVE  RoomInv'
<1>1. p \in InOp /\ Cardinality(touched[p] \cup {b}) <= OPBLOCKS
  BY Zenon DEF LogWrite, InOp, Room
<1>2. touched \in [Procs -> SUBSET Blocks] /\ InOp \subseteq Procs
  BY Zenon DEF IInv, TypeOK, InOp
<1>3. ~LogWritePanics
  <2>1. Len(lh) < LOGSIZE /\ Len(lh) < NLOG - 1 /\ outstanding >= 1
    BY Zenon, <1>1, RoomForOne
  <2>2. /\ Len(lh) \in Nat /\ outstanding \in Nat
        /\ LOGSIZE \in Nat /\ NLOG \in Nat
    BY SMTT(60), LoggedBlocks, LogAssumption DEF IInv, TypeOK
  <2> QED
    BY <2>1, <2>2 DEF LogWritePanics
<1>4. /\ lh' = IF InLog(b, lh) THEN lh ELSE Append(lh, b)
      /\ touched' = [touched EXCEPT ![p] = touched[p] \cup {b}]
      /\ pc' = pc /\ panicked' = panicked /\ outstanding' = outstanding
  BY Zenon, <1>1, <1>3 DEF LogWrite, InOp
<1>5. NoPanic' /\ InOp' = InOp
  BY Zenon, <1>4 DEF RoomInv, NoPanic, InOp
<1>6. Running
  BY Zenon, <1>1 DEF IInv, CountInv
<1>7. /\ touched'[p] = touched[p] \cup {b}
      /\ \A q \in InOp : q # p => touched'[q] = touched[q]
  BY Zenon, <1>2, <1>4
<1>8. \A q \in InOp : IsFiniteSet(touched'[q]) /\ Cardinality(touched'[q]) <= OPBLOCKS
  <2>1. IsFiniteSet(touched[p])
    BY Zenon, <1>1 DEF RoomInv
  <2>2. IsFiniteSet(touched[p] \cup {b})
    BY Zenon, <2>1, FS_AddElement
  <2> QED
    BY Zenon, <1>1, <1>7, <2>2 DEF RoomInv
<1>9. RoomLeft'
  <2>1. lh \in Seq(Blocks)
    BY Zenon DEF IInv, TypeOK
  <2>2. Logged' \subseteq Logged \cup {b}
    BY <1>4, <2>1 DEF Logged
  <2>3. Touched \subseteq Touched' /\ b \in Touched'
    <3>1. \A q \in InOp : touched[q] \subseteq touched'[q]
      BY Zenon, <1>7
    <3> QED
      BY Zenon, <1>1, <1>5, <1>7, <3>1 DEF Touched
  <2>4. Older' \subseteq Older
    BY Zenon, <2>2, <2>3 DEF Older
  <2> QED
    BY Zenon, <1>4, <1>6, <2>4, OlderShrinks
<1> QED
  BY Zenon, <1>5, <1>8, <1>9 DEF RoomInv

\* The size of a union, from a bound on one part.
LEMMA CardinalityOfUnion ==
  ASSUME NEW S, NEW T, IsFiniteSet(S), IsFiniteSet(T), NEW n \in Nat, Cardinality(T) <= n
  PROVE  IsFiniteSet(S \cup T) /\ Cardinality(S \cup T) <= Cardinality(S) + n
<1>1. \A a, b, c, d, m \in Nat : a = b + c - d /\ c <= m => a <= b + m
  OBVIOUS
<1>2. IsFiniteSet(S \cup T) /\ IsFiniteSet(S \cap T)
      /\ Cardinality(S \cup T) = Cardinality(S) + Cardinality(T) - Cardinality(S \cap T)
  BY Zenon, FS_Union, FS_Intersection
<1>3. /\ Cardinality(S) \in Nat /\ Cardinality(T) \in Nat
      /\ Cardinality(S \cup T) \in Nat /\ Cardinality(S \cap T) \in Nat
  BY Zenon, <1>2, FS_CardinalityType
<1> QED
  BY Zenon, <1>1, <1>2, <1>3

LEMMA EndOpRoom ==
  ASSUME Room, IInv, RoomInv, NEW p \in Procs, EndOp(p)
  PROVE  RoomInv'
<1>1. p \in InOp
  BY Zenon DEF EndOp, InOp
<1>2. ~committing /\ stage = "none" /\ outstanding >= 1
  BY Zenon, <1>1, OpExcludesCommit
<1>3. /\ touched' = [touched EXCEPT ![p] = {}]
      /\ lh' = lh /\ outstanding' = outstanding - 1 /\ panicked' = panicked
  BY Zenon, <1>2 DEF EndOp
<1>4. \/ pc' = [pc EXCEPT ![p] = "commit"]
      \/ pc' = WakeLog([pc EXCEPT ![p] = "idle"])
  BY Zenon, <1>2 DEF EndOp
<1>5. pc \in [Procs -> {"idle", "retry", "sleep", "op", "commit"}]
      /\ touched \in [Procs -> SUBSET Blocks] /\ InOp \subseteq Procs
  BY Zenon DEF IInv, TypeOK, InOp
<1>6. NoPanic' /\ InOp' = InOp \ {p}
  BY Zenon, <1>3, <1>4, <1>5 DEF RoomInv, NoPanic, InOp, WakeLog
<1>7. \A q \in InOp' : touched'[q] = touched[q]
  BY Zenon, <1>3, <1>5, <1>6
<1>8. RoomLeft'
  <2>1. IsFiniteSet(Older) /\ Cardinality(Older) \in Nat
    BY Zenon, LoggedBlocks
  <2>2. IsFiniteSet(touched[p]) /\ Cardinality(touched[p]) <= OPBLOCKS
        /\ Cardinality(touched[p]) \in Nat
    BY Zenon, <1>1, FS_CardinalityType DEF RoomInv
  <2>3. Older' \subseteq Older \cup touched[p]
    <3>1. Touched \subseteq Touched' \cup touched[p]
      BY Zenon, <1>6, <1>7 DEF Touched
    <3>2. Logged' = Logged
      BY Zenon, <1>3 DEF Logged
    <3> QED
      BY Zenon, <3>1, <3>2 DEF Older
  <2>4. IsFiniteSet(Older \cup touched[p])
        /\ Cardinality(Older \cup touched[p]) <= Cardinality(Older) + OPBLOCKS
    BY Zenon, <2>1, <2>2, CardinalityOfUnion, LogAssumption
  <2>5. Cardinality(Older') \in Nat /\ Cardinality(Older') <= Cardinality(Older) + OPBLOCKS
    <3>1. IsFiniteSet(Older') /\ Cardinality(Older') <= Cardinality(Older \cup touched[p])
      BY Zenon, <2>3, <2>4, FS_Subset
    <3>2. Cardinality(Older') \in Nat /\ Cardinality(Older \cup touched[p]) \in Nat
      BY Zenon, <2>4, <3>1, FS_CardinalityType
    <3>3. \A a, b, c \in Int : a <= b /\ b <= c => a <= c
      OBVIOUS
    <3>4. \A a, b \in Nat : a \in Int /\ a + b \in Int
      OBVIOUS
    <3> QED
      BY Zenon, <2>1, <2>4, <3>1, <3>2, <3>3, <3>4, LogAssumption
  <2>6. outstanding \in Nat /\ MAXOPBLOCKS \in Nat /\ OPBLOCKS \in Nat /\ LOGSIZE \in Nat
    BY Zenon, LogAssumption DEF IInv, TypeOK
  <2>7. Cardinality(Older) + outstanding * MAXOPBLOCKS <= LOGSIZE
    BY Zenon, <1>2 DEF RoomInv, RoomLeft, Running, Recovery
  <2>8. outstanding * MAXOPBLOCKS = outstanding' * MAXOPBLOCKS + MAXOPBLOCKS
        /\ outstanding' * MAXOPBLOCKS \in Nat
    BY <1>2, <1>3, <2>6
  <2>9. Cardinality(Older') + outstanding' * MAXOPBLOCKS <= LOGSIZE
    BY <2>1, <2>5, <2>6, <2>7, <2>8 DEF Room
  <2>10. outstanding' = 1 => Cardinality(Older') + MAXOPBLOCKS + Spare <= LOGSIZE
    BY <2>1, <2>5, <2>6, <2>7, <2>8 DEF Spare
  <2>11. Cardinality(Older)' = Cardinality(Older')
    BY Zenon
  <2> QED
    BY Zenon, <2>9, <2>10, <2>11 DEF RoomLeft, Spare
<1> QED
  BY Zenon, <1>6, <1>7, <1>8 DEF RoomInv

LEMMA FinishCommitRoom ==
  ASSUME IInv, RoomInv, NEW p \in Procs, FinishCommit(p)
  PROVE  RoomInv'
<1>1. pc \in [Procs -> {"idle", "retry", "sleep", "op", "commit"}]
  BY Zenon DEF IInv, TypeOK
<1>2. NoPanic' /\ InOp' = InOp /\ Running
  BY Zenon, <1>1 DEF FinishCommit, RoomInv, NoPanic, InOp, WakeLog, Running, Recovery
<1> QED
  BY Zenon, <1>2, RoomSame DEF FinishCommit, bufVars, roomvars

LEMMA EvictRoom ==
  ASSUME IInv, RoomInv, NEW b \in Blocks, Evict(b)
  PROVE  RoomInv'
<1>1. UNCHANGED <<roomvars, pc, stage, panicked>>
  BY Zenon DEF Evict, roomvars
<1>2. NoPanic' /\ InOp' = InOp
  BY Zenon, <1>1 DEF RoomInv, NoPanic, InOp
<1>3. CASE Running
  BY Zenon, <1>1, <1>2, <1>3, RoomSame
<1>4. CASE ~Running
  BY Zenon, <1>1, <1>2, <1>4 DEF roomvars, RoomInv, RoomLeft, Running
<1> QED
  BY Zenon, <1>3, <1>4

\* commit() up to the point where it empties the header leaves the calls alone.
LEMMA CommitRoom ==
  ASSUME IInv, RoomInv, WriteLog \/ WriteHead \/ InstallTrans
  PROVE  RoomInv'
<1>1. UNCHANGED <<roomvars, pc, panicked>>
  BY Zenon DEF WriteLog, WriteHead, InstallTrans, InstallOne, bufVars, roomvars
<1>2. Running
  BY Zenon DEF WriteLog, WriteHead, InstallTrans, Running, Recovery
<1>3. NoPanic' /\ InOp' = InOp
  BY Zenon, <1>1 DEF RoomInv, NoPanic, InOp
<1> QED
  BY Zenon, <1>1, <1>2, <1>3, RoomSame

LEMMA ClearLogRoom ==
  ASSUME IInv, RoomInv, ClearLog
  PROVE  RoomInv'
<1> USE DEF ClearLog, bufVars
<1>1. NoPanic' /\ InOp' = InOp /\ Running
  BY Zenon DEF RoomInv, NoPanic, InOp, Running, Recovery
<1>2. Older' = {}
  BY DEF Older, Logged
<1>3. RoomLeft'
  BY Zenon, <1>1, <1>2, OlderShrinks
<1> QED
  BY Zenon, <1>1, <1>3 DEF RoomInv

\* Nobody is in a call from a crash to the end of recovery.
LEMMA RecoveryRoom ==
  ASSUME IInv, RoomInv, Crash \/ ReadHead \/ RecoverInstall \/ RecoverClear
  PROVE  RoomInv'
<1>1. NoPanic' /\ InOp' = {}
  <2>1. CASE Crash
    BY Zenon, <2>1 DEF Crash, NoPanic, InOp
  <2>2. CASE ReadHead \/ RecoverInstall \/ RecoverClear
    <3>1. ~Running /\ pc' = pc /\ panicked' = panicked
      BY Zenon, <2>2 DEF ReadHead, RecoverInstall, RecoverClear, Running, Recovery
    <3>2. InOp = {}
      BY Zenon, <3>1 DEF IInv, CountInv
    <3> QED
      BY Zenon, <3>1, <3>2 DEF RoomInv, NoPanic, InOp
  <2> QED
    BY Zenon, <2>1, <2>2
<1>2. RoomLeft'
  <2>1. CASE Crash \/ ReadHead \/ RecoverInstall
    BY Zenon, <2>1 DEF Crash, ReadHead, RecoverInstall, RoomLeft, Running, Recovery
  <2>2. CASE RecoverClear
    <3>1. outstanding' = 0
      <4>1. outstanding' = outstanding /\ InOp = {}
        BY Zenon, <2>2 DEF RecoverClear, IInv, CountInv, Running, Recovery
      <4> QED
        BY Zenon, <4>1, FS_EmptySet DEF IInv, CountInv
    <3>2. Older' = {}
      BY <2>2 DEF RecoverClear, Older, Logged
    <3>3. Cardinality(Older)' = 0
      BY Zenon, <3>2, FS_EmptySet
    <3> QED
      BY <3>1, <3>2, <3>3, LogAssumption DEF RoomLeft
  <2> QED
    BY Zenon, <2>1, <2>2
<1> QED
  BY Zenon, <1>1, <1>2 DEF RoomInv
-----------------------------------------------------------------------------
LEMMA RoomInit == Init => RoomInv
<1> SUFFICES ASSUME Init PROVE RoomInv
  BY Zenon
<1>1. NoPanic /\ InOp = {}
  BY Zenon DEF Init, NoPanic, InOp
<1>2. RoomLeft
  BY Zenon DEF Init, RoomLeft, Running, Recovery
<1> QED
  BY Zenon, <1>1, <1>2 DEF RoomInv

LEMMA RoomStep ==
  ASSUME Room, IInv, RoomInv, [Next]_vars
  PROVE  RoomInv'
<1>1. ASSUME NEW p \in Procs,
             BeginOp(p) \/ BeginOpSleep(p) \/ EndOp(p) \/ FinishCommit(p)
      PROVE  RoomInv'
  BY Zenon, <1>1, BeginOpRoom, BeginOpSleepRoom, EndOpRoom, FinishCommitRoom
<1>2. ASSUME NEW p \in Procs, NEW b \in Blocks, BRead(p, b) \/ BRelse(p, b)
      PROVE  RoomInv'
  BY Zenon, <1>2, BufferRoom, ZeroesInValues
<1>3. ASSUME NEW p \in Procs, NEW b \in Blocks, NEW v \in Values,
             FailedWrite(p, b, v) \/ LogWrite(p, b, v)
      PROVE  RoomInv'
  BY Zenon, <1>3, BufferRoom, LogWriteRoom
<1>4. ASSUME NEW b \in Blocks, Evict(b) PROVE RoomInv'
  BY Zenon, <1>4, EvictRoom
<1>5. CASE WriteLog \/ WriteHead \/ InstallTrans
  BY Zenon, <1>5, CommitRoom
<1>6. CASE ClearLog
  BY Zenon, <1>6, ClearLogRoom
<1>7. CASE Crash \/ ReadHead \/ RecoverInstall \/ RecoverClear
  BY Zenon, <1>7, RecoveryRoom
<1>8. CASE UNCHANGED vars
  BY <1>8 DEF vars, diskVars, bufVars, RoomInv, RoomLeft, NoPanic, InOp, Running,
              Older, Logged, Touched
<1> QED
  BY Zenon, <1>1, <1>2, <1>3, <1>4, <1>5, <1>6, <1>7, <1>8 DEF Next

(* No process reaches "too big a transaction", "log_write outside of       *)
(* trans" or "log.committing", if a call modifies fewer blocks than        *)
(* begin_op reserves, the log region holds LOGSIZE blocks with its header, *)
(* and no read allocates.  Without the first it can (run log_size), and    *)
(* without the last (run log_read).                                        *)
THEOREM NoPanics == Room => (Spec => []NoPanic)
<1> SUFFICES ASSUME Room PROVE Spec => []NoPanic
  BY Zenon
<1>1. Init => RoomInv
  BY Zenon, RoomInit
<1>2. IInv /\ RoomInv /\ [Next]_vars => RoomInv'
  BY Zenon, RoomStep
<1>3. RoomInv => NoPanic
  BY Zenon DEF RoomInv
<1> QED
  BY <1>1, <1>2, <1>3, Invariance, PTL DEF Spec
=============================================================================
