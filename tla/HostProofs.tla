----------------------------- MODULE HostProofs -----------------------------
(***************************************************************************)
(* What holds of the processes around a vault, for any number of them:     *)
(* only one owns it where nothing is reclaimed automatically, `mcp serve'  *)
(* leaves it clean, the maintenance tab shows what the operating system    *)
(* will do, and the data can be read until it is erased for good.          *)
(***************************************************************************)
EXTENDS ConsolidatorLock, Lifecycle, Maintenance, KeyCustody, TLAPS

-----------------------------------------------------------------------------
(***************************************************************************)
(* The lock. Where nothing is reclaimed automatically, the lockfile        *)
(* excludes, for any number of processes and crashes.                      *)
(***************************************************************************)

\* The holder's file is at the path and live; a guard being dropped has left it
\* stale, and is the only one; nobody removes a file without owning it.
OwnerInv ==
    /\ TypeOK
    /\ ~windows => \A p \in Processes :
          /\ pc[p] = "holding" => lockfile = p
          /\ pc[p] = "dropping" => lockfile = Stale
          /\ pc[p] \notin {"reclaiming", "reclaimed"}
    /\ ~windows => \A p, q \in Processes :
          pc[p] = "dropping" /\ pc[q] = "dropping" => p = q

LEMMA OwnerInit == Init => OwnerInv
BY CrashesAssumption DEF Init, OwnerInv, TypeOK

LEMMA OwnerStep ==
    ASSUME OwnerInv, [Next]_vars
    PROVE  OwnerInv'
<1> USE NamesAssumption, CrashesAssumption
    DEF NamesAssumption, CrashesAssumption, OwnerInv, TypeOK, Goto
<1> DEFINE Same == windows' = windows
<1>1. ASSUME NEW p \in Processes, Acquire(p), Same
      PROVE  OwnerInv'
  <2>1. lockfile = Absent /\ lockfile' = p /\ pc' = [pc EXCEPT ![p] = "holding"] /\ crashes' = crashes
    BY <1>1 DEF Acquire, CreateNew
  <2>2. TypeOK'
    BY <2>1, <1>1
  <2>3. ~windows => \A q \in Processes : pc[q] \notin {"holding", "dropping"}
    BY <2>1 DEF Absent, Stale
  <2>4. QED  BY <1>1, <2>1, <2>2, <2>3
<1>2. ASSUME NEW p \in Processes, FindHeld(p) \/ ProbeBusy(p), Same
      PROVE  OwnerInv'
    BY <1>2 DEF FindHeld, ProbeBusy
<1>3. ASSUME NEW p \in Processes, ProbeGone(p), Same
      PROVE  OwnerInv'
    BY <1>3 DEF ProbeGone
<1>4. ASSUME NEW p \in Processes, RemoveStale(p), Same
      PROVE  OwnerInv'
    BY <1>4 DEF RemoveStale
<1>5. ASSUME NEW p \in Processes, Reclaim(p), Same
      PROVE  OwnerInv'
    BY <1>5 DEF Reclaim, CreateNew
<1>6. ASSUME NEW p \in Processes, CloseHandle(p), Same
      PROVE  OwnerInv'
    BY <1>6 DEF CloseHandle
<1>7. ASSUME NEW p \in Processes, RemoveOwn(p), Same
      PROVE  OwnerInv'
    BY <1>7 DEF RemoveOwn, Absent, Stale
<1>8. ASSUME NEW p \in Processes, Crash(p), Same
      PROVE  OwnerInv'
    BY <1>8 DEF Crash
<1>9. CASE RemoveByHand /\ Same
    BY <1>9 DEF RemoveByHand
<1>10. CASE UNCHANGED vars
    BY <1>10 DEF vars
<1>11. QED
    BY <1>1, <1>2, <1>3, <1>4, <1>5, <1>6, <1>7, <1>8, <1>9, <1>10 DEF Next, TryStep

\* Without automatic reclaim no two processes hold the lock: create_new is the
\* only way in, and only the process that dropped its guard, or a user who sees
\* neither a holder nor a guard being dropped, removes the file.
THEOREM ExclusionWithoutReclaim == Spec => []PosixExclusion
<1>1. OwnerInv /\ [Next]_vars => OwnerInv'
    BY OwnerStep
<1>2. OwnerInv => PosixExclusion
    BY DEF OwnerInv, PosixExclusion, MutualExclusion
<1>3. QED  BY OwnerInit, <1>1, <1>2, PTL DEF Spec

\* Nor does dropping a guard take the file from another holder.
THEOREM DropKeepsOthersWithoutReclaim == Spec => PosixDropKeepsOthers
<1> DEFINE Kept == ~windows => \A p, q \in Processes :
              p # q /\ pc[p] = "dropping" /\ pc'[p] = "out" /\ lockfile = q => lockfile' = q
<1>1. OwnerInv /\ [Next]_vars => OwnerInv'
    BY OwnerStep
<1>2. OwnerInv /\ [Next]_vars => [Kept]_vars
    BY NamesAssumption DEF OwnerInv, NamesAssumption
<1>3. QED  BY OwnerInit, <1>1, <1>2, PTL DEF Spec, PosixDropKeepsOthers

-----------------------------------------------------------------------------
(***************************************************************************)
(* One process, from opening the vault to the end of main (LeavesClean).   *)
(* What a shutdown promises hangs on the worker: it is awaited, and it     *)
(* ends only with nothing left of what was queued when its drain began, or *)
(* by a way that is marked as cut short.                                   *)
(***************************************************************************)

\* What the drain has yet to see to is still queued, and a worker that ended without
\* being cut short has seen to all of it.
DrainHolds ==
  /\ before <= outbox /\ outbox <= writes
  /\ proc \in {"off", "opening"} => worker = "none"
  /\ proc = "joining" => worker = "done"
  /\ worker \in {"none", "running"} /\ proc # "off" => before = 0
  /\ worker = "done" /\ ~ cut => before = 0

LifeInv == LifeTypeOK /\ DrainHolds

\* The conjuncts of the type invariant, by what they speak of.
StatesOK ==
  /\ host \in {"serve", "daemon"}
  /\ proc \in {"off", "opening", "serving", "stopping", "joining", "leaving"}
  /\ worker \in {"none", "running", "draining", "done"}
  /\ server \in {"none", "up", "aborting", "done", "aborted"}
  /\ sig \in {"none", "first", "second", "aborting", "done", "aborted"}
  /\ sched \in {"none", "asleep", "running", "aborting", "done", "aborted"}
  /\ cancel \in {"live", "sent", "dropped"}
  /\ selected \in {"none", "server", "signal"}
  /\ vlock \in {"absent", "held", "stale"}

CountsOK ==
  /\ outbox \in 0..LMaxWrites /\ before \in 0..LMaxWrites
  /\ writes \in 0..LMaxWrites /\ lives \in 0..LMaxLives

FlagsOK == late \in BOOLEAN /\ cut \in BOOLEAN

LEMMA LifeParts == LifeTypeOK <=> StatesOK /\ CountsOK /\ FlagsOK
  BY DEF LifeTypeOK, StatesOK, CountsOK, FlagsOK

LEMMA LifeStarts == LifeInit => LifeInv
<1> SUFFICES ASSUME LifeInit PROVE LifeInv
  OBVIOUS
<1>1. LMaxWrites \in Nat /\ LMaxLives \in Nat
  BY LifeAssumption DEF LifeAssumption
<1>2. StatesOK
  BY DEF LifeInit, NoTasks, StatesOK
<1>3. CountsOK
  BY <1>1 DEF LifeInit, NoTasks, CountsOK
<1>4. FlagsOK
  BY DEF LifeInit, NoTasks, FlagsOK
<1>5. DrainHolds
  BY DEF LifeInit, NoTasks, DrainHolds
<1> QED
  BY <1>2, <1>3, <1>4, <1>5, LifeParts DEF LifeInv

LEMMA LifeStep == LifeInv /\ [LifeNext]_lifeVars => LifeInv'
<1> SUFFICES ASSUME LifeInv, [LifeNext]_lifeVars PROVE StatesOK' /\ CountsOK' /\ FlagsOK' /\ DrainHolds'
  BY LifeParts DEF LifeInv, LifeTypeOK, StatesOK, CountsOK, FlagsOK
<1> USE DEF tasks, hist
<1>0. /\ LMaxWrites \in Nat /\ LMaxLives \in Nat
      /\ StatesOK /\ CountsOK /\ FlagsOK /\ DrainHolds
  BY LifeAssumption, LifeParts DEF LifeAssumption, LifeInv
<1>1. CASE StartProcess
  <2>1. StatesOK'
    BY <1>0, <1>1 DEF StartProcess, StatesOK
  <2>2. CountsOK'
    BY <1>0, <1>1 DEF StartProcess, StatesOK, CountsOK, DrainHolds
  <2>3. FlagsOK'
    BY <1>0, <1>1 DEF StartProcess, FlagsOK
  <2>4. DrainHolds'
    BY <1>0, <1>1 DEF StartProcess, StatesOK, CountsOK, DrainHolds
  <2> QED
    BY <2>1, <2>2, <2>3, <2>4
<1>2. CASE StartupDrain
  <2>1. StatesOK'
    BY <1>0, <1>2 DEF StartupDrain, StatesOK
  <2>2. CountsOK'
    BY <1>0, <1>2 DEF StartupDrain, StatesOK, CountsOK, DrainHolds
  <2>3. FlagsOK'
    BY <1>0, <1>2 DEF StartupDrain, FlagsOK
  <2>4. DrainHolds'
    BY <1>0, <1>2 DEF StartupDrain, StatesOK, CountsOK, DrainHolds
  <2> QED
    BY <2>1, <2>2, <2>3, <2>4
<1>3. CASE StartFails
  <2>1. StatesOK'
    BY <1>0, <1>3 DEF StartFails, ProcessEnds, StatesOK
  <2>2. CountsOK'
    BY <1>0, <1>3 DEF StartFails, ProcessEnds, StatesOK, CountsOK, DrainHolds
  <2>3. FlagsOK'
    BY <1>0, <1>3 DEF StartFails, ProcessEnds, FlagsOK
  <2>4. DrainHolds'
    BY <1>0, <1>3 DEF StartFails, ProcessEnds, StatesOK, CountsOK, DrainHolds
  <2> QED
    BY <2>1, <2>2, <2>3, <2>4
<1>4. CASE StartServing
  <2>1. StatesOK'
    BY <1>0, <1>4 DEF StartServing, StatesOK
  <2>2. CountsOK'
    BY <1>0, <1>4 DEF StartServing, StatesOK, CountsOK, DrainHolds
  <2>3. FlagsOK'
    BY <1>0, <1>4 DEF StartServing, FlagsOK
  <2>4. DrainHolds'
    BY <1>0, <1>4 DEF StartServing, StatesOK, CountsOK, DrainHolds
  <2> QED
    BY <2>1, <2>2, <2>3, <2>4
<1>5. CASE Serve
  <2>1. StatesOK'
    BY <1>0, <1>5 DEF Serve, StatesOK
  <2>2. CountsOK'
    BY <1>0, <1>5 DEF Serve, StatesOK, CountsOK, DrainHolds
  <2>3. FlagsOK'
    BY <1>0, <1>5 DEF Serve, FlagsOK
  <2>4. DrainHolds'
    BY <1>0, <1>5 DEF Serve, StatesOK, CountsOK, DrainHolds
  <2> QED
    BY <2>1, <2>2, <2>3, <2>4
<1>6. CASE Disconnect
  <2>1. StatesOK'
    BY <1>0, <1>6 DEF Disconnect, StatesOK
  <2>2. CountsOK'
    BY <1>0, <1>6 DEF Disconnect, StatesOK, CountsOK, DrainHolds
  <2>3. FlagsOK'
    BY <1>0, <1>6 DEF Disconnect, FlagsOK
  <2>4. DrainHolds'
    BY <1>0, <1>6 DEF Disconnect, StatesOK, CountsOK, DrainHolds
  <2> QED
    BY <2>1, <2>2, <2>3, <2>4
<1>7. CASE WorkerHandles
  <2>1. StatesOK'
    BY <1>0, <1>7 DEF WorkerHandles, StatesOK
  <2>2. CountsOK'
    BY <1>0, <1>7 DEF WorkerHandles, StatesOK, CountsOK, DrainHolds
  <2>3. FlagsOK'
    BY <1>0, <1>7 DEF WorkerHandles, FlagsOK
  <2>4. DrainHolds'
    BY <1>0, <1>7 DEF WorkerHandles, StatesOK, CountsOK, DrainHolds
  <2> QED
    BY <2>1, <2>2, <2>3, <2>4
<1>8. CASE WorkerCancelled
  <2>1. StatesOK'
    BY <1>0, <1>8 DEF WorkerCancelled, StatesOK
  <2>2. CountsOK'
    BY <1>0, <1>8 DEF WorkerCancelled, StatesOK, CountsOK, DrainHolds
  <2>3. FlagsOK'
    BY <1>0, <1>8 DEF WorkerCancelled, FlagsOK
  <2>4. DrainHolds'
    BY <1>0, <1>8 DEF WorkerCancelled, StatesOK, CountsOK, DrainHolds
  <2> QED
    BY <2>1, <2>2, <2>3, <2>4
<1>9. CASE DrainDeadline
  <2>1. StatesOK'
    BY <1>0, <1>9 DEF DrainDeadline, StatesOK
  <2>2. CountsOK'
    BY <1>0, <1>9 DEF DrainDeadline, StatesOK, CountsOK, DrainHolds
  <2>3. FlagsOK'
    BY <1>0, <1>9 DEF DrainDeadline, FlagsOK
  <2>4. DrainHolds'
    BY <1>0, <1>9 DEF DrainDeadline, StatesOK, CountsOK, DrainHolds
  <2> QED
    BY <2>1, <2>2, <2>3, <2>4
<1>10. CASE DrainEnds
  <2>1. StatesOK'
    BY <1>0, <1>10 DEF DrainEnds, StatesOK
  <2>2. CountsOK'
    BY <1>0, <1>10 DEF DrainEnds, StatesOK, CountsOK, DrainHolds
  <2>3. FlagsOK'
    BY <1>0, <1>10 DEF DrainEnds, FlagsOK
  <2>4. DrainHolds'
    <3>1. CASE outbox = 0
      <4>1. before = 0 /\ UNCHANGED <<before, outbox, writes, proc>>
        BY <1>0, <1>10, <3>1 DEF DrainEnds, CountsOK, DrainHolds
      <4> QED
        BY <1>0, <1>10, <4>1 DEF DrainEnds, DrainHolds
    <3>2. CASE outbox # 0
      <4>0. outbox > 0
        BY <1>0, <3>2 DEF CountsOK
      <4>1. cut' = TRUE
        BY <1>0, <1>10, <4>0, Zenon DEF DrainEnds
      <4> QED
        BY <1>0, <1>10, <4>1 DEF DrainEnds, DrainHolds
    <3> QED
      BY <3>1, <3>2
  <2> QED
    BY <2>1, <2>2, <2>3, <2>4
<1>11. CASE DrainErrs
  <2>1. StatesOK'
    BY <1>0, <1>11 DEF DrainErrs, StatesOK
  <2>2. CountsOK'
    BY <1>0, <1>11 DEF DrainErrs, StatesOK, CountsOK, DrainHolds
  <2>3. FlagsOK'
    BY <1>0, <1>11 DEF DrainErrs, FlagsOK
  <2>4. DrainHolds'
    BY <1>0, <1>11 DEF DrainErrs, StatesOK, CountsOK, DrainHolds
  <2> QED
    BY <2>1, <2>2, <2>3, <2>4
<1>12. CASE FirstCtrlC
  <2>1. StatesOK'
    BY <1>0, <1>12 DEF FirstCtrlC, StatesOK
  <2>2. CountsOK'
    BY <1>0, <1>12 DEF FirstCtrlC, StatesOK, CountsOK, DrainHolds
  <2>3. FlagsOK'
    BY <1>0, <1>12 DEF FirstCtrlC, FlagsOK
  <2>4. DrainHolds'
    BY <1>0, <1>12 DEF FirstCtrlC, StatesOK, CountsOK, DrainHolds
  <2> QED
    BY <2>1, <2>2, <2>3, <2>4
<1>13. CASE SecondCtrlC
  <2>1. StatesOK'
    BY <1>0, <1>13 DEF SecondCtrlC, ProcessEnds, StatesOK
  <2>2. CountsOK'
    BY <1>0, <1>13 DEF SecondCtrlC, ProcessEnds, StatesOK, CountsOK, DrainHolds
  <2>3. FlagsOK'
    BY <1>0, <1>13 DEF SecondCtrlC, ProcessEnds, FlagsOK
  <2>4. DrainHolds'
    BY <1>0, <1>13 DEF SecondCtrlC, ProcessEnds, StatesOK, CountsOK, DrainHolds
  <2> QED
    BY <2>1, <2>2, <2>3, <2>4
<1>14. CASE SignalsBreak
  <2>1. StatesOK'
    BY <1>0, <1>14 DEF SignalsBreak, StatesOK
  <2>2. CountsOK'
    BY <1>0, <1>14 DEF SignalsBreak, StatesOK, CountsOK, DrainHolds
  <2>3. FlagsOK'
    BY <1>0, <1>14 DEF SignalsBreak, FlagsOK
  <2>4. DrainHolds'
    BY <1>0, <1>14 DEF SignalsBreak, StatesOK, CountsOK, DrainHolds
  <2> QED
    BY <2>1, <2>2, <2>3, <2>4
<1>15. CASE ScheduledRunBegins
  <2>1. StatesOK'
    BY <1>0, <1>15 DEF ScheduledRunBegins, StatesOK
  <2>2. CountsOK'
    BY <1>0, <1>15 DEF ScheduledRunBegins, StatesOK, CountsOK, DrainHolds
  <2>3. FlagsOK'
    BY <1>0, <1>15 DEF ScheduledRunBegins, FlagsOK
  <2>4. DrainHolds'
    BY <1>0, <1>15 DEF ScheduledRunBegins, StatesOK, CountsOK, DrainHolds
  <2> QED
    BY <2>1, <2>2, <2>3, <2>4
<1>16. CASE ScheduledRunEnds
  <2>1. StatesOK'
    BY <1>0, <1>16 DEF ScheduledRunEnds, StatesOK
  <2>2. CountsOK'
    BY <1>0, <1>16 DEF ScheduledRunEnds, StatesOK, CountsOK, DrainHolds
  <2>3. FlagsOK'
    BY <1>0, <1>16 DEF ScheduledRunEnds, FlagsOK
  <2>4. DrainHolds'
    BY <1>0, <1>16 DEF ScheduledRunEnds, StatesOK, CountsOK, DrainHolds
  <2> QED
    BY <2>1, <2>2, <2>3, <2>4
<1>17. CASE SleepCancelled
  <2>1. StatesOK'
    BY <1>0, <1>17 DEF SleepCancelled, StatesOK
  <2>2. CountsOK'
    BY <1>0, <1>17 DEF SleepCancelled, StatesOK, CountsOK, DrainHolds
  <2>3. FlagsOK'
    BY <1>0, <1>17 DEF SleepCancelled, FlagsOK
  <2>4. DrainHolds'
    BY <1>0, <1>17 DEF SleepCancelled, StatesOK, CountsOK, DrainHolds
  <2> QED
    BY <2>1, <2>2, <2>3, <2>4
<1>18. CASE WaitSelects
  <2>1. StatesOK'
    BY <1>0, <1>18 DEF WaitSelects, Abort, Ended, StatesOK
  <2>2. CountsOK'
    BY <1>0, <1>18 DEF WaitSelects, Abort, Ended, StatesOK, CountsOK, DrainHolds
  <2>3. FlagsOK'
    BY <1>0, <1>18 DEF WaitSelects, Abort, Ended, FlagsOK
  <2>4. DrainHolds'
    BY <1>0, <1>18 DEF WaitSelects, Abort, Ended, StatesOK, CountsOK, DrainHolds
  <2> QED
    BY <2>1, <2>2, <2>3, <2>4
<1>19. CASE AwaitWorker
  <2>1. StatesOK'
    BY <1>0, <1>19 DEF AwaitWorker, StatesOK
  <2>2. CountsOK'
    BY <1>0, <1>19 DEF AwaitWorker, StatesOK, CountsOK, DrainHolds
  <2>3. FlagsOK'
    BY <1>0, <1>19 DEF AwaitWorker, FlagsOK
  <2>4. DrainHolds'
    BY <1>0, <1>19 DEF AwaitWorker, StatesOK, CountsOK, DrainHolds
  <2> QED
    BY <2>1, <2>2, <2>3, <2>4
<1>20. CASE LeaveServe
  <2>1. StatesOK'
    BY <1>0, <1>20 DEF LeaveServe, ProcessEnds, StatesOK
  <2>2. CountsOK'
    BY <1>0, <1>20 DEF LeaveServe, ProcessEnds, StatesOK, CountsOK, DrainHolds
  <2>3. FlagsOK'
    BY <1>0, <1>20 DEF LeaveServe, ProcessEnds, FlagsOK
  <2>4. DrainHolds'
    BY <1>0, <1>20 DEF LeaveServe, ProcessEnds, StatesOK, CountsOK, DrainHolds
  <2> QED
    BY <2>1, <2>2, <2>3, <2>4
<1>21. CASE AbortLands
  <2>1. StatesOK'
    BY <1>0, <1>21 DEF AbortLands, StatesOK
  <2>2. CountsOK'
    BY <1>0, <1>21 DEF AbortLands, StatesOK, CountsOK, DrainHolds
  <2>3. FlagsOK'
    BY <1>0, <1>21 DEF AbortLands, FlagsOK
  <2>4. DrainHolds'
    BY <1>0, <1>21 DEF AbortLands, StatesOK, CountsOK, DrainHolds
  <2> QED
    BY <2>1, <2>2, <2>3, <2>4
<1>22. CASE DaemonReturns
  <2>1. StatesOK'
    BY <1>0, <1>22 DEF DaemonReturns, StatesOK
  <2>2. CountsOK'
    BY <1>0, <1>22 DEF DaemonReturns, StatesOK, CountsOK, DrainHolds
  <2>3. FlagsOK'
    BY <1>0, <1>22 DEF DaemonReturns, FlagsOK
  <2>4. DrainHolds'
    BY <1>0, <1>22 DEF DaemonReturns, StatesOK, CountsOK, DrainHolds
  <2> QED
    BY <2>1, <2>2, <2>3, <2>4
<1>23. CASE RuntimeDropped
  <2>1. StatesOK'
    BY <1>0, <1>23 DEF RuntimeDropped, ProcessEnds, StatesOK
  <2>2. CountsOK'
    BY <1>0, <1>23 DEF RuntimeDropped, ProcessEnds, StatesOK, CountsOK, DrainHolds
  <2>3. FlagsOK'
    BY <1>0, <1>23 DEF RuntimeDropped, ProcessEnds, FlagsOK
  <2>4. DrainHolds'
    BY <1>0, <1>23 DEF RuntimeDropped, ProcessEnds, StatesOK, CountsOK, DrainHolds
  <2> QED
    BY <2>1, <2>2, <2>3, <2>4
<1>24. CASE Killed
  <2>1. StatesOK'
    BY <1>0, <1>24 DEF Killed, ProcessEnds, StatesOK
  <2>2. CountsOK'
    BY <1>0, <1>24 DEF Killed, ProcessEnds, StatesOK, CountsOK, DrainHolds
  <2>3. FlagsOK'
    BY <1>0, <1>24 DEF Killed, ProcessEnds, FlagsOK
  <2>4. DrainHolds'
    BY <1>0, <1>24 DEF Killed, ProcessEnds, StatesOK, CountsOK, DrainHolds
  <2> QED
    BY <2>1, <2>2, <2>3, <2>4
<1>25. CASE UNCHANGED lifeVars
  BY <1>0, <1>25 DEF lifeVars, StatesOK, CountsOK, FlagsOK, DrainHolds
<1> QED
  BY <1>1, <1>2, <1>3, <1>4, <1>5, <1>6, <1>7, <1>8, <1>9, <1>10, <1>11, <1>12, <1>13, <1>14, <1>15, <1>16, <1>17, <1>18, <1>19, <1>20, <1>21, <1>22, <1>23, <1>24, <1>25
     DEF LifeNext, OpenNext, WorkerNext, SignalNext, SchedNext, StopNext

LEMMA LifeInvariant == LifeSpec => []LifeInv
  BY LifeStarts, LifeStep, PTL DEF LifeSpec

-----------------------------------------------------------------------------
\* What a step may do, in the words of LeavesClean.
LeavesCleanStep ==
  /\ host = "serve" /\ vlock = "held" /\ vlock' = "absent" /\ proc # "opening" => TasksEnded
  /\ proc = "joining" /\ proc' = "off" /\ ~ cut' => before = 0

LEMMA LeavesCleanly == LifeInv /\ [LifeNext]_lifeVars => LeavesCleanStep
<1> SUFFICES ASSUME LifeInv, [LifeNext]_lifeVars PROVE LeavesCleanStep
  OBVIOUS
<1>0. StatesOK /\ CountsOK /\ FlagsOK /\ DrainHolds
  BY LifeParts DEF LifeInv
<1>1. vlock = "held" /\ vlock' = "absent" => StartFails \/ LeaveServe \/ DaemonReturns
  BY DEF LifeNext, OpenNext, WorkerNext, SignalNext, SchedNext, StopNext, lifeVars, tasks, hist,
         StartProcess, StartupDrain, StartServing, Serve, Disconnect, WorkerHandles,
         WorkerCancelled, DrainDeadline, DrainEnds, DrainErrs, FirstCtrlC, SecondCtrlC,
         SignalsBreak, ScheduledRunBegins, ScheduledRunEnds, SleepCancelled, WaitSelects,
         AwaitWorker, AbortLands, RuntimeDropped, Killed
<1>2. proc = "joining" /\ proc' = "off" => LeaveServe \/ SecondCtrlC \/ Killed
  BY DEF LifeNext, OpenNext, WorkerNext, SignalNext, SchedNext, StopNext, lifeVars, tasks, hist,
         StartProcess, StartupDrain, StartFails, StartServing, Serve, Disconnect, WorkerHandles,
         WorkerCancelled, DrainDeadline, DrainEnds, DrainErrs, FirstCtrlC,
         SignalsBreak, ScheduledRunBegins, ScheduledRunEnds, SleepCancelled, WaitSelects,
         AwaitWorker, AbortLands, DaemonReturns, RuntimeDropped
<1>3. LeaveServe => TasksEnded
  BY <1>0 DEF LeaveServe, TasksEnded, AwaitedServer, AwaitedSignal, DrainHolds
<1>4. StartFails => proc = "opening"
  BY DEF StartFails
<1>5. DaemonReturns => host # "serve"
  BY DEF DaemonReturns
<1>6. Killed => cut' = TRUE
  BY DEF Killed
<1>7. LeaveServe \/ SecondCtrlC => cut' = cut
  BY DEF LeaveServe, SecondCtrlC, hist
<1>8. proc = "joining" /\ ~ cut => before = 0
  BY <1>0 DEF DrainHolds
<1> QED
  BY <1>1, <1>2, <1>3, <1>4, <1>5, <1>6, <1>7, <1>8 DEF LeavesCleanStep

THEOREM VaultLeftClean == LifeSpec => LeavesClean
<1>1. LifeInv /\ [LifeNext]_lifeVars => [LeavesCleanStep]_lifeVars
  BY LeavesCleanly
<1>2. LifeSpec => [][LeavesCleanStep]_lifeVars
  BY <1>1, LifeInvariant, PTL DEF LifeSpec
<1> QED
  BY <1>2 DEF LeavesClean, LeavesCleanStep

-----------------------------------------------------------------------------
(***************************************************************************)
(* Automatic maintenance (TabMatchesOs, RecordKeepsSchedule), for any      *)
(* schedules, commands and runs. As long as nothing is on record that sets *)
(* file and operating system apart, one command is under way at most, and  *)
(* the task is the one of the file until the command has set its own, from *)
(* then on the command's.                                                  *)
(***************************************************************************)

\* Who has loaded the file and counts as fresh saw the schedule that is in it.
FreshSaw ==
  \A r \in MRuns : run[r].at = "records" /\ run[r].fresh => run[r].saw.sched = config.sched

\* Without a reason to differ one command is under way at most; until its task is
\* set the system does as the file says, from then on as the command says.
Agreed ==
  drift = {} =>
    /\ \A s, t \in MSetters : setter[s].at # "idle" /\ setter[t].at # "idle" => s = t
    /\ \A s \in MSetters : setter[s].at = "save" => InStep(setter[s].sched)
    /\ (\A s \in MSetters : setter[s].at # "save") => InStep(config.sched)

MtInv == MtTypeOK /\ FreshSaw /\ Agreed

Commands == [at : {"idle", "os", "save"}, sched : MtChoices, saw : Configs]
MtRecords == [at : {"none", "runs", "ended", "records", "over"}, outcome : Outcomes,
              saw : Configs, fresh : BOOLEAN]

LEMMA MtConstants ==
  /\ MMaxSets \in Nat /\ MMaxChanges \in Nat /\ MOff \notin MSchedules /\ MOff \in MtChoices
  /\ NoConfig \in Configs /\ NoConfig.sched = MOff
  /\ Idle \in Commands /\ Idle.at = "idle"
  /\ NoRun \in MtRecords /\ NoRun.at = "none" /\ NoRun.fresh = TRUE
<1>1. MOff \in MtChoices /\ MMaxSets \in Nat /\ MMaxChanges \in Nat /\ MOff \notin MSchedules
  BY MaintenanceAssumption DEF MaintenanceAssumption, MtChoices
<1>2. NoConfig \in Configs /\ NoConfig.sched = MOff
  BY <1>1 DEF NoConfig, Configs, Outcomes
<1>3. Idle \in Commands /\ Idle.at = "idle"
  BY <1>1, <1>2 DEF Idle, Commands
<1>4. NoRun \in MtRecords /\ NoRun.at = "none" /\ NoRun.fresh = TRUE
  BY <1>2 DEF NoRun, MtRecords, Outcomes
<1> QED
  BY <1>1, <1>2, <1>3, <1>4

LEMMA MtTyped ==
  ASSUME MtTypeOK
  PROVE  /\ platform \in {"windows", "macos", "linux"} /\ systemd \in BOOLEAN
         /\ config \in Configs /\ config.sched \in MtChoices
         /\ loaded \in MtChoices /\ unit \in MtChoices /\ cron \in MtChoices
         /\ setter \in [MSetters -> Commands] /\ run \in [MRuns -> MtRecords]
         /\ sets \in 0..MMaxSets /\ changes \in 0..MMaxChanges /\ drift \subseteq Reasons
  BY DEF MtTypeOK, Commands, MtRecords, Configs

LEMMA MtTypes ==
  ASSUME platform' \in {"windows", "macos", "linux"}, systemd' \in BOOLEAN,
         config' \in Configs,
         loaded' \in MtChoices, unit' \in MtChoices, cron' \in MtChoices,
         setter' \in [MSetters -> Commands], run' \in [MRuns -> MtRecords],
         sets' \in 0..MMaxSets, changes' \in 0..MMaxChanges, drift' \subseteq Reasons
  PROVE  MtTypeOK'
  BY DEF MtTypeOK, Commands, MtRecords

-----------------------------------------------------------------------------
\* What the schedulers leave behind.

LEMMA OsStaysTyped ==
  ASSUME MtTypeOK, NEW ok \in BOOLEAN,
         (\E s \in MSchedules : RegisterTask(s, ok)) \/ UnregisterTask(ok)
  PROVE  loaded' \in MtChoices /\ unit' \in MtChoices /\ cron' \in MtChoices
<1>0. MSchedules \subseteq MtChoices /\ MOff \in MtChoices
  BY DEF MtChoices
<1>1. ASSUME NEW s \in MSchedules, RegisterTask(s, ok)
      PROVE  loaded' \in MtChoices /\ unit' \in MtChoices /\ cron' \in MtChoices
  BY <1>0, <1>1, MtTyped DEF RegisterTask, SameOs
<1>2. CASE UnregisterTask(ok)
  BY <1>0, <1>2, MtTyped DEF UnregisterTask, SameOs
<1> QED
  BY <1>1, <1>2

\* A task that was registered is the one that will be started, if the other facility
\* held none before.
LEMMA Registered ==
  ASSUME MtTypeOK, NEW c, InStep(c), NEW s \in MSchedules, RegisterTask(s, TRUE),
         UNCHANGED <<platform, systemd>>
  PROVE  InStep(s)'
<1>0. MOff \notin MSchedules /\ platform \in {"windows", "macos", "linux"} /\ systemd \in BOOLEAN
      /\ loaded = unit
  BY MtConstants, MtTyped DEF InStep
<1>1. CASE platform = "linux" /\ ~ systemd
  <2>1. unit = MOff /\ cron' = s /\ loaded' = loaded /\ unit' = unit
    BY <1>0, <1>1 DEF RegisterTask, InStep
  <2>2. Started' = {s}
    BY <1>0, <1>1, <2>1 DEF Started
  <2> QED
    BY <1>0, <1>1, <2>1, <2>2 DEF InStep
<1>2. CASE ~ (platform = "linux" /\ ~ systemd)
  <2>1. cron = MOff /\ cron' = cron /\ loaded' = s /\ unit' = s
    BY <1>0, <1>2 DEF RegisterTask, InStep
  <2>2. Started' = {s}
    BY <1>0, <1>2, <2>1 DEF Started
  <2> QED
    BY <1>0, <1>2, <2>1, <2>2 DEF InStep
<1> QED
  BY <1>1, <1>2

LEMMA Unregistered ==
  ASSUME MtTypeOK, NEW c, InStep(c), UnregisterTask(TRUE), loaded' = unit',
         UNCHANGED <<platform, systemd>>
  PROVE  InStep(MOff)'
<1>0. MOff \notin MSchedules /\ platform \in {"windows", "macos", "linux"} /\ systemd \in BOOLEAN
      /\ loaded = unit
  BY MtConstants, MtTyped DEF InStep
<1>1. CASE platform = "linux" /\ ~ systemd
  <2>1. unit = MOff /\ cron' = MOff /\ loaded' = loaded /\ unit' = unit
    BY <1>0, <1>1 DEF UnregisterTask, InStep
  <2>2. Started' = {}
    BY <1>0, <1>1, <2>1 DEF Started
  <2> QED
    BY <1>0, <1>1, <2>1, <2>2 DEF InStep
<1>2. CASE ~ (platform = "linux" /\ ~ systemd)
  <2>1. cron = MOff /\ cron' = MOff /\ loaded' = MOff /\ unit' = MOff
    BY <1>0, <1>2 DEF UnregisterTask, InStep
  <2>2. Started' = {}
    BY <1>0, <1>2, <2>1 DEF Started
  <2> QED
    BY <1>0, <1>2, <2>1, <2>2 DEF InStep
<1> QED
  BY <1>1, <1>2

LEMMA SameInStep ==
  ASSUME NEW c, UNCHANGED <<platform, systemd, loaded, unit, cron>>
  PROVE  InStep(c)' <=> InStep(c)
  BY DEF InStep, Started

LEMMA MtStarts == MtInit => MtInv
<1> SUFFICES ASSUME MtInit PROVE MtInv
  OBVIOUS
<1>1. MtTypeOK
  <2>1. systemd \in BOOLEAN
    BY DEF MtInit
  <2>2. setter \in [MSetters -> Commands] /\ run \in [MRuns -> MtRecords]
    BY MtConstants DEF MtInit
  <2> QED
    BY <2>1, <2>2, MtConstants DEF MtInit, MtTypeOK, Commands, MtRecords
<1>2. FreshSaw
  BY MtConstants DEF MtInit, FreshSaw
<1>3. config.sched = MOff /\ loaded = MOff /\ unit = MOff /\ cron = MOff
  BY MtConstants DEF MtInit
<1>4. InStep(MOff)
  BY <1>3, MtConstants DEF InStep, Started
<1>5. Agreed
  BY <1>3, <1>4, MtConstants DEF MtInit, Agreed
<1> QED
  BY <1>1, <1>2, <1>5 DEF MtInv

-----------------------------------------------------------------------------
\* One lemma for each operation.

LEMMA FacilityKeeps == MtInv /\ FacilityChanges => MtInv'
<1> SUFFICES ASSUME MtInv, FacilityChanges PROVE MtInv'
  OBVIOUS
<1>0. MtTypeOK /\ FreshSaw /\ Agreed
  BY DEF MtInv
<1>1. /\ UNCHANGED <<platform, config, unit, cron, setter, run, sets>>
      /\ loaded' = unit /\ changes' = changes + 1 /\ changes < MMaxChanges
      /\ systemd' = IF platform = "linux" THEN ~ systemd ELSE FALSE
      /\ drift' = IF platform = "linux" \/ loaded # unit THEN drift \cup {"facility"} ELSE drift
  BY DEF FacilityChanges
<1>2. MtTypeOK'
  <2>1. systemd' \in BOOLEAN
    BY <1>0, <1>1, MtTyped
  <2>2. changes' \in 0..MMaxChanges /\ drift' \subseteq Reasons
    BY <1>0, <1>1, MtTyped, MtConstants DEF Reasons
  <2> QED
    BY <1>0, <1>1, <2>1, <2>2, MtTyped, MtTypes
<1>3. FreshSaw'
  BY <1>0, <1>1 DEF FreshSaw
<1>4. Agreed'
  <2>1. SUFFICES ASSUME drift' = {} PROVE Agreed'
    BY DEF Agreed
  <2>2. drift = {} /\ platform # "linux" /\ loaded' = loaded
    BY <1>1, <2>1
  <2>3. ASSUME NEW c PROVE InStep(c) => InStep(c)'
    BY <1>1, <2>2 DEF InStep, Started
  <2> QED
    BY <1>0, <1>1, <2>2, <2>3 DEF Agreed
<1> QED
  BY <1>2, <1>3, <1>4 DEF MtInv

LEMMA SetLoadKeeps ==
  ASSUME MtInv, NEW s \in MSetters, NEW c \in MtChoices, SetLoad(s, c)
  PROVE  MtInv'
<1> DEFINE r == [at |-> "os", sched |-> c, saw |-> config]
<1>0. MtTypeOK /\ FreshSaw /\ Agreed
  BY DEF MtInv
<1>1. r \in Commands /\ r.at = "os" /\ r.sched = c
  BY <1>0, MtTyped DEF Commands
<1>2. /\ setter[s].at = "idle" /\ sets < MMaxSets /\ sets' = sets + 1
      /\ setter' = [setter EXCEPT ![s] = r]
      /\ drift' = IF \A t \in MSetters : setter[t].at = "idle" THEN drift ELSE drift \cup {"overlap"}
      /\ UNCHANGED <<platform, config, loaded, unit, cron, systemd, run, changes>>
  BY DEF SetLoad, osVars
<1> HIDE DEF r
<1>3. MtTypeOK'
  <2>1. sets' \in 0..MMaxSets /\ drift' \subseteq Reasons
    BY <1>0, <1>2, MtTyped, MtConstants DEF Reasons
  <2>2. setter' \in [MSetters -> Commands]
    BY <1>0, <1>1, <1>2, MtTyped
  <2> QED
    BY <1>0, <1>2, <2>1, <2>2, MtTyped, MtTypes
<1>4. FreshSaw'
  BY <1>0, <1>2 DEF FreshSaw
<1>5. Agreed'
  <2>1. SUFFICES ASSUME drift' = {} PROVE Agreed'
    BY DEF Agreed
  <2>2. drift = {} /\ \A t \in MSetters : setter[t].at = "idle"
    BY <1>2, <2>1
  <2>3. InStep(config.sched)
    BY <1>0, <2>2 DEF Agreed
  <2>4. InStep(config.sched)'
    BY <1>2, <2>3 DEF InStep, Started
  <2>5. \A t \in MSetters : t # s => setter'[t].at = "idle"
    BY <1>0, <1>2, <2>2, MtTyped
  <2>6. setter'[s].at = "os"
    BY <1>0, <1>1, <1>2, MtTyped
  <2> QED
    BY <2>4, <2>5, <2>6 DEF Agreed
<1> QED
  BY <1>3, <1>4, <1>5 DEF MtInv

LEMMA SetTaskKeeps ==
  ASSUME MtInv, NEW s \in MSetters, NEW ok \in BOOLEAN, SetTask(s, ok)
  PROVE  MtInv'
<1> DEFINE r == IF ok THEN [setter[s] EXCEPT !.at = "save"] ELSE Idle
<1>0. MtTypeOK /\ FreshSaw /\ Agreed
  BY DEF MtInv
<1>1. /\ r \in Commands /\ (ok => r.at = "save" /\ r.sched = setter[s].sched) /\ (~ ok => r.at = "idle")
  <2>1. setter[s] \in Commands
    BY <1>0, MtTyped
  <2> QED
    BY <2>1, MtConstants DEF Commands
<1>2. /\ setter[s].at = "os" /\ setter[s].sched \in MtChoices
      /\ setter' = [setter EXCEPT ![s] = r]
      /\ drift' = IF ok /\ loaded' = unit' THEN drift
                  ELSE IF <<loaded', unit', cron'>> = <<loaded, unit, cron>> THEN drift
                  ELSE drift \cup {"backend"}
      /\ UNCHANGED <<platform, config, systemd, run, sets, changes>>
  <2>1. setter[s] \in Commands
    BY <1>0, MtTyped
  <2> QED
    BY <2>1 DEF SetTask, Commands
<1>3. \/ setter[s].sched = MOff /\ UnregisterTask(ok)
      \/ setter[s].sched \in MSchedules /\ RegisterTask(setter[s].sched, ok)
  BY <1>2 DEF SetTask, MtChoices
<1> HIDE DEF r
<1>4. loaded' \in MtChoices /\ unit' \in MtChoices /\ cron' \in MtChoices
  BY <1>0, <1>3, OsStaysTyped
<1>5. MtTypeOK'
  <2>1. drift' \subseteq Reasons
    BY <1>0, <1>2, MtTyped DEF Reasons
  <2>2. setter' \in [MSetters -> Commands]
    BY <1>0, <1>1, <1>2, MtTyped
  <2> QED
    BY <1>0, <1>2, <1>4, <2>1, <2>2, MtTyped, MtTypes
<1>6. FreshSaw'
  BY <1>0, <1>2 DEF FreshSaw
<1>7. Agreed'
  <2>1. SUFFICES ASSUME drift' = {} PROVE Agreed'
    BY DEF Agreed
  <2>2. /\ drift = {}
        /\ \/ ok /\ loaded' = unit'
           \/ <<loaded', unit', cron'>> = <<loaded, unit, cron>>
    BY <1>2, <2>1
  <2>3. \A t \in MSetters : t # s => setter[t].at = "idle" /\ setter'[t] = setter[t]
    BY <1>0, <1>2, <2>2, MtTyped DEF Agreed
  <2>4. InStep(config.sched)
    <3>1. \A t \in MSetters : setter[t].at # "save"
      BY <1>2, <2>3
    <3> QED
      BY <1>0, <2>2, <3>1 DEF Agreed
  <2>5. setter'[s] = r
    BY <1>0, <1>2, MtTyped
  <2>6. CASE ok
    <3>1. loaded' = unit'
      BY <2>2, <2>4 DEF InStep
    <3>2. ASSUME NEW c, c = setter[s].sched PROVE InStep(c)'
      <4>1. CASE c = MOff /\ UnregisterTask(TRUE)
        BY <1>0, <1>2, <2>4, <3>1, <4>1, Unregistered
      <4>2. CASE c \in MSchedules /\ RegisterTask(c, TRUE)
        BY <1>0, <1>2, <2>4, <4>2, Registered
      <4> QED
        BY <1>3, <2>6, <3>2, <4>1, <4>2
    <3>3. setter'[s].at = "save" /\ setter'[s].sched = setter[s].sched
      BY <1>1, <2>5, <2>6
    <3> QED
      BY <2>3, <3>2, <3>3 DEF Agreed
  <2>7. CASE ~ ok
    <3>1. UNCHANGED <<platform, systemd, loaded, unit, cron>>
      BY <1>2, <2>2, <2>7
    <3>2. InStep(config.sched)'
      BY <1>2, <2>4, <3>1 DEF InStep, Started
    <3> QED
      BY <1>1, <2>3, <2>5, <2>7, <3>2 DEF Agreed
  <2> QED
    BY <2>6, <2>7
<1> QED
  BY <1>5, <1>6, <1>7 DEF MtInv

LEMMA OutdatedRuns ==
  ASSUME MtTypeOK
  PROVE  /\ Outdated \in [MRuns -> MtRecords]
         /\ \A r \in MRuns : ~ (Outdated[r].at = "records" /\ Outdated[r].fresh)
<1>1. ASSUME NEW r \in MRuns
      PROVE  Outdated[r] \in MtRecords /\ ~ (Outdated[r].at = "records" /\ Outdated[r].fresh)
  <2>1. run[r] \in MtRecords
    BY MtTyped
  <2>2. CASE run[r].at = "records"
    <3>1. [run[r] EXCEPT !.fresh = FALSE] \in MtRecords /\ [run[r] EXCEPT !.fresh = FALSE].fresh = FALSE
      BY <2>1 DEF MtRecords
    <3> QED
      BY <2>2, <3>1 DEF Outdated
  <2>3. CASE run[r].at # "records"
    BY <2>1, <2>3 DEF Outdated
  <2> QED
    BY <2>2, <2>3
<1>2. Outdated = [r \in MRuns |-> Outdated[r]]
  BY DEF Outdated
<1> QED
  BY <1>1, <1>2

LEMMA SetSaveKeeps ==
  ASSUME MtInv, NEW s \in MSetters, NEW ok \in BOOLEAN, SetSave(s, ok)
  PROVE  MtInv'
<1> DEFINE saved == [setter[s].saw EXCEPT !.sched = setter[s].sched]
<1>0. MtTypeOK /\ FreshSaw /\ Agreed
  BY DEF MtInv
<1>1. setter[s] \in Commands /\ setter[s].at = "save"
      /\ saved \in Configs /\ saved.sched = setter[s].sched
  <2>1. setter[s] \in Commands
    BY <1>0, MtTyped
  <2> QED
    BY <2>1 DEF SetSave, Commands, Configs
<1>2. /\ config' = IF ok THEN saved ELSE config
      /\ run' = IF ok THEN Outdated ELSE run
      /\ setter' = [setter EXCEPT ![s] = Idle]
      /\ drift' = IF ~ ok THEN drift \cup {"save"}
                  ELSE IF InStep(setter[s].sched) /\ Alone(s) THEN {} ELSE drift
      /\ UNCHANGED <<platform, loaded, unit, cron, systemd, sets, changes>>
  BY DEF SetSave, osVars
<1> HIDE DEF saved
<1>3. MtTypeOK'
  <2>1. drift' \subseteq Reasons
    BY <1>0, <1>2, MtTyped DEF Reasons
  <2>2. setter' \in [MSetters -> Commands]
    BY <1>0, <1>2, MtConstants, MtTyped
  <2>3. config' \in Configs /\ run' \in [MRuns -> MtRecords]
    BY <1>0, <1>1, <1>2, MtTyped, OutdatedRuns
  <2> QED
    BY <1>0, <1>2, <2>1, <2>2, <2>3, MtTyped, MtTypes
<1>4. FreshSaw'
  BY <1>0, <1>2, OutdatedRuns DEF FreshSaw
<1>5. Agreed'
  <2>1. SUFFICES ASSUME drift' = {} PROVE Agreed'
    BY DEF Agreed
  <2>2. ok /\ ((InStep(setter[s].sched) /\ Alone(s)) \/ drift = {})
    BY <1>2, <2>1
  <2>3. InStep(setter[s].sched)
    BY <1>0, <1>1, <2>2 DEF Agreed
  <2>4. \A t \in MSetters : t # s => setter[t].at = "idle"
    BY <1>0, <1>1, <2>2 DEF Agreed, Alone
  <2>5. \A t \in MSetters : setter'[t].at = "idle"
    BY <1>0, <1>2, <2>4, MtConstants, MtTyped
  <2>6. ASSUME NEW c, c = config'.sched PROVE InStep(c)'
    BY <1>1, <1>2, <2>2, <2>3, <2>6 DEF InStep, Started
  <2> QED
    BY <2>5, <2>6 DEF Agreed
<1> QED
  BY <1>3, <1>4, <1>5 DEF MtInv

LEMMA RestartKeeps ==
  ASSUME MtInv, NEW ok \in BOOLEAN, AppRestart(ok)
  PROVE  MtInv'
<1>0. MtTypeOK /\ FreshSaw /\ Agreed
  BY DEF MtInv
<1>1. /\ setter' = [s \in MSetters |-> Idle]
      /\ drift' = IF <<loaded', unit', cron'>> # <<loaded, unit, cron>>
                     \/ \E s \in MSetters : setter[s].at # "idle"
                  THEN drift \cup {"backend"} ELSE drift
      /\ UNCHANGED <<platform, config, systemd, run, sets, changes>>
  BY DEF AppRestart
<1>2. loaded' \in MtChoices /\ unit' \in MtChoices /\ cron' \in MtChoices
  <2>1. CASE config.sched = MOff
    BY <1>0, <2>1, MtTyped DEF AppRestart, SameOs
  <2>2. CASE config.sched # MOff
    BY <1>0, <2>2, MtTyped, OsStaysTyped DEF AppRestart, MtChoices
  <2> QED
    BY <2>1, <2>2
<1>3. MtTypeOK'
  <2>1. drift' \subseteq Reasons
    BY <1>0, <1>1, MtTyped DEF Reasons
  <2>2. setter' \in [MSetters -> Commands]
    BY <1>1, MtConstants
  <2> QED
    BY <1>0, <1>1, <1>2, <2>1, <2>2, MtTyped, MtTypes
<1>4. FreshSaw'
  BY <1>0, <1>1 DEF FreshSaw
<1>5. Agreed'
  <2>1. SUFFICES ASSUME drift' = {} PROVE Agreed'
    BY DEF Agreed
  <2>2. /\ drift = {} /\ \A s \in MSetters : setter[s].at = "idle"
        /\ UNCHANGED <<platform, systemd, loaded, unit, cron>>
    BY <1>1, <2>1
  <2>3. InStep(config.sched)'
    BY <1>0, <1>1, <2>2 DEF Agreed, InStep, Started
  <2>4. \A s \in MSetters : setter'[s].at = "idle"
    BY <1>1, MtConstants
  <2> QED
    BY <2>3, <2>4 DEF Agreed
<1> QED
  BY <1>3, <1>4, <1>5 DEF MtInv

\* A run goes on, and who loads the file sees what is in it.
LEMMA RunMoves ==
  ASSUME MtInv, NEW r \in MRuns, NEW next \in MtRecords,
         next.at = "records" => next.saw = config,
         run' = [run EXCEPT ![r] = next],
         UNCHANGED <<platform, config, loaded, unit, cron, systemd, setter, sets, changes, drift>>
  PROVE  MtInv'
<1>0. MtTypeOK /\ FreshSaw /\ Agreed
  BY DEF MtInv
<1>1. run' \in [MRuns -> MtRecords]
  BY <1>0, MtTyped
<1>2. MtTypeOK'
  BY <1>0, <1>1, MtTyped, MtTypes
<1>3. FreshSaw'
  BY <1>0, MtTyped DEF FreshSaw
<1>4. Agreed'
  BY <1>0 DEF Agreed, InStep, Started
<1> QED
  BY <1>2, <1>3, <1>4 DEF MtInv

LEMMA RunKeeps ==
  ASSUME MtInv, NEW r \in MRuns, RunBegins(r) \/ RunEnds(r) \/ RecordLoad(r)
  PROVE  MtInv'
<1>0. MtTypeOK /\ run[r] \in MtRecords /\ config \in Configs
  BY MtTyped DEF MtInv
<1>1. CASE RunBegins(r)
  <2> DEFINE next == [run[r] EXCEPT !.at = "runs", !.outcome = IF SomeoneRuns THEN "busy" ELSE "none"]
  <2>1. next \in MtRecords /\ next.at = "runs"
    BY <1>0 DEF MtRecords, Outcomes
  <2>2. /\ run' = [run EXCEPT ![r] = next]
        /\ UNCHANGED <<platform, config, loaded, unit, cron, systemd, setter, sets, changes, drift>>
    BY <1>1 DEF RunBegins, osVars
  <2> HIDE DEF next
  <2> QED
    BY <2>1, <2>2, RunMoves
<1>2. CASE RunEnds(r)
  <2>1. PICK o \in {"completed", "busy", "failed"} :
          run' = [run EXCEPT ![r] = [run[r] EXCEPT !.at = "ended", !.outcome = o]]
    BY <1>2 DEF RunEnds
  <2> DEFINE next == [run[r] EXCEPT !.at = "ended", !.outcome = o]
  <2>2. next \in MtRecords /\ next.at = "ended"
    BY <1>0 DEF MtRecords, Outcomes
  <2>3. /\ run' = [run EXCEPT ![r] = next]
        /\ UNCHANGED <<platform, config, loaded, unit, cron, systemd, setter, sets, changes, drift>>
    BY <1>2, <2>1 DEF RunEnds, osVars
  <2> HIDE DEF next
  <2> QED
    BY <2>2, <2>3, RunMoves
<1>3. CASE RecordLoad(r)
  <2> DEFINE next == [run[r] EXCEPT !.at = "records", !.saw = config]
  <2>1. next \in MtRecords /\ next.saw = config
    BY <1>0 DEF MtRecords
  <2>2. /\ run' = [run EXCEPT ![r] = next]
        /\ UNCHANGED <<platform, config, loaded, unit, cron, systemd, setter, sets, changes, drift>>
    BY <1>3 DEF RecordLoad, osVars
  <2> HIDE DEF next
  <2> QED
    BY <2>1, <2>2, RunMoves
<1> QED
  BY <1>1, <1>2, <1>3

LEMMA RecordSaveKeeps ==
  ASSUME MtInv, NEW r \in MRuns, NEW ok \in BOOLEAN, RecordSave(r, ok)
  PROVE  MtInv'
<1> DEFINE saved == [run[r].saw EXCEPT !.last = run[r].outcome]
           next == [NoRun EXCEPT !.at = "over"]
           base == IF ok /\ run[r].saw.sched # config.sched THEN Outdated ELSE run
<1>0. MtTypeOK /\ FreshSaw /\ Agreed
  BY DEF MtInv
<1>1. run[r] \in MtRecords /\ saved \in Configs /\ saved.sched = run[r].saw.sched
  <2>1. run[r] \in MtRecords
    BY <1>0, MtTyped
  <2> QED
    BY <2>1 DEF MtRecords, Configs
<1>2. next \in MtRecords /\ next.at = "over"
  BY MtConstants DEF MtRecords
<1>3. /\ run[r].at = "records" /\ config' = IF ok THEN saved ELSE config
      /\ drift' = IF ok /\ ~ run[r].fresh THEN drift \cup {"record"} ELSE drift
      /\ run' = [base EXCEPT ![r] = next]
      /\ UNCHANGED <<platform, loaded, unit, cron, systemd, setter, sets, changes>>
  BY DEF RecordSave, osVars
<1>4. base \in [MRuns -> MtRecords] /\ (ok /\ run[r].saw.sched # config.sched => base = Outdated)
      /\ (~ (ok /\ run[r].saw.sched # config.sched) => base = run)
  BY <1>0, MtTyped, OutdatedRuns
<1> HIDE DEF saved, next, base
<1>5. run' \in [MRuns -> MtRecords] /\ run'[r] = next /\ \A q \in MRuns : q # r => run'[q] = base[q]
  BY <1>2, <1>3, <1>4
<1>6. MtTypeOK'
  <2>1. drift' \subseteq Reasons
    BY <1>0, <1>3, MtTyped DEF Reasons
  <2>2. config' \in Configs
    BY <1>0, <1>1, <1>3, MtTyped
  <2> QED
    BY <1>0, <1>3, <1>5, <2>1, <2>2, MtTyped, MtTypes
<1>7. FreshSaw'
  <2>1. CASE ok /\ run[r].saw.sched # config.sched
    BY <1>0, <1>2, <1>4, <1>5, <2>1, OutdatedRuns DEF FreshSaw
  <2>2. CASE ~ (ok /\ run[r].saw.sched # config.sched)
    <3>1. config'.sched = config.sched
      BY <1>1, <1>3, <2>2
    <3> QED
      BY <1>0, <1>2, <1>4, <1>5, <2>2, <3>1 DEF FreshSaw
  <2> QED
    BY <2>1, <2>2
<1>8. Agreed'
  <2>1. SUFFICES ASSUME drift' = {} PROVE Agreed'
    BY DEF Agreed
  <2>2. drift = {} /\ (ok => run[r].fresh)
    BY <1>3, <2>1
  <2>3. config'.sched = config.sched
    BY <1>0, <1>1, <1>3, <2>2 DEF FreshSaw
  <2>4. ASSUME NEW c PROVE InStep(c) => InStep(c)'
    BY <1>3 DEF InStep, Started
  <2> QED
    BY <1>0, <1>3, <2>2, <2>3, <2>4 DEF Agreed
<1> QED
  BY <1>6, <1>7, <1>8 DEF MtInv

-----------------------------------------------------------------------------
LEMMA MtStep == MtInv /\ [MtNext]_mtVars => MtInv'
<1> SUFFICES ASSUME MtInv, [MtNext]_mtVars PROVE MtInv'
  OBVIOUS
<1>1. CASE MtNext
  BY <1>1, FacilityKeeps, SetLoadKeeps, SetTaskKeeps, SetSaveKeeps, RestartKeeps, RunKeeps,
     RecordSaveKeeps DEF MtNext
<1>2. CASE UNCHANGED mtVars
  BY <1>2 DEF mtVars, osVars, MtInv, MtTypeOK, FreshSaw, Agreed, InStep, Started
<1> QED
  BY <1>1, <1>2

LEMMA MtInvariant == MtSpec => []MtInv
  BY MtStarts, MtStep, PTL DEF MtSpec

\* With no command under way and nothing that sets them apart, the schedule in the
\* file is the one the operating system will start.
THEOREM TabIsTrue == MtSpec => []TabMatchesOs
<1>1. MtInv => TabMatchesOs
  BY DEF MtInv, Agreed, TabMatchesOs, InStep
<1> QED
  BY <1>1, MtInvariant, PTL

\* The step of RecordKeepsSchedule.
ScheduleKept ==
  \A r \in MRuns :
    run[r].at = "records" /\ run'[r].at = "over" /\ run[r].fresh => config'.sched = config.sched

LEMMA RecordKeeps == MtInv /\ [MtNext]_mtVars => ScheduleKept
<1> SUFFICES ASSUME MtInv, [MtNext]_mtVars, NEW r \in MRuns,
                    run[r].at = "records", run'[r].at = "over", run[r].fresh
             PROVE  config'.sched = config.sched
  BY DEF ScheduleKept
<1>0. MtTypeOK /\ FreshSaw /\ run \in [MRuns -> MtRecords] /\ run[r].saw.sched = config.sched
  BY MtTyped DEF MtInv, FreshSaw
<1>1. ASSUME NEW s \in MSetters, NEW ok \in BOOLEAN, SetSave(s, ok)
      PROVE  FALSE
  BY <1>1 DEF SetSave, Outdated
<1>2. ASSUME NEW q \in MRuns, NEW ok \in BOOLEAN, RecordSave(q, ok)
      PROVE  config'.sched = config.sched
  <2>1. CASE q = r
    <3>1. run[q].saw \in Configs
      BY <1>0 DEF MtRecords
    <3> QED
      BY <1>0, <1>2, <2>1, <3>1 DEF RecordSave, Configs
  <2>2. CASE q # r
    <3>1. run'[r].at = "records"
      <4>1. Outdated[r].at = "records"
        BY <1>0 DEF Outdated, MtRecords
      <4>2. run' = [Outdated EXCEPT ![q] = [NoRun EXCEPT !.at = "over"]]
            \/ run' = [run EXCEPT ![q] = [NoRun EXCEPT !.at = "over"]]
        BY <1>2 DEF RecordSave
      <4> QED
        BY <1>0, <2>2, <4>1, <4>2, OutdatedRuns
    <3> QED
      BY <3>1
  <2> QED
    BY <2>1, <2>2
<1>3. (\E s \in MSetters, ok \in BOOLEAN : SetSave(s, ok))
      \/ (\E q \in MRuns, ok \in BOOLEAN : RecordSave(q, ok)) \/ UNCHANGED config
  BY DEF MtNext, mtVars, FacilityChanges, SetLoad, SetTask, AppRestart, RunBegins, RunEnds,
         RecordLoad
<1> QED
  BY <1>1, <1>2, <1>3

\* Recording a run reverts a change of the schedule only when that change was saved
\* between the recorder's read and its rename.
THEOREM RunsLeaveSchedule == MtSpec => RecordKeepsSchedule
<1>1. MtInv /\ [MtNext]_mtVars => [ScheduleKept]_mtVars
  BY RecordKeeps
<1>2. MtSpec => [][ScheduleKept]_mtVars
  BY <1>1, MtInvariant, PTL DEF MtSpec
<1> QED
  BY <1>2 DEF RecordKeepsSchedule, ScheduleKept

-----------------------------------------------------------------------------
(***************************************************************************)
(* The keys, followed through the hands they pass.  A key not yet stored   *)
(* is in one hand only and was never erased; without an overlap one        *)
(* process sets up, and whoever else has a key has the one in the          *)
(* credential store or one whose erasure was reported.                     *)
(***************************************************************************)

Startings == [at : Steps, cli : BOOLEAN, key : Keys]
Holding   == {"open", "using", "erasing"}
Unstored  == {"store", "write"}
Bridged  == {"snapshot", "rekey", "restore", "discard", "rollback", "clean"}

\* The keys in use were generated, the V0.1 passphrase is not among them, and one that
\* is still to be stored is in one hand and neither stored nor erased.
KeysInHand ==
  /\ entry # V01 /\ entry <= issued
  /\ \A k \in gone : k > V01 /\ k <= issued
  /\ \A p \in KProcs :
       /\ start[p].key <= issued
       /\ start[p].at \in Holding \cup Unstored \cup Bridged => start[p].key > V01
       /\ start[p].at = "erasing" => start[p].key \in gone
       /\ start[p].at \in Unstored =>
            /\ start[p].key # entry /\ start[p].key \notin gone
            /\ \A q \in KProcs \ {p} : start[q].key # start[p].key

\* An erased key does not come back.
NeverAgain == "unread" \notin mishaps => entry \notin gone

Spoilt(names) == mishaps \cap names # {}

OneSetsUp ==
  "overlap" \notin mishaps =>
    \A p, q \in KProcs : start[p].at \in Setting /\ start[q].at \in Setting => p = q

\* Who has a key has the stored one or one that was reported erased.
KeysKnown ==
  ~ Spoilt({"overlap", "unread"}) =>
    /\ \A p \in KProcs : start[p].at \in {"verify", "store", "write"} => entry = NoKey
    /\ \A p \in KProcs : start[p].at \in Holding \cup Bridged =>
                           start[p].key \in {entry} \cup gone
    /\ \A p, q \in KProcs : start[p].at \in Bridged /\ start[q].at \in Holding =>
                              start[q].key \in gone

\* While the bridge could still undo what it did, nothing but its own new key would be
\* lost by it.
Safe == {NoKey, V01} \cup gone
Undoable ==
  ~ Spoilt({"overlap", "restore", "unread"}) =>
    \A p \in KProcs :
      /\ start[p].at \in {"snapshot", "rekey", "discard", "rollback"} => db \in Safe
      /\ start[p].at \in {"rekey", "restore"} => snap \in Safe

\* A V0.1 database beside a key is a bridge's under way.
BridgeUnderWay ==
  ~ Spoilt({"overlap", "cli", "crash", "rollback", "restore", "unread"}) =>
    /\ db = V01 /\ entry # NoKey =>
         \E p \in KProcs : start[p].at \in {"snapshot", "rekey", "restore", "discard", "rollback"}
    /\ \A p \in KProcs : start[p].at \in {"store", "clean"} => db # V01

KeyInv ==
  /\ KeyTypeOK /\ KeysInHand /\ NeverAgain
  /\ OneSetsUp /\ KeysKnown /\ Undoable /\ BridgeUnderWay
  /\ DataSurvives

LEMMA KeyStarts == KeyInit => KeyInv
<1> SUFFICES ASSUME KeyInit PROVE KeyInv
  OBVIOUS
<1>1. KeyTypeOK
  BY CustodyAssumption
     DEF CustodyAssumption, KeyInit, KeyTypeOK, Keys, Files, Torn, NoKey, V01, Steps
<1>2. \A p \in KProcs : start[p].at = "out" /\ start[p].key = NoKey
  BY DEF KeyInit
<1> QED
  BY <1>1, <1>2
     DEF KeyInit, KeyInv, KeysInHand, NeverAgain, OneSetsUp, KeysKnown, Undoable, Spoilt,
         BridgeUnderWay, DataSurvives, Holding, Unstored, Bridged, Setting, Bridging, NoKey, V01

-----------------------------------------------------------------------------
\* What a step does to the table of processes.

\* The facts every step starts from.
LEMMA KeyFacts ==
  ASSUME KeyTypeOK
  PROVE  /\ KMaxKeys \in Nat /\ issued \in Nat /\ entry \in Nat
         /\ \A p \in KProcs : start[p] \in Startings /\ start[p].key \in Nat
         /\ gone \subseteq Nat
  BY CustodyAssumption DEF CustodyAssumption, KeyTypeOK, Keys, Startings

\* One process moves, and has another key in hand.
Moves(p, s, k) ==
  /\ start' \in [KProcs -> Startings]
  /\ start'[p].at = s /\ start'[p].key = k
  /\ \A q \in KProcs \ {p} : start'[q] = start[q]

LEMMA GoMoves ==
  ASSUME KeyTypeOK, NEW p \in KProcs, NEW s \in Steps, Go(p, s)
  PROVE  Moves(p, s, start[p].key)
<1> DEFINE r == [start[p] EXCEPT !.at = s]
<1>1. start \in [KProcs -> Startings]
  BY DEF KeyTypeOK, Startings
<1>2. r \in Startings /\ r.at = s /\ r.key = start[p].key
  BY <1>1 DEF Startings
<1>3. start' = [start EXCEPT ![p] = r]
  BY DEF Go
<1> HIDE DEF r
<1> QED
  BY <1>1, <1>2, <1>3 DEF Moves

LEMMA GoWithMoves ==
  ASSUME KeyTypeOK, NEW p \in KProcs, NEW s \in Steps, NEW k \in Keys, GoWith(p, s, k)
  PROVE  Moves(p, s, k)
<1> DEFINE r == [start[p] EXCEPT !.at = s, !.key = k]
<1>1. start \in [KProcs -> Startings]
  BY DEF KeyTypeOK, Startings
<1>2. r \in Startings /\ r.at = s /\ r.key = k
  BY <1>1 DEF Startings
<1>3. start' = [start EXCEPT ![p] = r]
  BY DEF GoWith
<1> HIDE DEF r
<1> QED
  BY <1>1, <1>2, <1>3 DEF Moves

LEMMA StopMoves ==
  ASSUME KeyTypeOK, NEW p \in KProcs, Stop(p)
  PROVE  Moves(p, "out", NoKey)
BY GoWithMoves, CustodyAssumption DEF CustodyAssumption, Stop, Keys, NoKey, Steps

LEMMA LaunchMoves ==
  ASSUME KeyTypeOK, NEW p \in KProcs, NEW cli \in BOOLEAN, Launch(p, cli)
  PROVE  Moves(p, "probe", start[p].key)
<1> DEFINE r == [start[p] EXCEPT !.at = "probe", !.cli = cli]
<1>1. start \in [KProcs -> Startings]
  BY DEF KeyTypeOK, Startings
<1>2. r \in Startings /\ r.at = "probe" /\ r.key = start[p].key
  BY <1>1 DEF Startings, Steps
<1>3. start' = [start EXCEPT ![p] = r]
  BY DEF Launch
<1> HIDE DEF r
<1> QED
  BY <1>1, <1>2, <1>3 DEF Moves

-----------------------------------------------------------------------------
\* A key that is generated is in one hand only.
LEMMA Generated ==
  ASSUME KeyTypeOK, KeysInHand, NEW p \in KProcs, NEW s \in Unstored, Moves(p, s, issued'),
         issued' = issued + 1, UNCHANGED <<entry, gone>>
  PROVE  KeysInHand'
<1>1. /\ issued \in Nat /\ entry \in Nat /\ gone \subseteq Nat
      /\ \A q \in KProcs : start[q].key \in Nat
  BY KeyFacts
<1>2. /\ start'[p].key = issued + 1 /\ start'[p].at = s
      /\ \A q \in KProcs \ {p} : start'[q] = start[q]
  BY DEF Moves
<1>3. entry # V01 /\ entry < issued + 1 /\ \A k \in gone : k > V01 /\ k < issued + 1
  BY <1>1 DEF KeysInHand
<1>4. ASSUME NEW q \in KProcs
      PROVE  /\ start'[q].key <= issued'
             /\ start'[q].at \in Holding \cup Unstored \cup Bridged => start'[q].key > V01
             /\ start'[q].at = "erasing" => start'[q].key \in gone
             /\ start'[q].at \in Unstored =>
                  /\ start'[q].key # entry /\ start'[q].key \notin gone
                  /\ \A r \in KProcs \ {q} : start'[r].key # start'[q].key
  <2>1. \A r \in KProcs : start[r].key < issued + 1
    BY <1>1 DEF KeysInHand
  <2>2. CASE q = p
    <3>1. issued >= 1
      BY DEF KeyTypeOK
    <3> QED BY <1>1, <1>2, <1>3, <2>1, <2>2, <3>1 DEF Unstored, V01
  <2>3. CASE q # p
    BY <1>1, <1>2, <2>1, <2>3 DEF KeysInHand
  <2> QED BY <2>2, <2>3
<1>5. entry <= issued'
  BY <1>1, <1>3
<1> QED
  BY <1>1, <1>3, <1>4, <1>5 DEF KeysInHand

\* A key that is stored: nobody else has it, and who has another has an erased one.
LEMMA Stored ==
  ASSUME KeyInv, NEW p \in KProcs, start[p].at \in Unstored, entry' = start[p].key,
         NEW s \in {"open", "snapshot"}, Moves(p, s, start[p].key),
         UNCHANGED <<issued, gone, mishaps>>
  PROVE  KeysInHand' /\ NeverAgain' /\ KeysKnown'
<1>1. /\ \A q \in KProcs \ {p} : start'[q] = start[q]
      /\ start'[p].at = s /\ start'[p].key = start[p].key
  BY DEF Moves
<1>2. start[p].key > V01 /\ start[p].key \notin gone /\ start[p].key <= issued
  BY DEF KeyInv, KeysInHand
<1>3. \A q \in KProcs \ {p} : start[q].key # start[p].key
  BY DEF KeyInv, KeysInHand
<1>4. KeysInHand'
  BY <1>1, <1>2, <1>3, KeyFacts DEF KeyInv, KeysInHand, Holding, Unstored, Bridged, V01
<1>5. NeverAgain'
  BY <1>2 DEF NeverAgain
<1>6. KeysKnown'
  <2> SUFFICES ASSUME ~ Spoilt({"overlap", "unread"}) PROVE KeysKnown'
    BY DEF KeysKnown, Spoilt
  <2>1. \A q \in KProcs \ {p} : start[q].at \notin Setting
    BY DEF KeyInv, OneSetsUp, Spoilt, Setting, Bridging, Unstored
  <2>2. entry = NoKey
    BY DEF KeyInv, KeysKnown, Unstored
  <2>3. \A q \in KProcs : start[q].at \in Holding => start[q].key \in gone
    <3> SUFFICES ASSUME NEW q \in KProcs, start[q].at \in Holding PROVE start[q].key \in gone
      OBVIOUS
    <3>1. start[q].key \in {entry} \cup gone /\ start[q].key > V01
      BY DEF KeyInv, KeysKnown, KeysInHand
    <3> QED BY <2>2, <3>1 DEF V01, NoKey
  <2> QED BY <1>1, <2>1, <2>3 DEF KeysKnown, Holding, Bridged, Setting, Bridging, Unstored
<1> QED BY <1>4, <1>5, <1>6

-----------------------------------------------------------------------------
\* One lemma for each step.

LEMMA LaunchKeeps ==
  ASSUME KeyInv, NEW p \in KProcs, NEW cli \in BOOLEAN, Launch(p, cli)
  PROVE  KeyInv'
<1>1. KeyTypeOK
  BY DEF KeyInv
<1>2. Moves(p, "probe", start[p].key)
  BY <1>1, LaunchMoves
<1>3. KeyTypeOK'
  BY <1>1, <1>2, CustodyAssumption DEF CustodyAssumption, Moves, Launch, KeyTypeOK, Startings
<1> QED
  BY <1>1, <1>2, <1>3, KeyFacts
     DEF Moves, Launch, At, KeyInv, KeysInHand, NeverAgain, OneSetsUp, KeysKnown, Undoable,
         Spoilt, Safe, BridgeUnderWay, DataSurvives, Holding, Unstored, Bridged, Setting, Bridging, NoKey, V01

LEMMA ProbeKeeps ==
  ASSUME KeyInv, NEW p \in KProcs, Probe(p)
  PROVE  KeyInv'
<1>1. KeyTypeOK
  BY DEF KeyInv
<1>2. PICK s \in {"init", "open", "verify", "out"}, k \in Keys :
        /\ Moves(p, s, k)
        /\ s = "open" => k = entry /\ entry # NoKey
        /\ s = "verify" => entry = NoKey
        /\ k \in {NoKey, entry, start[p].key}
  <2>1. entry \in Keys /\ start[p].key \in Keys /\ NoKey \in Keys
    BY <1>1, KeyFacts, CustodyAssumption DEF CustodyAssumption, KeyTypeOK, Keys, NoKey
  <2>2. CASE start[p].cli /\ Go(p, "init")
    BY <1>1, <2>1, <2>2, GoMoves DEF Steps
  <2>3. CASE entry # NoKey /\ GoWith(p, "open", entry)
    BY <1>1, <2>1, <2>3, GoWithMoves DEF Steps
  <2>4. CASE entry = NoKey /\ Go(p, IF db = NoKey THEN "init" ELSE "verify")
    BY <1>1, <2>1, <2>4, GoMoves DEF Steps
  <2>5. CASE Stop(p)
    BY <1>1, <2>1, <2>5, StopMoves
  <2> QED BY <2>2, <2>3, <2>4, <2>5 DEF Probe
<1>3. KeyTypeOK'
  BY <1>1, <1>2 DEF Moves, Probe, OverlapOf, Note, KeyTypeOK, Startings, Mishaps
<1> QED
  BY <1>1, <1>2, <1>3, KeyFacts
     DEF Moves, Probe, At, Note, OverlapOf, Others,
         KeyInv, KeysInHand, NeverAgain, OneSetsUp, KeysKnown, Undoable,
         Spoilt, Safe, BridgeUnderWay, DataSurvives, Holding, Unstored, Bridged, Setting, Bridging, NoKey, V01

LEMMA InitReadKeeps ==
  ASSUME KeyInv, NEW p \in KProcs, InitRead(p)
  PROVE  KeyInv'
<1>1. KeyTypeOK /\ entry \in Keys /\ start[p].key \in Keys /\ NoKey \in Keys
  BY KeyFacts, CustodyAssumption DEF CustodyAssumption, KeyInv, KeyTypeOK, Keys, NoKey
<1>2. \/ /\ entry # NoKey /\ Moves(p, "open", entry)
         /\ issued' = issued /\ mishaps' = mishaps \cup OverlapOf(p)
      \/ /\ entry = NoKey /\ Moves(p, "store", issued')
         /\ issued' = issued + 1 /\ issued' \in Keys /\ issued' <= KMaxKeys
         /\ mishaps' = mishaps \cup (IF db # NoKey THEN {"cli"} ELSE {})
  <2>1. CASE entry # NoKey
    BY <1>1, <2>1, GoWithMoves DEF InitRead, Steps, Note
  <2>2. CASE entry = NoKey
    <3>1. issued' \in Keys /\ issued' <= KMaxKeys
      BY <1>1, <2>2, CustodyAssumption DEF CustodyAssumption, InitRead, KeyTypeOK, Keys
    <3> QED BY <1>1, <2>2, <3>1, GoWithMoves DEF InitRead, Steps, Note
  <2> QED BY <2>1, <2>2
<1>2a. At(p, "init") /\ UNCHANGED <<entry, db, snap, starts, gone>>
  BY DEF InitRead
<1>3. KeyTypeOK'
  <2>1. issued' \in 1..KMaxKeys /\ start' \in [KProcs -> Startings]
    BY <1>1, <1>2, CustodyAssumption DEF CustodyAssumption, Moves, KeyTypeOK
  <2>2. mishaps' \subseteq Mishaps
    BY <1>1, <1>2 DEF KeyTypeOK, OverlapOf, Mishaps
  <2> QED BY <1>1, <1>2a, <2>1, <2>2 DEF KeyTypeOK, Startings
<1> USE <1>1, <1>2a, KeyFacts
    DEF KeyInv, Moves, At, OverlapOf, Others,
        Holding, Unstored, Bridged, Setting, Bridging, NoKey, V01
<1>4. KeysInHand' /\ NeverAgain'
  <2>1. CASE entry # NoKey
    BY <1>2, <2>1 DEF KeysInHand, NeverAgain
  <2>2. CASE entry = NoKey
    BY <1>2, <2>2, Generated DEF NeverAgain
  <2> QED BY <2>1, <2>2
<1>5. OneSetsUp'
  BY <1>2 DEF OneSetsUp
<1>6. KeysKnown'
  BY <1>2 DEF KeysInHand, OneSetsUp, KeysKnown, Spoilt
<1>7. Undoable'
  BY <1>2 DEF KeysInHand, OneSetsUp, KeysKnown, Undoable, Spoilt, Safe, DataSurvives
<1>8. BridgeUnderWay'
  BY <1>2 DEF KeysInHand, OneSetsUp, KeysKnown, BridgeUnderWay, Spoilt
<1>9. DataSurvives'
  BY <1>2 DEF KeysInHand, OneSetsUp, KeysKnown, Undoable, Spoilt, Safe, DataSurvives
<1> QED
  BY <1>3, <1>4, <1>5, <1>6, <1>7, <1>8, <1>9

LEMMA InitStoreKeeps ==
  ASSUME KeyInv, NEW p \in KProcs, NEW ok \in BOOLEAN, InitStore(p, ok)
  PROVE  KeyInv'
<1>1. KeyTypeOK /\ entry \in Keys /\ start[p].key \in Keys /\ NoKey \in Keys
  BY KeyFacts, CustodyAssumption DEF CustodyAssumption, KeyInv, KeyTypeOK, Keys, NoKey
<1>2. Moves(p, "open", start[p].key) \/ Moves(p, "out", NoKey)
  BY <1>1, GoMoves, StopMoves DEF InitStore, Steps
<1>3. KeyTypeOK'
  BY <1>1, <1>2, CustodyAssumption
     DEF CustodyAssumption, Moves, InitStore, KeyTypeOK, Startings, keyHist
<1> USE <1>1, <1>2, KeyFacts
    DEF KeyInv, Moves, InitStore, At, keyHist,
        Holding, Unstored, Bridged, Setting, Bridging, NoKey, V01
<1>4. KeysInHand' /\ NeverAgain'
  BY DEF KeysInHand, NeverAgain
<1>5. OneSetsUp'
  BY DEF OneSetsUp
<1>6. KeysKnown'
  <2>1. CASE ok
    BY <2>1, GoMoves, Stored DEF Steps
  <2>2. CASE ~ ok
    BY <2>2, StopMoves DEF KeysKnown, Spoilt
  <2> QED BY <2>1, <2>2
<1>7. Undoable'
  BY DEF KeysInHand, OneSetsUp, KeysKnown, Undoable, Spoilt, Safe, DataSurvives
<1>8. BridgeUnderWay'
  BY DEF KeysInHand, OneSetsUp, KeysKnown, BridgeUnderWay, Spoilt
<1>9. DataSurvives'
  BY DEF KeysInHand, OneSetsUp, KeysKnown, Undoable, Spoilt, Safe, DataSurvives
<1> QED
  BY <1>3, <1>4, <1>5, <1>6, <1>7, <1>8, <1>9

LEMMA OpenVaultKeeps ==
  ASSUME KeyInv, NEW p \in KProcs, OpenVault(p)
  PROVE  KeyInv'
<1>1. KeyTypeOK /\ entry \in Keys /\ start[p].key \in Keys /\ NoKey \in Keys
  BY KeyFacts, CustodyAssumption DEF CustodyAssumption, KeyInv, KeyTypeOK, Keys, NoKey
<1>2. Moves(p, "using", start[p].key) \/ Moves(p, "out", NoKey)
  BY <1>1, GoMoves, StopMoves DEF OpenVault, Steps
<1>3. KeyTypeOK'
  BY <1>1, <1>2, CustodyAssumption
     DEF CustodyAssumption, Moves, OpenVault, KeyTypeOK, Startings, keyHist, Keys, Files, Torn
<1> QED
  BY <1>1, <1>2, <1>3, KeyFacts
     DEF Moves, OpenVault, At, keyHist,
         KeyInv, KeysInHand, NeverAgain, OneSetsUp, KeysKnown, Undoable,
         Spoilt, Safe, BridgeUnderWay, DataSurvives, Holding, Unstored, Bridged, Setting, Bridging, NoKey, V01

LEMMA QuitKeeps ==
  ASSUME KeyInv, NEW p \in KProcs, Quit(p)
  PROVE  KeyInv'
<1>1. KeyTypeOK /\ entry \in Keys /\ start[p].key \in Keys /\ NoKey \in Keys
  BY KeyFacts, CustodyAssumption DEF CustodyAssumption, KeyInv, KeyTypeOK, Keys, NoKey
<1>2. Moves(p, "out", NoKey)
  BY <1>1, StopMoves DEF Quit, Steps
<1>3. KeyTypeOK'
  BY <1>1, <1>2, CustodyAssumption
     DEF CustodyAssumption, Moves, Quit, KeyTypeOK, Startings, keyHist
<1> QED
  BY <1>1, <1>2, <1>3, KeyFacts
     DEF Moves, Quit, At, keyHist,
         KeyInv, KeysInHand, NeverAgain, OneSetsUp, KeysKnown, Undoable,
         Spoilt, Safe, BridgeUnderWay, DataSurvives, Holding, Unstored, Bridged, Setting, Bridging, NoKey, V01

LEMMA DieKeeps ==
  ASSUME KeyInv, NEW p \in KProcs, Die(p)
  PROVE  KeyInv'
<1>1. KeyTypeOK /\ entry \in Keys /\ start[p].key \in Keys /\ NoKey \in Keys
  BY KeyFacts, CustodyAssumption DEF CustodyAssumption, KeyInv, KeyTypeOK, Keys, NoKey
<1>2. Moves(p, "out", NoKey)
  BY <1>1, StopMoves DEF Die, Steps
<1>3. KeyTypeOK'
  BY <1>1, <1>2, CustodyAssumption
     DEF CustodyAssumption, Moves, Die, KeyTypeOK, Startings, Note, Mishaps
<1> QED
  BY <1>1, <1>2, <1>3, KeyFacts
     DEF Moves, Die, At, Note,
         KeyInv, KeysInHand, NeverAgain, OneSetsUp, KeysKnown, Undoable,
         Spoilt, Safe, BridgeUnderWay, DataSurvives, Holding, Unstored, Bridged, Setting, Bridging, NoKey, V01

LEMMA BridgeVerifyKeeps ==
  ASSUME KeyInv, NEW p \in KProcs, BridgeVerify(p)
  PROVE  KeyInv'
<1>1. KeyTypeOK /\ entry \in Keys /\ start[p].key \in Keys /\ NoKey \in Keys
  BY KeyFacts, CustodyAssumption DEF CustodyAssumption, KeyInv, KeyTypeOK, Keys, NoKey
<1>2. \/ issued' = issued + 1 /\ Moves(p, "write", issued')
      \/ issued' = issued /\ Moves(p, "out", NoKey)
  <2>1. CASE db = V01
    <3>1. issued' \in Keys
      BY <1>1, <2>1, CustodyAssumption DEF CustodyAssumption, BridgeVerify, KeyTypeOK, Keys
    <3> QED BY <1>1, <2>1, <3>1, GoWithMoves DEF BridgeVerify, Steps
  <2>2. CASE db # V01
    BY <1>1, <2>2, StopMoves DEF BridgeVerify
  <2> QED BY <2>1, <2>2
<1>3. KeyTypeOK'
  BY <1>1, <1>2, CustodyAssumption
     DEF CustodyAssumption, Moves, BridgeVerify, KeyTypeOK, Startings, keyHist, Keys
<1> USE <1>1, <1>2, KeyFacts
    DEF KeyInv, Moves, BridgeVerify, At, keyHist,
        Holding, Unstored, Bridged, Setting, Bridging, NoKey, V01
<1>4. KeysInHand' /\ NeverAgain'
  <2>1. NeverAgain'
    BY DEF NeverAgain
  <2>2. CASE Moves(p, "write", issued') /\ issued' = issued + 1
    BY <2>1, <2>2, Generated
  <2>3. CASE Moves(p, "out", NoKey) /\ issued' = issued
    BY <2>1, <2>3 DEF KeysInHand
  <2> QED BY <2>2, <2>3
<1>5. OneSetsUp'
  BY DEF OneSetsUp
<1>6. KeysKnown'
  BY DEF KeysInHand, OneSetsUp, KeysKnown, Spoilt
<1>7. Undoable'
  BY DEF KeysInHand, OneSetsUp, KeysKnown, Undoable, Spoilt, Safe, DataSurvives
<1>8. BridgeUnderWay'
  BY DEF KeysInHand, OneSetsUp, KeysKnown, BridgeUnderWay, Spoilt
<1>9. DataSurvives'
  BY DEF KeysInHand, OneSetsUp, KeysKnown, Undoable, Spoilt, Safe, DataSurvives
<1> QED
  BY <1>3, <1>4, <1>5, <1>6, <1>7, <1>8, <1>9

LEMMA BridgeWriteEntryKeeps ==
  ASSUME KeyInv, NEW p \in KProcs, NEW ok \in BOOLEAN, BridgeWriteEntry(p, ok)
  PROVE  KeyInv'
<1>1. KeyTypeOK /\ entry \in Keys /\ start[p].key \in Keys /\ NoKey \in Keys
  BY KeyFacts, CustodyAssumption DEF CustodyAssumption, KeyInv, KeyTypeOK, Keys, NoKey
<1>2. Moves(p, "snapshot", start[p].key) \/ Moves(p, "out", NoKey)
  BY <1>1, GoMoves, StopMoves DEF BridgeWriteEntry, Steps
<1>3. KeyTypeOK'
  BY <1>1, <1>2, CustodyAssumption
     DEF CustodyAssumption, Moves, BridgeWriteEntry, KeyTypeOK, Startings, keyHist
<1> USE <1>1, <1>2, KeyFacts
    DEF KeyInv, Moves, BridgeWriteEntry, At, keyHist,
        Holding, Unstored, Bridged, Setting, Bridging, NoKey, V01
<1>4. KeysInHand' /\ NeverAgain'
  BY DEF KeysInHand, NeverAgain
<1>5. OneSetsUp'
  BY DEF OneSetsUp
<1>6. KeysKnown'
  <2>1. CASE ok
    BY <2>1, GoMoves, Stored DEF Steps
  <2>2. CASE ~ ok
    BY <2>2, StopMoves DEF KeysKnown, Spoilt
  <2> QED BY <2>1, <2>2
<1>7. Undoable'
  BY DEF KeysInHand, OneSetsUp, KeysKnown, Undoable, Spoilt, Safe, DataSurvives
<1>8. BridgeUnderWay'
  <2>1. CASE ok
    BY <2>1, GoMoves DEF Steps, OneSetsUp, BridgeUnderWay, Spoilt
  <2>2. CASE ~ ok
    BY <2>2, StopMoves DEF KeysKnown, BridgeUnderWay, Spoilt
  <2> QED BY <2>1, <2>2
<1>9. DataSurvives'
  BY DEF KeysInHand, OneSetsUp, KeysKnown, Undoable, Spoilt, Safe, DataSurvives
<1> QED
  BY <1>3, <1>4, <1>5, <1>6, <1>7, <1>8, <1>9

LEMMA BridgeSnapshotKeeps ==
  ASSUME KeyInv, NEW p \in KProcs, NEW ok \in BOOLEAN, BridgeSnapshot(p, ok)
  PROVE  KeyInv'
<1>1. KeyTypeOK /\ entry \in Keys /\ start[p].key \in Keys /\ NoKey \in Keys
  BY KeyFacts, CustodyAssumption DEF CustodyAssumption, KeyInv, KeyTypeOK, Keys, NoKey
<1>2. Moves(p, "rekey", start[p].key) \/ Moves(p, "rollback", start[p].key)
  BY <1>1, GoMoves DEF BridgeSnapshot, Steps
<1>3. KeyTypeOK'
  BY <1>1, <1>2, CustodyAssumption
     DEF CustodyAssumption, Moves, BridgeSnapshot, KeyTypeOK, Startings, keyHist, Files, Torn, Keys
<1> USE <1>1, <1>2, KeyFacts
    DEF KeyInv, Moves, BridgeSnapshot, At, keyHist,
        Holding, Unstored, Bridged, Setting, Bridging, NoKey, V01
<1>4. KeysInHand' /\ NeverAgain'
  BY DEF KeysInHand, NeverAgain
<1>5. OneSetsUp'
  BY DEF OneSetsUp
<1>6. KeysKnown'
  BY DEF KeysInHand, OneSetsUp, KeysKnown, Spoilt
<1>7. Undoable'
  <2> SUFFICES ASSUME ~ Spoilt({"overlap", "restore", "unread"}) PROVE Undoable'
    BY DEF Undoable, Spoilt
  <2>1. db \in Safe
    BY DEF Undoable
  <2>2. \A q \in KProcs \ {p} : start[q].at \notin Setting
    BY DEF OneSetsUp, Spoilt
  <2>3. CASE ok
    BY <2>1, <2>2, <2>3, GoMoves DEF Steps, Undoable, Safe
  <2>4. CASE ~ ok
    BY <2>1, <2>2, <2>4, GoMoves DEF Steps, Undoable, Safe
  <2> QED BY <2>3, <2>4
<1>8. BridgeUnderWay'
  BY DEF KeysInHand, OneSetsUp, KeysKnown, BridgeUnderWay, Spoilt
<1>9. DataSurvives'
  BY DEF KeysInHand, OneSetsUp, KeysKnown, Undoable, Spoilt, Safe, DataSurvives
<1> QED
  BY <1>3, <1>4, <1>5, <1>6, <1>7, <1>8, <1>9

LEMMA BridgeRekeyKeeps ==
  ASSUME KeyInv, NEW p \in KProcs, NEW ok \in BOOLEAN, BridgeRekey(p, ok)
  PROVE  KeyInv'
<1>1. KeyTypeOK /\ entry \in Keys /\ start[p].key \in Keys /\ NoKey \in Keys
  BY KeyFacts, CustodyAssumption DEF CustodyAssumption, KeyInv, KeyTypeOK, Keys, NoKey
<1>2. Moves(p, "clean", start[p].key) \/ Moves(p, "restore", start[p].key)
  BY <1>1, GoMoves DEF BridgeRekey, Steps
<1>3. KeyTypeOK'
  BY <1>1, <1>2, CustodyAssumption
     DEF CustodyAssumption, Moves, BridgeRekey, KeyTypeOK, Startings, keyHist, Keys, Files, Torn
<1> USE <1>1, <1>2, KeyFacts
    DEF KeyInv, Moves, BridgeRekey, At, keyHist,
        Holding, Unstored, Bridged, Setting, Bridging, NoKey, V01
<1>4. KeysInHand' /\ NeverAgain'
  BY DEF KeysInHand, NeverAgain
<1>5. OneSetsUp'
  BY DEF OneSetsUp
<1>6. KeysKnown'
  BY DEF KeysInHand, OneSetsUp, KeysKnown, Spoilt
<1>7. Undoable'
  BY DEF KeysInHand, OneSetsUp, KeysKnown, Undoable, Spoilt, Safe, DataSurvives
<1>8. BridgeUnderWay'
  <2>1. start[p].key # V01
    BY DEF KeysInHand
  <2>2. CASE ok
    BY <2>1, <2>2, GoMoves DEF Steps, OneSetsUp, BridgeUnderWay, Spoilt
  <2>3. CASE ~ ok
    BY <2>3, GoMoves DEF Steps, OneSetsUp, BridgeUnderWay, Spoilt
  <2> QED BY <2>2, <2>3
<1>9. DataSurvives'
  BY DEF KeysInHand, OneSetsUp, KeysKnown, Undoable, Spoilt, Safe, DataSurvives
<1> QED
  BY <1>3, <1>4, <1>5, <1>6, <1>7, <1>8, <1>9

LEMMA BridgeRestoreKeeps ==
  ASSUME KeyInv, NEW p \in KProcs, NEW ok \in BOOLEAN, BridgeRestore(p, ok)
  PROVE  KeyInv'
<1>1. KeyTypeOK /\ entry \in Keys /\ start[p].key \in Keys /\ NoKey \in Keys
  BY KeyFacts, CustodyAssumption DEF CustodyAssumption, KeyInv, KeyTypeOK, Keys, NoKey
<1>2. Moves(p, "discard", start[p].key)
  BY <1>1, GoMoves DEF BridgeRestore, Steps
<1>3. KeyTypeOK'
  BY <1>1, <1>2, CustodyAssumption
     DEF CustodyAssumption, Moves, BridgeRestore, KeyTypeOK, Startings, Note, Mishaps, Files, Torn
<1> QED
  BY <1>1, <1>2, <1>3, KeyFacts
     DEF Moves, BridgeRestore, At, Note,
         KeyInv, KeysInHand, NeverAgain, OneSetsUp, KeysKnown, Undoable,
         Spoilt, Safe, BridgeUnderWay, DataSurvives, Holding, Unstored, Bridged, Setting, Bridging, NoKey, V01

LEMMA BridgeDiscardKeeps ==
  ASSUME KeyInv, NEW p \in KProcs, NEW ok \in BOOLEAN, BridgeDiscard(p, ok)
  PROVE  KeyInv'
<1>1. KeyTypeOK /\ entry \in Keys /\ start[p].key \in Keys /\ NoKey \in Keys
  BY KeyFacts, CustodyAssumption DEF CustodyAssumption, KeyInv, KeyTypeOK, Keys, NoKey
<1>2. Moves(p, "rollback", start[p].key)
  BY <1>1, GoMoves DEF BridgeDiscard, Steps
<1>3. KeyTypeOK'
  BY <1>1, <1>2, CustodyAssumption
     DEF CustodyAssumption, Moves, BridgeDiscard, KeyTypeOK, Startings, Note, Mishaps, Files, Torn, NoKey
<1> QED
  BY <1>1, <1>2, <1>3, KeyFacts
     DEF Moves, BridgeDiscard, At, Note,
         KeyInv, KeysInHand, NeverAgain, OneSetsUp, KeysKnown, Undoable,
         Spoilt, Safe, BridgeUnderWay, DataSurvives, Holding, Unstored, Bridged, Setting, Bridging, NoKey, V01

LEMMA BridgeRollbackKeeps ==
  ASSUME KeyInv, NEW p \in KProcs, NEW ok \in BOOLEAN, BridgeRollback(p, ok)
  PROVE  KeyInv'
<1>1. KeyTypeOK /\ entry \in Keys /\ start[p].key \in Keys /\ NoKey \in Keys
  BY KeyFacts, CustodyAssumption DEF CustodyAssumption, KeyInv, KeyTypeOK, Keys, NoKey
<1>2. Moves(p, "out", NoKey)
  BY <1>1, StopMoves DEF BridgeRollback, Steps
<1>3. KeyTypeOK'
  BY <1>1, <1>2, CustodyAssumption
     DEF CustodyAssumption, Moves, BridgeRollback, KeyTypeOK, Startings, Note, Mishaps
<1> QED
  BY <1>1, <1>2, <1>3, KeyFacts
     DEF Moves, BridgeRollback, At, Note,
         KeyInv, KeysInHand, NeverAgain, OneSetsUp, KeysKnown, Undoable,
         Spoilt, Safe, BridgeUnderWay, DataSurvives, Holding, Unstored, Bridged, Setting, Bridging, NoKey, V01

LEMMA BridgeCleanKeeps ==
  ASSUME KeyInv, NEW p \in KProcs, NEW ok \in BOOLEAN, BridgeClean(p, ok)
  PROVE  KeyInv'
<1>1. KeyTypeOK /\ entry \in Keys /\ start[p].key \in Keys /\ NoKey \in Keys
  BY KeyFacts, CustodyAssumption DEF CustodyAssumption, KeyInv, KeyTypeOK, Keys, NoKey
<1>2. Moves(p, "open", start[p].key)
  BY <1>1, GoMoves DEF BridgeClean, Steps
<1>3. KeyTypeOK'
  BY <1>1, <1>2, CustodyAssumption
     DEF CustodyAssumption, Moves, BridgeClean, KeyTypeOK, Startings, Note, Mishaps, Files, Torn, NoKey
<1> QED
  BY <1>1, <1>2, <1>3, KeyFacts
     DEF Moves, BridgeClean, At, Note,
         KeyInv, KeysInHand, NeverAgain, OneSetsUp, KeysKnown, Undoable,
         Spoilt, Safe, BridgeUnderWay, DataSurvives, Holding, Unstored, Bridged, Setting, Bridging, NoKey, V01

LEMMA EraseKeyKeeps ==
  ASSUME KeyInv, NEW p \in KProcs, EraseKey(p)
  PROVE  KeyInv'
<1>1. KeyTypeOK /\ entry \in Keys /\ start[p].key \in Keys /\ NoKey \in Keys
  BY KeyFacts, CustodyAssumption DEF CustodyAssumption, KeyInv, KeyTypeOK, Keys, NoKey
<1>2. \/ Moves(p, "erasing", start[p].key)
      \/ UNCHANGED <<entry, start, starts, gone, mishaps>>
  BY <1>1, GoMoves DEF EraseKey, keyHist, Steps
<1>3. KeyTypeOK'
  BY <1>1, <1>2, CustodyAssumption
     DEF CustodyAssumption, Moves, EraseKey, KeyTypeOK, Startings, keyHist, Reported, Note, Mishaps, NoKey
<1> QED
  BY <1>1, <1>2, <1>3, KeyFacts
     DEF Moves, EraseKey, At, keyHist, Reported, Note,
         KeyInv, KeysInHand, NeverAgain, OneSetsUp, KeysKnown, Undoable,
         Spoilt, Safe, BridgeUnderWay, DataSurvives, Holding, Unstored, Bridged, Setting, Bridging, NoKey, V01

LEMMA EraseFilesKeeps ==
  ASSUME KeyInv, NEW p \in KProcs, NEW ok \in BOOLEAN, EraseFiles(p, ok)
  PROVE  KeyInv'
<1>1. KeyTypeOK /\ entry \in Keys /\ start[p].key \in Keys /\ NoKey \in Keys
  BY KeyFacts, CustodyAssumption DEF CustodyAssumption, KeyInv, KeyTypeOK, Keys, NoKey
<1>2. Moves(p, "out", NoKey)
  BY <1>1, StopMoves DEF EraseFiles, Steps
<1>3. KeyTypeOK'
  BY <1>1, <1>2, CustodyAssumption
     DEF CustodyAssumption, Moves, EraseFiles, KeyTypeOK, Startings, keyHist, Files, Torn, NoKey
<1> QED
  BY <1>1, <1>2, <1>3, KeyFacts
     DEF Moves, EraseFiles, At, keyHist,
         KeyInv, KeysInHand, NeverAgain, OneSetsUp, KeysKnown, Undoable,
         Spoilt, Safe, BridgeUnderWay, DataSurvives, Holding, Unstored, Bridged, Setting, Bridging, NoKey, V01

LEMMA KeyStep == KeyInv /\ [KeyNext]_keyVars => KeyInv'
<1> SUFFICES ASSUME KeyInv, [KeyNext]_keyVars PROVE KeyInv'
  OBVIOUS
<1>1. CASE KeyNext
  BY <1>1, LaunchKeeps, ProbeKeeps, InitReadKeeps, InitStoreKeeps, OpenVaultKeeps, QuitKeeps,
     DieKeeps, BridgeVerifyKeeps, BridgeWriteEntryKeeps, BridgeSnapshotKeeps, BridgeRekeyKeeps,
     BridgeRestoreKeeps, BridgeDiscardKeeps, BridgeRollbackKeeps, BridgeCleanKeeps,
     EraseKeyKeeps, EraseFilesKeeps
     DEF KeyNext, BridgeNext
<1>2. CASE UNCHANGED keyVars
  BY <1>2
     DEF keyVars, KeyInv, KeyTypeOK, KeysInHand, NeverAgain, OneSetsUp, KeysKnown, Undoable,
         Spoilt, Safe, BridgeUnderWay, DataSurvives
<1> QED BY <1>1, <1>2

LEMMA CustodyInvariant == KeySpec => []KeyInv
BY KeyStarts, KeyStep, PTL DEF KeySpec

-----------------------------------------------------------------------------
\* What is shown.

\* Once an erasure was reported the credential store never again holds a key that was
\* erased, whatever runs beside it and whenever it dies.
THEOREM ErasedForGood == KeySpec => []ErasureIsFinal
<1>1. KeyInv => ErasureIsFinal
  BY DEF KeyInv, NeverAgain, KeysInHand, ErasureIsFinal, At
<1> QED BY <1>1, CustodyInvariant, PTL

\* The database opens with a key somebody has, at every step of the bridge and of the
\* first run.
THEOREM DataIsReadable == KeySpec => []DataSurvives
<1>1. KeyInv => DataSurvives
  BY DEF KeyInv
<1> QED BY <1>1, CustodyInvariant, PTL

\* With nothing being set up the stored key opens the database, or there is no entry
\* and the V0.1 passphrase does.
THEOREM StoredKeyOpens == KeySpec => []KeyOpensVault
<1>1. KeyInv => KeyOpensVault
  BY DEF KeyInv, DataSurvives, BridgeUnderWay, KeyOpensVault, Spoilt, Setting, Bridging, NoKey, V01
<1> QED BY <1>1, CustodyInvariant, PTL

=============================================================================
