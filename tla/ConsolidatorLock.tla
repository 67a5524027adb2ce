-------------------------- MODULE ConsolidatorLock --------------------------
(***************************************************************************)
(* The lockfile that keeps processes apart (vault-app/consolidator_lock.rs *)
(* for .consolidator.lock and .vault.lock): try_acquire_named, claim,      *)
(* holder_is_gone and Drop, one action per call on the file system.        *)
(*                                                                         *)
(* A lockfile is live while the process that created it keeps it open.     *)
(* Only Windows can ask (holder_is_gone); elsewhere the answer is always   *)
(* "no".  remove_file works on a live file everywhere: the handle shares   *)
(* delete access on Windows, and the name goes at once (the POSIX delete   *)
(* semantics NTFS has today).                                              *)
(***************************************************************************)
EXTENDS Naturals

CONSTANTS
    Processes,
    MaxCrashes      \* bound on the crashes explored

ASSUME CrashesAssumption == MaxCrashes \in Nat

Absent == "absent"
Stale  == "stale"
ASSUME NamesAssumption == Absent \notin Processes /\ Stale \notin Processes

VARIABLES
    windows,    \* TRUE where holder_is_gone asks the operating system; never changes
    lockfile,   \* Absent, the process that has the file at the path open, or Stale
    pc,         \* process -> where it is in try_acquire_named or Drop
    crashes     \* how many of MaxCrashes have happened

vars == <<windows, lockfile, pc, crashes>>

Init ==
    /\ windows \in BOOLEAN
    /\ lockfile = Absent
    /\ pc = [p \in Processes |-> "out"]
    /\ crashes = 0

Goto(p, where) == pc' = [pc EXCEPT ![p] = where]

\* Mutant: the file is created without create_new.
CreateNewAnyway(p) ==
    /\ lockfile' = p
    /\ Goto(p, "holding")
    /\ UNCHANGED crashes

\* claim: create_new succeeds when there is no file, and keeps it open.
CreateNew(p) ==
    /\ lockfile = Absent
    /\ lockfile' = p
    /\ Goto(p, "holding")
    /\ UNCHANGED crashes

\* try_acquire_named, first attempt.
Acquire(p) == pc[p] = "out" /\ CreateNew(p)

\* AlreadyExists.
FindHeld(p) ==
    /\ pc[p] = "out"
    /\ lockfile # Absent
    /\ Goto(p, "probing")
    /\ UNCHANGED <<lockfile, crashes>>

\* Mutant: the policy before ADR-SEC-012, a stale lock is Busy as well.
ProbeReportsBusy(p) ==
    /\ pc[p] = "probing"
    /\ windows /\ lockfile = Stale
    /\ Goto(p, "out")
    /\ UNCHANGED <<lockfile, crashes>>

\* holder_is_gone: the exclusive open succeeds on a file no process has open.
ProbeGone(p) ==
    /\ pc[p] = "probing"
    /\ windows /\ lockfile = Stale
    /\ Goto(p, "reclaiming")
    /\ UNCHANGED <<lockfile, crashes>>

\* The holder lives, or the file has gone, or the platform cannot tell: Busy.
ProbeBusy(p) ==
    /\ pc[p] = "probing"
    /\ ~(windows /\ lockfile = Stale)
    /\ Goto(p, "out")
    /\ UNCHANGED <<lockfile, crashes>>

\* remove_file(&path): whatever file the path names by now.
RemoveStale(p) ==
    /\ pc[p] = "reclaiming"
    /\ lockfile' = Absent
    /\ Goto(p, IF lockfile = Absent THEN "out" ELSE "reclaimed")
    /\ UNCHANGED crashes

\* claim again, or Busy if another process was quicker.
Reclaim(p) ==
    /\ pc[p] = "reclaimed"
    /\ \/ CreateNew(p)
       \/ lockfile # Absent /\ Goto(p, "out") /\ UNCHANGED <<lockfile, crashes>>

\* Drop: the handle first ...
CloseHandle(p) ==
    /\ pc[p] = "holding"
    /\ lockfile' = IF lockfile = p THEN Stale ELSE lockfile
    /\ Goto(p, "dropping")
    /\ UNCHANGED crashes

\* ... then the file, whatever file the path names by now.
RemoveOwn(p) ==
    /\ pc[p] = "dropping"
    /\ lockfile' = Absent
    /\ Goto(p, "out")
    /\ UNCHANGED crashes

\* The process dies; the kernel closes its handle, the file stays.
Crash(p) ==
    /\ crashes < MaxCrashes
    /\ pc[p] # "out"
    /\ lockfile' = IF lockfile = p THEN Stale ELSE lockfile
    /\ Goto(p, "out")
    /\ crashes' = crashes + 1

\* Mutant: the user looks for a process that holds the lock only.
RemoveByHandHastily ==
    /\ ~windows
    /\ lockfile = Stale
    /\ \A p \in Processes : pc[p] # "holding"
    /\ lockfile' = Absent
    /\ UNCHANGED <<pc, crashes>>

\* Where the platform cannot tell, the user removes the file "after verifying no
\* consolidator is running".
RemoveByHand ==
    /\ ~windows
    /\ lockfile = Stale
    /\ \A p \in Processes : pc[p] \notin {"holding", "dropping"}
    /\ lockfile' = Absent
    /\ UNCHANGED <<pc, crashes>>

TryStep(p) ==
    \/ Acquire(p) \/ FindHeld(p) \/ ProbeGone(p) \/ ProbeBusy(p)
    \/ RemoveStale(p) \/ Reclaim(p)

Next ==
    /\ \/ \E p \in Processes :
             TryStep(p) \/ CloseHandle(p) \/ RemoveOwn(p) \/ Crash(p)
       \/ RemoveByHand
    /\ UNCHANGED windows

Spec == Init /\ [][Next]_vars

\* The schedule brings every process back to try_acquire, and a guard is dropped
\* when its run ends or times out.
Fairness == \A p \in Processes :
    /\ WF_vars(TryStep(p) /\ UNCHANGED windows)
    /\ WF_vars((CloseHandle(p) \/ RemoveOwn(p)) /\ UNCHANGED windows)
FairSpec == Spec /\ Fairness

-----------------------------------------------------------------------------
\* Every variable has its type (proved; no run needs it).
TypeOK ==
    /\ windows \in BOOLEAN
    /\ lockfile \in Processes \cup {Absent, Stale}
    /\ pc \in [Processes ->
                {"out", "probing", "reclaiming", "reclaimed", "holding", "dropping"}]
    /\ crashes \in 0..MaxCrashes

\* "Two writers must never hold one vault" (consolidator_lock.rs, stale lockfile
\* policy).
MutualExclusion ==
    \A p, q \in Processes : pc[p] = "holding" /\ pc[q] = "holding" => p = q

\* The same, where no lock is reclaimed automatically.
PosixExclusion == ~windows => MutualExclusion

\* "A lock whose owner is alive is never touched" (the same).  There, dropping a
\* guard does not take the file from a process that holds the lock by then.
PosixDropKeepsOthers ==
    [][~windows => \A p, q \in Processes :
          p # q /\ pc[p] = "dropping" /\ pc'[p] = "out" /\ lockfile = q => lockfile' = q]_vars

\* "A lock whose owner is provably gone is now reclaimed automatically": a lock
\* left behind does not keep the vault busy on Windows.
StaleLockReclaimed == (windows /\ lockfile = Stale) ~> (lockfile # Stale)
=============================================================================
