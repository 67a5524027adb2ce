------------------------- MODULE MCCascadingWrites -------------------------
(* Instances of CascadingWrites for TLC. *)
EXTENDS CascadingWrites, TLC

CONSTANTS m1, m2, desktop, cli

Desktop    == {desktop}
BothProcesses == {desktop, cli}
OneMemory  == {m1}
TwoMemories == {m1, m2}
NoProcess  == {}

NoFaults      == {}
CrashOnly     == {"crash"}
AllButRollback == FaultKinds \ {"rollback"}
AllFaults      == FaultKinds
CrashAndPermanent == {"crash", "error", "permanent"}

Symmetry == Permutations(Memories)
=============================================================================
