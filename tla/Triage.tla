------------------------------- MODULE Triage -------------------------------
(***************************************************************************)
(* Operators work off the dead letters of one memory (vault-cli            *)
(* `dead-letter retry' and `acknowledge', dead_letter.rs) while clients go *)
(* on changing it and the worker goes on applying its queue.  Of the       *)
(* cascade (CascadingWrites) only this is kept: a queued operation is      *)
(* applied or dies, and one that was put off may come after a later one.   *)
(***************************************************************************)
EXTENDS Naturals, Sequences

CONSTANTS
  Operators,
  TMaxOps          \* bound: operations on the memory

ASSUME TriageAssumption == TMaxOps \in Nat

Resolutions == {"retried_succeeded", "retried_failed", "acknowledged"}
OpIds == 1..TMaxOps

VARIABLES
  ops,             \* the client's operations, "write" or "delete", in commit order
  queued,          \* those with a row in the retry queue
  dead,            \* operation -> "none", "cut" (dead, its entry not yet inserted),
                   \* "pending" (a dead letter) or its resolution
  vec,             \* the operation the vector store was last changed by; 0: none
  operator,        \* operator -> where the command is, and the entry it read
  overtaken        \* history: an operation was applied after a later one

triageVars == <<ops, queued, dead, vec, operator, overtaken>>

Away == [at |-> "away", entry |-> 0]

TriageTypeOK ==
  /\ ops \in UNION {[1..n -> {"write", "delete"}] : n \in 0..TMaxOps}
  /\ queued \subseteq OpIds
  /\ dead \in [OpIds -> {"none", "cut", "pending"} \cup Resolutions]
  /\ vec \in 0..TMaxOps
  /\ operator \in [Operators -> [at : {"away", "retrying"} \cup Resolutions,
                                 entry : 0..TMaxOps]]
  /\ overtaken \in BOOLEAN

TriageInit ==
  /\ ops = <<>> /\ queued = {} /\ vec = 0
  /\ dead = [i \in OpIds |-> "none"]
  /\ operator = [o \in Operators |-> Away]
  /\ overtaken = FALSE

\* The content an operation leaves behind: itself, or nothing.
Leaves(i) == IF i = 0 THEN 0 ELSE IF ops[i] = "delete" THEN 0 ELSE i

ClientChanges ==
  /\ Len(ops) < TMaxOps
  /\ \E kind \in {"write", "delete"} : ops' = Append(ops, kind)
  /\ queued' = queued \cup {Len(ops) + 1}
  /\ UNCHANGED <<dead, vec, operator, overtaken>>

Applies(i) ==
  /\ vec' = i
  /\ overtaken' = (overtaken \/ i < vec)

WorkerApplies(i) ==
  /\ i \in queued
  /\ queued' = queued \ {i}
  /\ Applies(i)
  /\ UNCHANGED <<ops, dead, operator>>

\* record_failure takes the row off the queue ...
WorkerGivesUp(i) ==
  /\ i \in queued
  /\ queued' = queued \ {i}
  /\ dead' = [dead EXCEPT ![i] = "cut"]
  /\ UNCHANGED <<ops, vec, operator, overtaken>>

\* ... and write_dead_letter inserts the entry, unless the process is gone.
WorkerBuries(i) ==
  /\ dead[i] = "cut"
  /\ dead' = [dead EXCEPT ![i] = "pending"]
  /\ UNCHANGED <<ops, queued, vec, operator, overtaken>>

Reaches(o, where) == operator' = [operator EXCEPT ![o] = [@ EXCEPT !.at = where]]

\* get(id): an entry that has a resolution is left alone.
OpenEntry(o, i) ==
  /\ operator[o] = Away
  /\ dead[i] = "pending"
  /\ \E next \in {"retrying", "acknowledged"} :
       operator' = [operator EXCEPT ![o] = [at |-> next, entry |-> i]]
  /\ UNCHANGED <<ops, queued, dead, vec, overtaken>>

\* run_cascade_synchronous, with the payload of the entry.
RetryApplies(o) ==
  /\ operator[o].at = "retrying"
  /\ Applies(operator[o].entry)
  /\ Reaches(o, "retried_succeeded")
  /\ UNCHANGED <<ops, queued, dead>>

\* Mutant: the outcome of the retry is dropped.
RetryFailsSilently(o) ==
  /\ operator[o].at = "retrying"
  /\ Reaches(o, "retried_succeeded")
  /\ UNCHANGED <<ops, queued, dead, vec, overtaken>>

RetryFails(o) ==
  /\ operator[o].at = "retrying"
  /\ Reaches(o, "retried_failed")
  /\ UNCHANGED <<ops, queued, dead, vec, overtaken>>

\* resolve: a first resolution is kept; a second one is a no-op if it is the same
\* and an error if not.
Resolve(o) ==
  /\ operator[o].at \in Resolutions
  /\ dead' = [dead EXCEPT ![operator[o].entry] =
                IF @ = "pending" THEN operator[o].at ELSE @]
  /\ operator' = [operator EXCEPT ![o] = Away]
  /\ UNCHANGED <<ops, queued, vec, overtaken>>

\* The command is interrupted, or resolve fails.
OperatorLeaves(o) ==
  /\ operator[o] # Away
  /\ operator' = [operator EXCEPT ![o] = Away]
  /\ UNCHANGED <<ops, queued, dead, vec, overtaken>>

TriageNext ==
  \/ ClientChanges
  \/ \E i \in OpIds : WorkerApplies(i) \/ WorkerGivesUp(i) \/ WorkerBuries(i)
  \/ \E o \in Operators :
       \/ \E i \in OpIds : OpenEntry(o, i)
       \/ RetryApplies(o) \/ RetryFails(o) \/ Resolve(o) \/ OperatorLeaves(o)

TriageSpec == TriageInit /\ [][TriageNext]_triageVars

-----------------------------------------------------------------------------
\* An operation whose effect the vector store never got, on record or cut.
Unapplied(i) == dead[i] \in {"cut", "pending", "retried_failed", "acknowledged"}

\* With the queue empty, a vector that is not the row's has its reason on record:
\* some later operation died and is not resolved as retried_succeeded (or its entry
\* was cut off, DeadLetterCut), in whatever order operators, worker and clients came.
\* The exception is an operation that was applied after a later one: a retry
\* applies the payload of its time, and nothing compares it with what came since.
LagExplained ==
  queued = {} /\ ~ overtaken /\ Leaves(vec) # Leaves(Len(ops)) =>
    \E i \in 1..Len(ops) : i > vec /\ Unapplied(i)
=============================================================================
