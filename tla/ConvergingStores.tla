-------------------------- MODULE ConvergingStores --------------------------
(***************************************************************************)
(* What the cascade promises of its two stores, without its mechanism:     *)
(* SQLite commits changes of memories one after the other, and the vector  *)
(* store follows the changes of each memory in commit order, possibly      *)
(* skipping some, never going back (retry_queue.rs: "concurrent writes to  *)
(* the same memory_id are processed in SQLite-commit order";               *)
(* pending_sync.rs: "the downstream stores converge to its latest state"). *)
(***************************************************************************)
EXTENDS Naturals, Sequences

CONSTANTS Memories, NoMemory

VARIABLES
    log,    \* the memory each committed change is about, in commit order;
            \* NoMemory for an event that owes the vector store nothing
    shown   \* memory -> index in log of the change the vector store shows, 0 if none

vars == <<log, shown>>

ChangesOf(m) == {s \in DOMAIN log : log[s] = m}
Behind(m) == \E s \in ChangesOf(m) : s > shown[m]

Init ==
    /\ log = <<>>
    /\ shown = [m \in Memories |-> 0]

\* SQLite commits a change, or audits something else, in one transaction of one
\* or two events.
Commit ==
    /\ \E first \in Memories \cup {NoMemory} :
          log' \in {Append(log, first), log \o <<first, NoMemory>>}
    /\ UNCHANGED shown

\* The vector store applies a later change of a memory, or the same one again.
Follow(m) ==
    /\ \E s \in ChangesOf(m) :
          /\ s >= shown[m]
          /\ shown' = [shown EXCEPT ![m] = s]
    /\ UNCHANGED log

Next == Commit \/ \E m \in Memories : Follow(m)

Spec == Init /\ [][Next]_vars

\* A memory that stays behind is brought further, until it shows its latest
\* change.
Fairness == \A m \in Memories : WF_vars(Follow(m))
FairSpec == Spec /\ Fairness

\* What the fair specification is for: every memory catches up.
CatchesUp == \A m \in Memories : []<>~Behind(m)
=============================================================================
