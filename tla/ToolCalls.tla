----------------------------- MODULE ToolCalls ------------------------------
(***************************************************************************)
(* A client's call and the audit chain: vault-mcp's tool_write,            *)
(* tool_update and tool_delete, the desktop's add, update and              *)
(* delete_memory, the adapter behind them, and tx_append_audit.            *)
(*                                                                         *)
(* A call changes the vault in one transaction and is recorded in another, *)
(* on another connection.  The database is SQLite in WAL mode with         *)
(* deferred transactions: a transaction reads the snapshot of its first    *)
(* statement, one at a time writes, and one that has read may write only   *)
(* if nothing was committed since.  The connections of one process are     *)
(* behind mutexes, which only takes interleavings away.                    *)
(***************************************************************************)
EXTENDS Naturals, Sequences

CONSTANTS
  Calls,
  Desktop          \* those made in the desktop app, which does not heed its audit row

ASSUME CallAssumption == Desktop \subseteq Calls

VARIABLES
  chain,           \* audit_log in order of seq: what each event links to, and whose it is
  lockedBy,        \* the call whose transaction holds the write lock, or {}
  call             \* call -> where it is, its snapshot, its result, its answer

callVars == <<chain, lockedBy, call>>

CallSteps == {"idle", "looking", "changing", "changed", "auditing", "linking", "linked", "over"}
Fresh == [at |-> "idle", tool |-> "write", snap |-> 0, result |-> "none",
          effect |-> FALSE, answer |-> "none"]

CallTypeOK ==
  /\ chain \in Seq([prev : Nat, by : Calls, kind : {"memory", "tool"}])
  /\ lockedBy \in {{}} \cup {{c} : c \in Calls}
  /\ call \in [Calls -> [at : CallSteps, tool : {"write", "delete"}, snap : Nat,
                         result : {"none", "ok", "error"}, effect : BOOLEAN,
                         answer : {"none", "ok", "error"}]]

CallInit ==
  /\ chain = <<>> /\ lockedBy = {}
  /\ call = [c \in Calls |-> Fresh]

Tip == Len(chain)      \* an event's hash stands for its place; 0 is AUDIT_GENESIS_HASH

Moves(c, where)   == call' = [call EXCEPT ![c] = [@ EXCEPT !.at = where]]
Results(c, r)     == call' = [call EXCEPT ![c] = [@ EXCEPT !.at = "auditing", !.result = r]]
Answers(c, a)     == call' = [call EXCEPT ![c] = [@ EXCEPT !.at = "over", !.answer = a]]
Release(c)        == lockedBy' = lockedBy \ {c}
Links(c, p, kind) == chain' = Append(chain, [prev |-> p, by |-> c, kind |-> kind])

\* handle_write, handle_update, handle_delete: the arguments and the boundary pass.
\* A delete (and the update's adapter) reads the row first.
Accept(c, tool) ==
  /\ call[c].at = "idle"
  /\ call' = [call EXCEPT ![c] =
              [@ EXCEPT !.at = IF tool = "delete" THEN "looking" ELSE "changing", !.tool = tool]]
  /\ UNCHANGED <<chain, lockedBy>>

\* tool_search and tool_read, and the desktop's search and list: no change to record,
\* but a row of their own.
Look(c) ==
  /\ call[c].at = "idle"
  /\ Results(c, "ok")
  /\ UNCHANGED <<chain, lockedBy>>

\* Refused, or failed before a transaction began; or a delete of what is not there.
\* The desktop's commands return from arguments they cannot read without a row.
Refuse(c) ==
  /\ call[c].at \in {"idle", "looking"}
  /\ \/ Results(c, "error")
     \/ call[c].at = "looking" /\ Results(c, "ok")
     \/ call[c].at = "idle" /\ c \in Desktop /\ Answers(c, "error")
  /\ UNCHANGED <<chain, lockedBy>>

\* delete_memory's transaction begins with a read.
DeleteReads(c) ==
  /\ call[c].at = "looking"
  /\ call' = [call EXCEPT ![c] = [@ EXCEPT !.at = "changing", !.snap = Tip]]
  /\ UNCHANGED <<chain, lockedBy>>

\* write_memory's begins with the INSERT, which waits for the lock.
ChangeLocks(c) ==
  /\ call[c].at = "changing"
  /\ lockedBy = {}
  /\ call[c].tool = "delete" => call[c].snap = Tip
  /\ lockedBy' = {c}
  /\ Moves(c, "changed")
  /\ UNCHANGED chain

\* The memory's row, its retry_queue row and its audit event commit together.
ChangeCommits(c) ==
  /\ call[c].at = "changed"
  /\ Links(c, Tip, "memory")
  /\ call' = [call EXCEPT ![c] = [@ EXCEPT !.at = "auditing", !.result = "ok", !.effect = TRUE]]
  /\ Release(c)

\* SQLITE_BUSY, or any other failure: rolled back.
ChangeFails(c) ==
  /\ call[c].at \in {"changing", "changed"}
  /\ Results(c, "error")
  /\ Release(c)
  /\ UNCHANGED chain

\* append_tool_invoke_audit, tx_append_audit: the tip is read first ...
ReadTip(c) ==
  /\ call[c].at = "auditing"
  /\ call' = [call EXCEPT ![c] = [@ EXCEPT !.at = "linking", !.snap = Tip]]
  /\ UNCHANGED <<chain, lockedBy>>

\* Mutant: the tip is read outside the transaction.
RowLocksLater(c) ==
  /\ call[c].at = "linking"
  /\ lockedBy = {}
  /\ lockedBy' = {c}
  /\ Moves(c, "linked")
  /\ UNCHANGED chain

\* ... then the INSERT upgrades the transaction, if its snapshot is the latest.
RowLocks(c) ==
  /\ call[c].at = "linking"
  /\ lockedBy = {}
  /\ call[c].snap = Tip
  /\ lockedBy' = {c}
  /\ Moves(c, "linked")
  /\ UNCHANGED chain

\* The call answers what the handler returned.
RowCommits(c) ==
  /\ call[c].at = "linked"
  /\ Links(c, call[c].snap, "tool")
  /\ Answers(c, call[c].result)
  /\ Release(c)

\* The append fails, and so does the call, whatever it did; the desktop's command
\* answers as if it had not.
AuditFails(c) ==
  /\ call[c].at \in {"auditing", "linking", "linked"}
  /\ Answers(c, IF c \in Desktop THEN call[c].result ELSE "error")
  /\ Release(c)
  /\ UNCHANGED chain

\* The process dies: the transaction is rolled back, no answer goes out.
CallerDies(c) ==
  /\ call[c].at \notin {"idle", "over"}
  /\ Moves(c, "over")
  /\ Release(c)
  /\ UNCHANGED chain

CallNext == \E c \in Calls :
  \/ \E tool \in {"write", "delete"} : Accept(c, tool)
  \/ Look(c) \/ Refuse(c) \/ DeleteReads(c)
  \/ ChangeLocks(c) \/ ChangeCommits(c) \/ ChangeFails(c)
  \/ ReadTip(c) \/ RowLocks(c) \/ RowCommits(c) \/ AuditFails(c) \/ CallerDies(c)

CallSpec == CallInit /\ [][CallNext]_callVars

-----------------------------------------------------------------------------
\* audit.rs verify_chain: each event links to the one before it.
VerifyChain(log) == \A i \in DOMAIN log : log[i].prev = i - 1

OnChain(c, kind) == \E i \in DOMAIN chain : chain[i].by = c /\ chain[i].kind = kind

\* "ADR-024's audit chain is the authoritative record of vault-state changes"
\* (audit.rs): connections that append at once never fork it; what changed the
\* vault is on it even if its call failed or never answered, and nothing else is;
\* and an agent's call that reported success is on it itself.
ChangesOnRecord ==
  /\ VerifyChain(chain)
  /\ \A c \in Calls : /\ call[c].effect <=> OnChain(c, "memory")
                      /\ call[c].answer = "ok" /\ c \notin Desktop => OnChain(c, "tool")
=============================================================================
