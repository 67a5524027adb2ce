----------------------------- MODULE Migrations -----------------------------
(***************************************************************************)
(* The schema of the metadata store, brought up to date by every process   *)
(* that opens it (vault-storage/migrations).  The desktop app and most of  *)
(* vault-cli open it without a lock of their own, so two versions of the   *)
(* program may do so at once.                                              *)
(*                                                                         *)
(* SQLite in WAL mode, deferred transactions: see ToolCalls.  The database *)
(* is its sequence of commits, each with the migrations whose statements   *)
(* it carries and the rows it adds to schema_migrations.                   *)
(***************************************************************************)
EXTENDS Naturals, Sequences

CONSTANTS
  Openers,         \* processes that open the store
  Knows,           \* opener -> the number of migrations in its binary
  Alters,          \* migrations with an ALTER TABLE, which fails on what is there
  SMaxOpens        \* bound: times the store is opened

ASSUME MigrationsAssumption ==
  /\ Knows \in [Openers -> Nat]
  /\ Alters \subseteq Nat
  /\ SMaxOpens \in Nat

VARIABLES
  commits,         \* the commits
  writer,          \* {} or the opener that holds the write lock
  opener,          \* opener -> where it is, the version it is at, its snapshot
  opens

schemaVars == <<commits, writer, opener, opens>>

OpenerSteps == {"off", "opening", "migrating", "begun", "locked", "applied", "ready"}
Closed == [at |-> "off", version |-> 0, snap |-> 0]

CommitSet == [does : SUBSET Nat, rows : SUBSET Nat]

SchemaTypeOK ==
  /\ commits \in Seq(CommitSet)
  /\ writer \in SUBSET Openers
  /\ opener \in [Openers -> [at : OpenerSteps, version : Nat, snap : Nat]]
  /\ opens \in Nat

SchemaInit ==
  /\ commits = <<>> /\ writer = {}
  /\ opener = [p \in Openers |-> Closed]
  /\ opens = 0

Ran      == UNION {commits[k].does : k \in DOMAIN commits}
Versions == UNION {commits[k].rows : k \in DOMAIN commits}    \* schema_migrations

Stands(p, where) == opener[p].at = where
GoesTo(p, where) == opener' = [opener EXCEPT ![p] = [@ EXCEPT !.at = where]]
\* An error, or the end of the process; an open transaction is rolled back.
Closes(p) == /\ opener' = [opener EXCEPT ![p] = Closed]
             /\ writer' = writer \ {p}

\* MetadataStore::open_blocking, up to migrations::run.
OpenStore(p) ==
  /\ Stands(p, "off") /\ opens < SMaxOpens
  /\ GoesTo(p, "opening")
  /\ opens' = opens + 1
  /\ UNCHANGED <<commits, writer>>

\* SELECT COALESCE(MAX(version), 0), in no transaction: the list of what is pending
\* is made from it once.
ReadVersion(p) ==
  /\ Stands(p, "opening")
  /\ \E v \in Versions \cup {0} :
       /\ \A u \in Versions : u <= v
       /\ opener' = [opener EXCEPT ![p] = [@ EXCEPT !.at = "migrating", !.version = v]]
  /\ UNCHANGED <<commits, writer, opens>>

\* Nothing is pending, or no longer; a vault of a newer program is taken as it is.
UpToDate(p) ==
  /\ Stands(p, "migrating") /\ opener[p].version >= Knows[p]
  /\ GoesTo(p, "ready")
  /\ UNCHANGED <<commits, writer, opens>>

\* BEGIN DEFERRED, and a first statement that has nothing to create reads only.
BeginMigration(p) ==
  /\ Stands(p, "migrating") /\ opener[p].version < Knows[p]
  /\ opener' = [opener EXCEPT ![p] = [@ EXCEPT !.at = "begun", !.snap = Len(commits)]]
  /\ UNCHANGED <<commits, writer, opens>>

LockSchema(p) ==
  /\ Stands(p, "begun")
  /\ writer = {} /\ opener[p].snap = Len(commits)
  /\ writer' = {p}
  /\ GoesTo(p, "locked")
  /\ UNCHANGED <<commits, opens>>

Pending(p) == opener[p].version + 1

\* execute_batch(m.up): CREATE ... IF NOT EXISTS passes over what is there, ALTER TABLE
\* does not.
ApplyMigration(p) ==
  /\ Stands(p, "locked")
  /\ ~ (Pending(p) \in Alters /\ Pending(p) \in Ran)
  /\ GoesTo(p, "applied")
  /\ UNCHANGED <<commits, writer, opens>>

\* Mutant: the row is no primary key.
CommitTwice(p) ==
  /\ Stands(p, "applied")
  /\ commits' = Append(commits, [does |-> {Pending(p)} \ Ran, rows |-> {Pending(p)}])
  /\ opener' = [opener EXCEPT ![p] = [@ EXCEPT !.at = "migrating", !.version = Pending(p)]]
  /\ writer' = {}
  /\ UNCHANGED opens

\* The row of the version, whose number is the primary key, and the commit.
CommitMigration(p) ==
  /\ Stands(p, "applied")
  /\ Pending(p) \notin Versions
  /\ commits' = Append(commits, [does |-> {Pending(p)} \ Ran, rows |-> {Pending(p)}])
  /\ opener' = [opener EXCEPT ![p] = [@ EXCEPT !.at = "migrating", !.version = Pending(p)]]
  /\ writer' = {}
  /\ UNCHANGED opens

\* SQLITE_BUSY, a statement or a row that is there already; or the process ends.
OpenEnds(p) ==
  /\ ~ Stands(p, "off")
  /\ Closes(p)
  /\ UNCHANGED <<commits, opens>>

\* synchronous = NORMAL: a power failure may take the latest commits along.
PowerLoss ==
  /\ \E k \in 0..Len(commits) : commits' = SubSeq(commits, 1, k)
  /\ writer' = {}
  /\ opener' = [p \in Openers |-> Closed]
  /\ UNCHANGED opens

SchemaNext ==
  \/ \E p \in Openers :
       \/ OpenStore(p) \/ ReadVersion(p) \/ UpToDate(p) \/ BeginMigration(p)
       \/ LockSchema(p) \/ ApplyMigration(p) \/ CommitMigration(p) \/ OpenEnds(p)
  \/ PowerLoss

SchemaSpec == SchemaInit /\ [][SchemaNext]_schemaVars

-----------------------------------------------------------------------------
\* "Each migration runs inside a transaction and is recorded in schema_migrations only
\* on success" (migrations/mod.rs): whatever processes migrate at once, die or lose
\* power, each migration has run exactly once, in order, together with its row; and
\* one that has the store open finds the schema its binary was written for.
MigratedOnce ==
  /\ \A k \in DOMAIN commits : commits[k] = [does |-> {k}, rows |-> {k}]
  /\ \A p \in Openers : Stands(p, "ready") => Knows[p] <= Len(commits)
=============================================================================
