---------------------------- MODULE Consolidation ----------------------------
(***************************************************************************)
(* The nightly consolidation of one boundary of a vault, its checkpoint    *)
(* and the rollback of that checkpoint, with clients at work meanwhile.    *)
(*                                                                         *)
(*   application.rs     run_consolidation_under_safety: lock, watermark,   *)
(*                      run, enrichment, advance of the watermark          *)
(*   consolidator.rs    the phases of a run and enrich_facts               *)
(*   phases/*.rs        clusters, dedup, merge, archive                    *)
(*   checkpoint.rs      what a run changed, and how it is undone           *)
(*   adapter.rs         the write, update and delete of a client           *)
(*                                                                         *)
(* Every call into storage is one step; what runs between two calls (an    *)
(* embedding, a verdict of the model) lets any other actor in.  Runs       *)
(* exclude one another: that is ConsolidatorLock's subject.  A rollback    *)
(* is an operator's command and takes no lock.                             *)
(*                                                                         *)
(* Time is the number of runs started: a memory stamped c was created      *)
(* after run c began and before run c + 1 did.                             *)
(***************************************************************************)
EXTENDS Naturals, Sequences, FiniteSets

CONSTANTS
    Ids,            \* memory ids; one is never used twice
    None,           \* no row, no memory
    Retention,      \* CHECKPOINT_RETENTION (7 in the code)
    MaxRuns,        \* bound: runs started
    MaxEvents       \* bound: runs started, operations of clients, crashes,
                    \* timeouts and failed calls, all together

ASSUME BoundsAssumption ==
    Retention \in Nat \ {0} /\ MaxRuns \in Nat /\ MaxEvents \in Nat

VARIABLES
    rows,           \* the memories table
    watermark,      \* consolidation_state.last_run_started_at; 0 is NULL
    checkpoints,    \* consolidation_checkpoints with their entries, oldest first
    clock,          \* runs started
    run,            \* what the consolidation in progress remembers
    client,         \* the client operation in progress, or None
    undo,           \* the rollback in progress, or None
    events,         \* what is spent of the bound
    removed,        \* history: ids a client or a rollback deleted
    outside,        \* history: per run, ids others changed since its snapshot
    examined,       \* history: ids that seeded a run that succeeded
    excused         \* history: ids in flight when a run began, or brought back

history == <<removed, outside, examined, excused>>
vars == <<rows, watermark, checkpoints, clock, run, client, undo, events, history>>

-----------------------------------------------------------------------------
(* The table *)

Row == [text: Nat, created: Nat, by: Ids \cup {None}, valid: BOOLEAN,
        archived: BOOLEAN, alias: Nat \cup {None}, agent: BOOLEAN]

ASSUME NoneAssumption == None \notin Ids /\ None \notin Row

Table  == [Ids -> Row \cup {None}]
NoRows == [m \in Ids |-> None]

\* Memory::try_new: `agent` says whether it has a source_agent
NewRow(agent) == [text |-> 0, created |-> clock, by |-> None, valid |-> TRUE,
                  archived |-> FALSE, alias |-> None, agent |-> agent]

Present(table) == {m \in Ids : table[m] # None}

\* MemoryFilter::default(): neither superseded nor archived
Listed(table) == {m \in Present(table) : table[m].by = None /\ ~table[m].archived}

\* and valid_until is NULL
Current == {m \in Listed(rows) : rows[m].valid}

\* Mutant of FullEnumeration: the default filter, as in every other listing.
DefaultEnumeration == [m \in Ids |-> IF m \in Listed(rows) THEN rows[m] ELSE None]

\* include_superseded and include_archived
FullEnumeration == rows

\* the facts a run examines afresh: MemoryFilter.since
Seeds(since) == {m \in Current : rows[m].created >= since}

Fresh == {m \in Ids \ removed : rows[m] = None /\ (client # None => client.id # m)}

\* A row without what enrich_facts alone writes.
Core(row) == IF row = None THEN None ELSE [row EXCEPT !.alias = None]

\* This step changes the table on behalf of run `who`; 0 is nobody's run.
Attribute(who) ==
    outside' = [r \in 1..MaxRuns |->
                  IF r = who THEN outside[r]
                  ELSE outside[r] \cup {m \in Ids : Core(rows'[m]) # Core(rows[m])}]

\* What the bound counts, and what it does not.
Spend(n) == events + n <= MaxEvents /\ events' = events + n
Event    == Spend(1)
NoEvent  == UNCHANGED events

-----------------------------------------------------------------------------
(* Clients *)

\* Adapter::write up to the embedding
DraftWrite(m) ==
    /\ client = None
    /\ m \in Fresh
    /\ client' = [op |-> "write", id |-> m, row |-> NewRow(TRUE)]
    /\ Event
    /\ UNCHANGED <<rows, watermark, checkpoints, clock, run, undo, history>>

\* Adapter::update up to the embedding: every field but the text is the
\* existing row's, except that archived_at comes out of try_new_with_id empty.
ReadForUpdate(m) ==
    /\ client = None
    /\ rows[m] # None
    /\ client' = [op |-> "update", id |-> m,
                  row |-> [rows[m] EXCEPT !.text = events + 1, !.archived = FALSE]]
    /\ Event
    /\ excused' = IF rows[m].archived THEN excused \cup {m} ELSE excused
    /\ UNCHANGED <<rows, watermark, checkpoints, clock, run, undo,
                   removed, outside, examined>>

\* StorageBackend::write_memory; update_memory answers NotFound for no row.
CommitClient ==
    /\ client # None
    /\ rows' = IF client.op = "write" \/ rows[client.id] # None
               THEN [rows EXCEPT ![client.id] = client.row] ELSE rows
    /\ client' = None
    /\ Attribute(0)
    /\ UNCHANGED <<watermark, checkpoints, clock, run, undo, events,
                   removed, examined, excused>>

\* The embedding fails, or the client's process dies.
ClientDies ==
    /\ client # None
    /\ client' = None
    /\ UNCHANGED <<rows, watermark, checkpoints, clock, run, undo, events, history>>

DeleteMemory(m) ==
    /\ rows[m] # None
    /\ rows' = [rows EXCEPT ![m] = None]
    /\ Event
    /\ removed' = removed \cup {m}
    /\ Attribute(0)
    /\ UNCHANGED <<watermark, checkpoints, clock, run, client, undo,
                   examined, excused>>

ClientStep ==
    \/ \E m \in Ids : DraftWrite(m) \/ ReadForUpdate(m) \/ DeleteMemory(m)
    \/ CommitClient \/ ClientDies

-----------------------------------------------------------------------------
(* A run *)

Phases == {"idle", "listing", "clustering", "judging", "merging", "superseding",
           "retiring", "pairing", "resolving", "cooling", "archiving",
           "capturing", "enumerating", "enriching"}

Idle == [pc |-> "idle", since |-> 0, snap |-> NoRows, clusters |-> {},
         group |-> {}, into |-> None, plan |-> {}, copies |-> NoRows,
         \* history: the true table at the snapshot, the seeds, the members of
         \* skipped clusters, whether the model named a stranger as winner
         before |-> NoRows, seen |-> {}, missed |-> {}, stray |-> FALSE]

RunOnly == UNCHANGED <<watermark, checkpoints, clock, client, undo, history>>
RunChangesRows == /\ Attribute(clock)
                  /\ UNCHANGED <<watermark, checkpoints, clock, client, undo,
                                 removed, examined, excused>>

\* run_consolidation_under_safety: a watermark that cannot be read is no
\* watermark, and the run sweeps everything.
StartRun ==
    /\ run.pc = "idle" /\ clock < MaxRuns
    /\ clock' = clock + 1
    /\ \/ run' = [Idle EXCEPT !.pc = "listing", !.since = watermark] /\ Spend(1)
       \/ run' = [Idle EXCEPT !.pc = "listing"] /\ watermark # 0 /\ Spend(2)
    /\ excused' = IF client = None THEN excused ELSE excused \cup {client.id}
    /\ UNCHANGED <<rows, watermark, checkpoints, client, undo,
                   removed, outside, examined>>

\* An error that propagates, the 30 minute timeout, or a crash: no checkpoint
\* after this point, and the watermark stays.
AbortRun ==
    /\ run.pc # "idle" /\ Event
    /\ run' = Idle
    /\ RunOnly /\ UNCHANGED rows

TakeSnapshot ==
    /\ run.pc = "listing"
    /\ run' = [run EXCEPT !.pc = "clustering", !.snap = FullEnumeration, !.before = rows]
    /\ outside' = [outside EXCEPT ![clock] = {}]
    /\ UNCHANGED <<rows, watermark, checkpoints, clock, client, undo, events,
                   removed, examined, excused>>

\* Disjoint sets of two or more current rows, each around a seed: the
\* components find_candidate_clusters can find, whatever the embeddings.
Clusterings(seeds) ==
    {cs \in SUBSET {c \in SUBSET Current : Cardinality(c) >= 2 /\ c \cap seeds # {}} :
        \A c, d \in cs : c = d \/ c \cap d = {}}

\* A boundary none of whose rows the snapshot listed has no pipeline.
FindClusters ==
    /\ run.pc = "clustering"
    /\ LET seeds == IF Listed(run.snap) = {} THEN {} ELSE Seeds(run.since)
       IN  \E cs \in Clusterings(seeds) :
              run' = [run EXCEPT !.pc = "judging", !.clusters = cs, !.seen = seeds]
    /\ NoEvent /\ RunOnly /\ UNCHANGED rows

Done(c)    == [run EXCEPT !.clusters = @ \ {c}]
Skipped(c) == [run EXCEPT !.clusters = @ \ {c}, !.missed = @ \cup c]

\* try_dedup_cluster: judged on the snapshot's contents, applied by apply_dedup
\* in one transaction that a missing member undoes.
Dedup(c) ==
    /\ run.pc = "judging" /\ c \in run.clusters
    /\ c \subseteq Listed(run.snap)
    /\ IF c \subseteq Present(rows)
       THEN /\ \E s \in c :
                 rows' = [m \in Ids |-> IF m \in c \ {s} THEN [rows[m] EXCEPT !.by = s]
                                        ELSE rows[m]]
            /\ run' = Done(c)
       ELSE rows' = rows /\ run' = Skipped(c)
    /\ NoEvent /\ RunChangesRows

\* The deduplication or decide_merge fails: the cluster is skipped.
JudgingFails(c) ==
    /\ run.pc = "judging" /\ c \in run.clusters
    /\ run' = Skipped(c)
    /\ Event /\ RunOnly /\ UNCHANGED rows

\* decide_merge: all members must still be listed; then the model's verdict.
\* Its winner is any id it writes down, and nothing checks that id.
Decide(c) ==
    /\ run.pc = "judging" /\ c \in run.clusters
    /\ IF c \subseteq Listed(rows)
       THEN \/ run' = Done(c)        \* keep separate, or a review for the user
            \/ run' = [Done(c) EXCEPT !.pc = "merging", !.group = c]
            \/ \E winner \in Ids :
                 run' = [Done(c) EXCEPT !.pc = "retiring", !.plan = c \ {winner},
                                        !.stray = @ \/ winner \notin c]
       ELSE run' = Skipped(c)
    /\ NoEvent /\ RunOnly /\ UNCHANGED rows

BackToJudging == [run EXCEPT !.pc = "judging", !.group = {}, !.plan = {}, !.into = None]
SkipMerge     == [BackToJudging EXCEPT !.missed = @ \cup run.group]
ToPhase4      == [run EXCEPT !.pc = "cooling", !.group = {}, !.plan = {}]

\* Mutant of WriteMerged: a write that failed is taken for done.
MergeUnwritten ==
    /\ run.pc = "merging"
    /\ run.group \subseteq Listed(rows)
    /\ \E n \in Fresh :
          run' = [run EXCEPT !.pc = "superseding", !.into = n, !.plan = run.group]
    /\ rows' = rows
    /\ NoEvent /\ RunChangesRows

\* apply_merge up to write_memory: the members are read again.
WriteMerged ==
    /\ run.pc = "merging"
    /\ \/ /\ run.group \subseteq Listed(rows)
          /\ \E n \in Fresh :
               /\ rows' = [rows EXCEPT ![n] = NewRow(FALSE)]
               /\ run' = [run EXCEPT !.pc = "superseding", !.into = n, !.plan = run.group]
          /\ NoEvent
       \/ /\ ~ run.group \subseteq Listed(rows)
          /\ rows' = rows /\ run' = SkipMerge /\ NoEvent
       \/ rows' = rows /\ run' = SkipMerge /\ Event
    /\ RunChangesRows

\* mark_superseded, member by member; a missing member ends the merge with
\* the remaining ones unmarked.
MarkSuperseded(m) ==
    /\ run.pc = "superseding" /\ m \in run.plan
    /\ \/ /\ rows[m] # None
          /\ rows' = [rows EXCEPT ![m] = [@ EXCEPT !.by = run.into]]
          /\ run' = IF run.plan = {m} THEN BackToJudging
                    ELSE [run EXCEPT !.plan = @ \ {m}]
          /\ NoEvent
       \/ rows[m] = None /\ rows' = rows /\ run' = SkipMerge /\ NoEvent
       \/ rows' = rows /\ run' = SkipMerge /\ Event
    /\ RunChangesRows

\* StorageBackend::invalidate on one of the losers, in Phase 2 or Phase 2b; a
\* failure is logged and the loop goes on.
Retire(m) ==
    /\ run.pc \in {"retiring", "resolving"} /\ m \in run.plan
    /\ \/ rows[m] # None /\ rows' = [rows EXCEPT ![m] = [@ EXCEPT !.valid = FALSE]] /\ NoEvent
       \/ rows[m] = None /\ rows' = rows /\ NoEvent
       \/ rows' = rows /\ Event
    /\ run' = IF run.plan # {m} THEN [run EXCEPT !.plan = @ \ {m}]
              ELSE IF run.pc = "retiring" THEN BackToJudging ELSE ToPhase4
    /\ RunChangesRows

\* Phase 2b: the current rows again, and no pairs without two of them and a seed.
ListCurrent ==
    /\ run.pc = "judging" /\ run.clusters = {}
    /\ run' = IF Cardinality(Current) < 2 \/ Seeds(run.since) = {}
              THEN ToPhase4
              ELSE [run EXCEPT !.pc = "pairing", !.group = Current]
    /\ NoEvent /\ RunOnly /\ UNCHANGED rows

\* Mutant of ResolveStaleIds: without the refusal of a whole group.
ResolveAnyStaleIds(verdict, group) == verdict \cap group

\* resolve_stale_ids: the members among them, unless that is everyone
ResolveStaleIds(verdict, group) ==
    IF verdict \cap group = group THEN {} ELSE verdict \cap group

\* judge_candidate_pairs; when it fails nothing is stale.
JudgePairs ==
    /\ run.pc = "pairing"
    /\ \E verdict \in SUBSET run.group :
          LET stale == ResolveStaleIds(verdict, run.group)
          IN  run' = IF stale = {} THEN ToPhase4
                     ELSE [run EXCEPT !.pc = "resolving", !.plan = stale]
    /\ NoEvent /\ RunOnly /\ UNCHANGED rows

\* plan_archive: any of the current rows that have long lain untouched
PlanArchive ==
    /\ run.pc = "cooling"
    /\ \E cold \in SUBSET {m \in Current : rows[m].created = 0 /\ rows[m].text = 0} :
          run' = [run EXCEPT !.pc = IF cold = {} THEN "capturing" ELSE "archiving",
                             !.plan = cold]
    /\ NoEvent /\ RunOnly /\ UNCHANGED rows

\* apply_archive; a failure is logged and the loop goes on.
Archive(m) ==
    /\ run.pc = "archiving" /\ m \in run.plan
    /\ \/ rows[m] # None /\ rows' = [rows EXCEPT ![m] = [@ EXCEPT !.archived = TRUE]] /\ NoEvent
       \/ rows[m] = None /\ rows' = rows /\ NoEvent
       \/ rows' = rows /\ Event
    /\ run' = [run EXCEPT !.pc = IF run.plan = {m} THEN "capturing" ELSE @,
                          !.plan = @ \ {m}]
    /\ RunChangesRows

-----------------------------------------------------------------------------
(* The checkpoint of a run *)

\* diff_to_entries: a row only the snapshot has is left out.
Modified(pre, post) ==
    [m \in Ids |-> IF pre[m] # None /\ post[m] # None /\ pre[m] # post[m]
                   THEN pre[m] ELSE None]
Created(pre, post) == Present(post) \ Present(pre)

\* The checkpoint and its entries are inserted and older ones pruned, in one transaction.
Newest(s) == IF Len(s) > Retention THEN SubSeq(s, Len(s) - Retention + 1, Len(s)) ELSE s
create_checkpoint(s, entry) == Newest(Append(s, entry))

\* capture_checkpoint: none for a run that changed nothing; a failure is logged
\* and the run goes on.
CaptureCheckpoint ==
    /\ run.pc = "capturing"
    /\ \/ /\ LET entry == [run      |-> clock,
                           modified |-> Modified(run.snap, FullEnumeration),
                           created  |-> Created(run.snap, FullEnumeration),
                           active   |-> TRUE,
                           before   |-> run.before]
             IN  checkpoints' = IF entry.modified = NoRows /\ entry.created = {}
                                THEN checkpoints
                                ELSE create_checkpoint(checkpoints, entry)
          /\ NoEvent
       \/ checkpoints' = checkpoints /\ Event
    /\ run' = [run EXCEPT !.pc = "enumerating", !.snap = NoRows, !.before = NoRows]
    /\ UNCHANGED <<rows, watermark, clock, client, undo, history>>

-----------------------------------------------------------------------------
(* Enrichment, and the end of the run *)

\* enrich_facts works on copies of the current rows.
ListForEnrichment ==
    /\ run.pc = "enumerating"
    /\ run' = [run EXCEPT !.pc = "enriching",
                          !.copies = [m \in Ids |-> IF m \in Current THEN rows[m] ELSE None],
                          !.plan = {m \in Current : rows[m].alias # rows[m].text}]
    /\ NoEvent /\ RunOnly /\ UNCHANGED rows

\* enrich_one, then update_memory with the whole copy; a failure is counted.
Enrich(m) ==
    /\ run.pc = "enriching" /\ m \in run.plan
    /\ \/ /\ rows[m] # None
          /\ rows' = [rows EXCEPT ![m] = [run.copies[m] EXCEPT !.alias = run.copies[m].text]]
          /\ NoEvent
       \/ rows[m] = None /\ rows' = rows /\ NoEvent
       \/ rows' = rows /\ Event
    /\ run' = [run EXCEPT !.plan = @ \ {m}, !.copies[m] = None]
    /\ Attribute(0)
    /\ UNCHANGED <<watermark, checkpoints, clock, client, undo,
                   removed, examined, excused>>

\* Mutant of NextWatermark: the run's end, after which nothing is stamped with it.
EndOfRun == clock + 1

\* set_consolidation_watermark: the start of the run, never its end
NextWatermark == clock

AdvanceWatermark ==
    /\ run.pc = "enriching" /\ run.plan = {}
    /\ \/ watermark' = NextWatermark /\ NoEvent
       \/ watermark' = watermark /\ Event
    /\ run' = Idle
    /\ examined' = examined \cup run.seen
    /\ UNCHANGED <<rows, checkpoints, clock, client, undo,
                   removed, outside, excused>>

RunStep ==
    \/ StartRun \/ AbortRun \/ TakeSnapshot \/ FindClusters
    \/ \E c \in run.clusters : Dedup(c) \/ JudgingFails(c) \/ Decide(c)
    \/ WriteMerged \/ ListCurrent \/ JudgePairs \/ PlanArchive
    \/ \E m \in run.plan : MarkSuperseded(m) \/ Retire(m) \/ Archive(m) \/ Enrich(m)
    \/ CaptureCheckpoint \/ ListForEnrichment \/ AdvanceWatermark

-----------------------------------------------------------------------------
(* Rollback *)

Entries(entry) == Present(entry.modified) \cup entry.created

UndoOnly == UNCHANGED <<watermark, clock, run, client, examined>>

\* rollback_checkpoint, phase 1: an active checkpoint and its entries
LoadCheckpoint(i) ==
    /\ undo = None /\ checkpoints[i].active
    /\ undo' = [entry |-> checkpoints[i], left |-> Entries(checkpoints[i])]
    /\ UndoOnly /\ UNCHANGED <<rows, checkpoints, events, removed, outside, excused>>

\* Phase 2, entry by entry and each in its own transaction: update_memory with
\* the pre-image, which fails when the row is gone, or delete_memory, which does
\* not mind.
UndoEntry(m) ==
    /\ undo # None /\ m \in undo.left
    /\ IF m \in undo.entry.created
       THEN /\ rows' = [rows EXCEPT ![m] = None]
            /\ removed' = removed \cup {m}
            /\ undo' = [undo EXCEPT !.left = @ \ {m}]
            /\ UNCHANGED excused
       ELSE IF rows[m] # None
       THEN /\ rows' = [rows EXCEPT ![m] = undo.entry.modified[m]]
            /\ excused' = excused \cup {m}
            /\ undo' = [undo EXCEPT !.left = @ \ {m}]
            /\ UNCHANGED removed
       ELSE undo' = None /\ UNCHANGED <<rows, removed, excused>>
    /\ Attribute(undo.entry.run)
    /\ UndoOnly /\ UNCHANGED <<checkpoints, events>>

\* Phase 3: the checkpoint is spent, unless it was pruned meanwhile.
MarkRolledBack ==
    /\ undo # None /\ undo.left = {}
    /\ checkpoints' = [i \in DOMAIN checkpoints |->
                         IF checkpoints[i].run = undo.entry.run
                         THEN [checkpoints[i] EXCEPT !.active = FALSE]
                         ELSE checkpoints[i]]
    /\ undo' = None
    /\ UndoOnly /\ UNCHANGED <<rows, events, removed, outside, excused>>

\* The command dies: the checkpoint stays active.
RollbackDies ==
    /\ undo # None /\ Event
    /\ undo' = None
    /\ UndoOnly /\ UNCHANGED <<rows, checkpoints, removed, outside, excused>>

RollbackStep ==
    \/ \E i \in DOMAIN checkpoints : LoadCheckpoint(i)
    \/ undo # None /\ \E m \in undo.left : UndoEntry(m)
    \/ MarkRolledBack \/ RollbackDies

-----------------------------------------------------------------------------
(* A vault that was never consolidated, with any of the ids in use *)

Init ==
    /\ clock = 0
    /\ \E stored \in SUBSET Ids :
          rows = [m \in Ids |-> IF m \in stored THEN NewRow(TRUE) ELSE None]
    /\ watermark = 0 /\ checkpoints = <<>>
    /\ run = Idle /\ client = None /\ undo = None
    /\ events = 0
    /\ removed = {} /\ examined = {} /\ excused = {}
    /\ outside = [r \in 1..MaxRuns |-> {}]

Next == ClientStep \/ RunStep \/ RollbackStep

Spec == Init /\ [][Next]_vars

-----------------------------------------------------------------------------
(* Properties *)

Checkpoint == [run: Nat, modified: Table, created: SUBSET Ids, active: BOOLEAN,
               before: Table]
Operation  == [op: {"write", "update"}, id: Ids, row: Row]
Rollback   == [entry: Checkpoint, left: SUBSET Ids]
RunRecord  == [pc: Phases, since: Nat, snap: Table, clusters: SUBSET SUBSET Ids,
               group: SUBSET Ids, into: Ids \cup {None}, plan: SUBSET Ids,
               copies: Table, before: Table, seen: SUBSET Ids,
               missed: SUBSET Ids, stray: BOOLEAN]

\* Every variable keeps to the values its column, argument or local may take,
\* and no more checkpoints are retained than CHECKPOINT_RETENTION.
TypeOK ==
    /\ rows \in Table
    /\ watermark \in Nat /\ clock \in Nat /\ events \in Nat
    /\ checkpoints \in Seq(Checkpoint) /\ Len(checkpoints) <= Retention
    /\ run \in RunRecord
    /\ client \in Operation \cup {None}
    /\ undo \in Rollback \cup {None}
    /\ removed \in SUBSET Ids /\ examined \in SUBSET Ids /\ excused \in SUBSET Ids
    /\ outside \in [1..MaxRuns -> SUBSET Ids]

\* A superseded memory points at one that is there, or that somebody deleted by
\* name: no crash, skipped merge or rollback leaves a fact pointing at a
\* memory that was never written.
SurvivorExisted ==
    \A m \in Present(rows) :
        rows[m].by # None => rows[m].by \in Present(rows) \cup removed

\* When a rollback has applied its last entry, every memory that only the run
\* touched is what it was before the run (its aliases apart, which enrichment
\* writes after the capture), also when the rollback was cut short and repeated.
RollbackRestores ==
    undo # None /\ undo.left = {} =>
        \A m \in Ids \ outside[undo.entry.run] :
            Core(rows[m]) = Core(undo.entry.before[m])

\* The incremental watermark hides no fact that never seeded a run, except the
\* facts that were in flight when a run began or were brought back later.
MissedOnlyInFlight ==
    \A m \in Current : rows[m].created < watermark => m \in examined \cup excused

\* A run that nobody disturbs, whose model names no stranger as the winner,
\* leaves at least one fact of the boundary in force (archived or not).
InForce(table) == {m \in Present(table) : table[m].by = None /\ table[m].valid}
OneStaysInForce ==
    run.pc # "idle" /\ InForce(run.before) # {} /\ outside[clock] = {} /\ ~run.stray
        => InForce(rows) # {}

\* What a checkpoint lists as created was created by the run: no client wrote it.
CreatedByTheRun ==
    \A i \in DOMAIN checkpoints :
        \A m \in checkpoints[i].created \cap Present(rows) : ~rows[m].agent

\* A cluster that was skipped is retried by the next run: once a run has moved
\* the watermark, the members of the clusters it skipped still count as new.
SkippedSeedAgain ==
    [][ watermark' # watermark =>
            \A m \in run.missed \cap Current : rows[m].created >= watermark' ]_vars
=============================================================================
