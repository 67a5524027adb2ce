------------------------------- MODULE RunProofs -------------------------------
(***************************************************************************)
(* What a consolidation run owes the facts of a vault, for any number of   *)
(* memories, runs, clients' operations and failures: the watermark hides   *)
(* none, a rollback gives back what the run took, and one stays in force.  *)
(***************************************************************************)
EXTENDS ConsolidationProofs, FiniteSetTheorems

USE BoundsAssumption, NoneAssumption DEF BoundsAssumption, NoneAssumption

-----------------------------------------------------------------------------
(* The steps of a run between its seeds and its checkpoint.                *)

Judged == {"judging", "merging", "superseding", "retiring", "pairing",
           "resolving", "cooling", "archiving", "capturing"}

\* The run keeps what it knew when it set out.
RunRemembers ==
    /\ run'.since = run.since /\ run'.seen = run.seen /\ run'.copies = run.copies
    /\ run'.snap = run.snap /\ run'.before = run.before

\* A step that examines, judges, merges or archives: it changes the table and the
\* run, nothing else.
RunWorks ==
    /\ run.pc \in Judged /\ run'.pc \in Judged /\ RunRemembers
    /\ UNCHANGED <<watermark, checkpoints, clock, client, undo,
                   removed, examined, excused>>

\* A row as the listings of a run show it: Current is what is live in the table.
Live(r) == r # None /\ r.by = None /\ ~r.archived /\ r.valid

\* The ways back out of a cluster, and on to the next phase, forget nothing.
LEMMA WaysRemember ==
    ASSUME run \in RunRecord,
           \/ \E c : run' = Done(c) \/ run' = Skipped(c)
           \/ run' = BackToJudging \/ run' = SkipMerge \/ run' = ToPhase4
    PROVE  RunRemembers
<1>1. ASSUME NEW c, run' = Done(c) \/ run' = Skipped(c) PROVE RunRemembers
    BY <1>1 DEF Done, Skipped, RunRecord, RunRemembers
<1>2. CASE run' = BackToJudging
    BY <1>2 DEF BackToJudging, RunRecord, RunRemembers
<1>3. CASE run' = SkipMerge
    <2>1. BackToJudging \in RunRecord
        BY RunUpdates
    <2>2. /\ SkipMerge.since = BackToJudging.since /\ SkipMerge.seen = BackToJudging.seen
          /\ SkipMerge.copies = BackToJudging.copies /\ SkipMerge.snap = BackToJudging.snap
          /\ SkipMerge.before = BackToJudging.before
        BY <2>1 DEF SkipMerge, RunRecord
    <2>3. QED  BY <1>3, <2>2 DEF BackToJudging, RunRecord, RunRemembers
<1>4. CASE run' = ToPhase4
    BY <1>4 DEF ToPhase4, RunRecord, RunRemembers
<1>5. QED  BY <1>1, <1>2, <1>3, <1>4

\* The steps that only look change nothing but the run.
LEMMA LookingRun ==
    ASSUME TypeInv,
           \/ ListCurrent \/ JudgePairs \/ PlanArchive
           \/ \E c \in run.clusters : JudgingFails(c) \/ Decide(c)
    PROVE  RunWorks /\ UNCHANGED <<rows, outside>>
<1>0. run \in RunRecord
    BY DEF TypeInv, TypeOK
<1> USE DEF RunOnly, history, Judged, RunWorks
<1>1. CASE ListCurrent
    <2>1. \/ run' = ToPhase4
          \/ run' = [run EXCEPT !.pc = "pairing", !.group = Current]
        BY <1>1 DEF ListCurrent
    <2>2. run.pc \in Judged /\ run'.pc \in Judged
        BY <1>0, <1>1, <2>1, RunUpdates DEF ListCurrent, RunRecord
    <2>3. CASE run' = ToPhase4
        BY <1>0, <1>1, <2>2, <2>3, WaysRemember DEF ListCurrent
    <2>4. CASE run' = [run EXCEPT !.pc = "pairing", !.group = Current]
        BY <1>0, <1>1, <2>2, <2>4 DEF ListCurrent, RunRemembers, RunRecord
    <2>5. QED  BY <2>1, <2>3, <2>4
<1>2. CASE JudgePairs
    <2>1. \/ run' = ToPhase4
          \/ \E p : run' = [run EXCEPT !.pc = "resolving", !.plan = p]
        BY <1>2 DEF JudgePairs
    <2>2. run.pc \in Judged /\ run'.pc \in Judged
        BY <1>0, <1>2, <2>1, RunUpdates DEF JudgePairs, RunRecord
    <2>3. CASE run' = ToPhase4
        BY <1>0, <1>2, <2>2, <2>3, WaysRemember DEF JudgePairs
    <2>4. CASE \E p : run' = [run EXCEPT !.pc = "resolving", !.plan = p]
        BY <1>0, <1>2, <2>2, <2>4 DEF JudgePairs, RunRemembers, RunRecord
    <2>5. QED  BY <2>1, <2>3, <2>4
<1>3. CASE PlanArchive
    <2>1. PICK cold :
             run' = [run EXCEPT !.pc = IF cold = {} THEN "capturing" ELSE "archiving",
                                !.plan = cold]
        BY <1>3 DEF PlanArchive
    <2>2. run'.pc \in Judged /\ RunRemembers
        BY <1>0, <2>1 DEF RunRecord, RunRemembers
    <2>3. QED  BY <1>3, <2>2 DEF PlanArchive
<1>4. ASSUME NEW c \in run.clusters, JudgingFails(c)
      PROVE  RunWorks /\ UNCHANGED <<rows, outside>>
    BY <1>0, <1>4, RunUpdates, WaysRemember DEF JudgingFails
<1>5. ASSUME NEW c \in run.clusters, Decide(c)
      PROVE  RunWorks /\ UNCHANGED <<rows, outside>>
    <2>1. run.pc = "judging" /\ Done(c) \in RunRecord /\ Done(c).pc = "judging"
        BY <1>0, <1>5, RunUpdates DEF Decide
    <2>2. \/ run' = Done(c) \/ run' = Skipped(c)
          \/ run' = [Done(c) EXCEPT !.pc = "merging", !.group = c]
          \/ \E p, b : run' = [Done(c) EXCEPT !.pc = "retiring", !.plan = p, !.stray = b]
        BY <1>5, Zenon DEF Decide
    <2>3. UNCHANGED <<rows, watermark, checkpoints, clock, client, undo,
                      removed, outside, examined, excused>>
        BY <1>5 DEF Decide
    <2>4. CASE run' = Done(c) \/ run' = Skipped(c)
        BY <1>0, <2>1, <2>3, <2>4, RunUpdates, WaysRemember
    <2>5. /\ Done(c).since = run.since /\ Done(c).seen = run.seen
          /\ Done(c).copies = run.copies /\ Done(c).snap = run.snap
          /\ Done(c).before = run.before
        BY <1>0 DEF Done, RunRecord
    <2>6. CASE run' = [Done(c) EXCEPT !.pc = "merging", !.group = c]
        BY <2>1, <2>3, <2>5, <2>6 DEF RunRecord, RunRemembers
    <2>7. CASE \E p, b : run' = [Done(c) EXCEPT !.pc = "retiring", !.plan = p, !.stray = b]
        BY <2>1, <2>3, <2>5, <2>7 DEF RunRecord, RunRemembers
    <2>8. QED  BY <2>2, <2>4, <2>6, <2>7
<1>6. QED  BY <1>1, <1>2, <1>3, <1>4, <1>5

\* What such a step may do to the table: leave a row, take it out of the
\* listings, or put a new one where none is and none is drafted.
RowsWorked ==
    \A m \in Ids :
        \/ rows'[m] = rows[m]
        \/ rows[m] # None /\ rows'[m] # None /\ ~Live(rows'[m])
        \/ m \in Fresh /\ rows'[m] = NewRow(FALSE)

\* One row changed, or none.
LEMMA OneRowWorked ==
    ASSUME rows \in Table, NEW m \in Ids, NEW row,
           rows' = rows \/ rows' = [rows EXCEPT ![m] = row],
           \/ rows[m] # None /\ row # None /\ ~Live(row)
           \/ m \in Fresh /\ row = NewRow(FALSE)
           \/ rows' = rows
    PROVE  RowsWorked
BY DEF RowsWorked, Table

\* Superseding, invalidating and archiving a row each take it out of the listings.
LEMMA DulledRow ==
    ASSUME NEW r \in Row
    PROVE  /\ \A s \in Ids : [r EXCEPT !.by = s] # None /\ ~Live([r EXCEPT !.by = s])
           /\ [r EXCEPT !.valid = FALSE] # None /\ ~Live([r EXCEPT !.valid = FALSE])
           /\ [r EXCEPT !.archived = TRUE] # None /\ ~Live([r EXCEPT !.archived = TRUE])
<1>1. ASSUME NEW s \in Ids PROVE [r EXCEPT !.by = s] # None /\ [r EXCEPT !.by = s].by # None
    BY RowKeepsBy
<1>2. [r EXCEPT !.valid = FALSE] \in Row /\ [r EXCEPT !.valid = FALSE].valid = FALSE
    BY DEF Row
<1>3. [r EXCEPT !.archived = TRUE] \in Row /\ [r EXCEPT !.archived = TRUE].archived = TRUE
    BY DEF Row
<1>4. QED  BY <1>1, <1>2, <1>3 DEF Live

\* The steps that write to the table on behalf of the run.
LEMMA WritingRun ==
    ASSUME TypeInv, SurvivorInv,
           \/ WriteMerged
           \/ \E c \in run.clusters : Dedup(c)
           \/ \E m \in run.plan : MarkSuperseded(m) \/ Retire(m) \/ Archive(m)
    PROVE  RunWorks /\ RowsWorked /\ Attribute(clock)
<1>0. /\ run \in RunRecord /\ rows \in Table /\ run.plan \in SUBSET Ids
      /\ \A m \in Ids : rows[m] # None => rows[m] \in Row
    BY TableUpdates DEF TypeInv, TypeOK, RunRecord
<1> USE DEF RunChangesRows, Judged
<1>1. CASE WriteMerged
    <2>1. /\ UNCHANGED <<watermark, checkpoints, clock, client, undo, removed, examined, excused>>
          /\ run.pc = "merging" /\ Attribute(clock)
        BY <1>1 DEF WriteMerged
    <2>2. \/ rows' = rows /\ run' = SkipMerge
          \/ \E n \in Fresh :
               /\ rows' = [rows EXCEPT ![n] = NewRow(FALSE)]
               /\ run' = [run EXCEPT !.pc = "superseding", !.into = n, !.plan = run.group]
        BY <1>1, Zenon DEF WriteMerged
    <2>3. CASE rows' = rows /\ run' = SkipMerge
        BY <1>0, <2>1, <2>3, RunUpdates, WaysRemember DEF RowsWorked, RunWorks
    <2>4. ASSUME NEW n \in Fresh, rows' = [rows EXCEPT ![n] = NewRow(FALSE)],
                 run' = [run EXCEPT !.pc = "superseding", !.into = n, !.plan = run.group]
          PROVE  RunWorks /\ RowsWorked
        <3>1. run'.pc = "superseding" /\ RunRemembers
            BY <1>0, <2>4 DEF RunRecord, RunRemembers
        <3>2. n \in Ids
            BY DEF Fresh
        <3> DEFINE row == NewRow(FALSE)
        <3>3. rows' = [rows EXCEPT ![n] = row] /\ row = NewRow(FALSE)
            BY <2>4
        <3> HIDE DEF row
        <3>4. RowsWorked
            BY <1>0, <3>2, <3>3, OneRowWorked
        <3>5. QED  BY <2>1, <3>1, <3>4 DEF RunWorks
    <2>5. QED  BY <2>1, <2>2, <2>3, <2>4
<1>2. ASSUME NEW c \in run.clusters, Dedup(c)
      PROVE  RunWorks /\ RowsWorked /\ Attribute(clock)
    <2>1. /\ UNCHANGED <<watermark, checkpoints, clock, client, undo, removed, examined, excused>>
          /\ run.pc = "judging" /\ Attribute(clock)
          /\ run' = Done(c) \/ run' = Skipped(c)
        BY <1>2 DEF Dedup
    <2>2. RunWorks
        BY <1>0, <2>1, RunUpdates, WaysRemember DEF RunWorks
    <2>3. \/ rows' = rows
          \/ /\ c \subseteq Present(rows)
             /\ \E t \in c :
                  rows' = [m \in Ids |-> IF m \in c \ {t} THEN [rows[m] EXCEPT !.by = t]
                                         ELSE rows[m]]
        BY <1>2, Zenon DEF Dedup
    <2>4. ASSUME NEW t \in c, c \subseteq Present(rows),
                 rows' = [m \in Ids |-> IF m \in c \ {t} THEN [rows[m] EXCEPT !.by = t]
                                        ELSE rows[m]]
          PROVE  RowsWorked
        <3>1. \A m \in c : rows[m] \in Row /\ rows[m] # None
            BY <1>0, <2>4 DEF Present
        <3>2. t \in Ids
            BY <2>4 DEF Present
        <3>3. \A m \in c : [rows[m] EXCEPT !.by = t] # None /\ ~Live([rows[m] EXCEPT !.by = t])
            BY <3>1, <3>2, DulledRow
        <3>4. \A m \in Ids : rows'[m] = IF m \in c \ {t} THEN [rows[m] EXCEPT !.by = t]
                                        ELSE rows[m]
            BY <2>4
        <3>5. QED  BY <3>1, <3>3, <3>4 DEF RowsWorked
    <2>5. QED  BY <2>1, <2>2, <2>3, <2>4 DEF RowsWorked
<1>3. ASSUME NEW m \in run.plan, MarkSuperseded(m)
      PROVE  RunWorks /\ RowsWorked /\ Attribute(clock)
    <2>1. /\ UNCHANGED <<watermark, checkpoints, clock, client, undo, removed, examined, excused>>
          /\ run.pc = "superseding" /\ Attribute(clock)
        BY <1>3 DEF MarkSuperseded
    <2>2. run' \in {BackToJudging, SkipMerge, [run EXCEPT !.plan = run.plan \ {m}]}
        BY <1>3 DEF MarkSuperseded
    <2>3. /\ run' = [run EXCEPT !.plan = run.plan \ {m}] => RunRemembers
          /\ run' = [run EXCEPT !.plan = run.plan \ {m}] => run'.pc = run.pc
        BY <1>0 DEF RunRecord, RunRemembers
    <2>4. RunWorks
        BY <1>0, <2>1, <2>2, <2>3, RunUpdates, WaysRemember DEF RunWorks
    <2>5. \/ rows' = rows
          \/ rows[m] # None /\ rows' = [rows EXCEPT ![m] = [rows[m] EXCEPT !.by = run.into]]
        BY <1>3 DEF MarkSuperseded
    <2>6. run.into \in Ids
        BY <2>1 DEF SurvivorInv, Known, TypeInv, TypeOK, Present
    <2> DEFINE row == [rows[m] EXCEPT !.by = run.into]
    <2>7. rows[m] # None => row # None /\ ~Live(row)
        BY <1>0, <2>6, DulledRow
    <2> HIDE DEF row
    <2>8. rows' = rows \/ (rows[m] # None /\ rows' = [rows EXCEPT ![m] = row])
        BY <2>5 DEF row
    <2>9. RowsWorked
        BY <1>0, <2>7, <2>8, OneRowWorked
    <2>10. QED  BY <2>1, <2>4, <2>9
<1>4. ASSUME NEW m \in run.plan, Retire(m)
      PROVE  RunWorks /\ RowsWorked /\ Attribute(clock)
    <2>1. /\ UNCHANGED <<watermark, checkpoints, clock, client, undo, removed, examined, excused>>
          /\ run.pc \in {"retiring", "resolving"} /\ Attribute(clock)
        BY <1>4 DEF Retire
    <2>2. run' \in {BackToJudging, ToPhase4, [run EXCEPT !.plan = run.plan \ {m}]}
        BY <1>4 DEF Retire
    <2>3. /\ run' = [run EXCEPT !.plan = run.plan \ {m}] => RunRemembers
          /\ run' = [run EXCEPT !.plan = run.plan \ {m}] => run'.pc = run.pc
        BY <1>0 DEF RunRecord, RunRemembers
    <2>4. RunWorks
        BY <1>0, <2>1, <2>2, <2>3, RunUpdates, WaysRemember DEF RunWorks
    <2>5. \/ rows' = rows
          \/ rows[m] # None /\ rows' = [rows EXCEPT ![m] = [rows[m] EXCEPT !.valid = FALSE]]
        BY <1>4 DEF Retire
    <2> DEFINE row == [rows[m] EXCEPT !.valid = FALSE]
    <2>7. rows[m] # None => row # None /\ ~Live(row)
        BY <1>0, DulledRow
    <2> HIDE DEF row
    <2>8. rows' = rows \/ (rows[m] # None /\ rows' = [rows EXCEPT ![m] = row])
        BY <2>5 DEF row
    <2>9. RowsWorked
        BY <1>0, <2>7, <2>8, OneRowWorked
    <2>10. QED  BY <2>1, <2>4, <2>9
<1>5. ASSUME NEW m \in run.plan, Archive(m)
      PROVE  RunWorks /\ RowsWorked /\ Attribute(clock)
    <2>1. /\ UNCHANGED <<watermark, checkpoints, clock, client, undo, removed, examined, excused>>
          /\ run.pc = "archiving" /\ Attribute(clock)
        BY <1>5 DEF Archive
    <2>2. PICK pc \in {"capturing", "archiving"} :
             run' = [run EXCEPT !.pc = pc, !.plan = run.plan \ {m}]
        BY <1>0, <1>5 DEF Archive, RunRecord
    <2>3. run'.pc = pc /\ RunRemembers
        BY <1>0, <2>2 DEF RunRecord, RunRemembers
    <2>4. RunWorks
        BY <2>1, <2>3 DEF RunWorks
    <2>5. \/ rows' = rows
          \/ rows[m] # None /\ rows' = [rows EXCEPT ![m] = [rows[m] EXCEPT !.archived = TRUE]]
        BY <1>5 DEF Archive
    <2> DEFINE row == [rows[m] EXCEPT !.archived = TRUE]
    <2>7. rows[m] # None => row # None /\ ~Live(row)
        BY <1>0, DulledRow
    <2> HIDE DEF row
    <2>8. rows' = rows \/ (rows[m] # None /\ rows' = [rows EXCEPT ![m] = row])
        BY <2>5 DEF row
    <2>9. RowsWorked
        BY <1>0, <2>7, <2>8, OneRowWorked
    <2>10. QED  BY <2>1, <2>4, <2>9
<1>6. QED  BY <1>1, <1>2, <1>3, <1>4, <1>5
-----------------------------------------------------------------------------
(* The watermark.  A fact older than the watermark has seeded a run that   *)
(* succeeded, or was in flight, whichever version of it ends in the table: *)
(* the row itself, the copy an enrichment will write, the row a client's   *)
(* update has in hand.                                                     *)

\* What may still be written into the table: an update needs its row.
CanCommit == client # None /\ (client.op = "write" \/ rows[client.id] # None)

Versions(m) == {rows[m], run.copies[m]} \cup
               IF CanCommit /\ client.id = m THEN {client.row} ELSE {}

Settled == examined \cup excused
Seeding == {"listing", "clustering"}

\* Every fact created before `limit` is among `ids`, in all its versions.
Covered(limit, ids) ==
    \A m \in Ids : \A r \in Versions(m) : Live(r) /\ r.created < limit => m \in ids

\* Before the run lists the seeds, an update in hand is a version of a listed
\* row, or its row is settled.
UpdateIsOfRow ==
    CanCommit /\ Live(client.row) /\ client.row.created < clock =>
        \/ client.id \in Settled
        \/ /\ client.op = "update" /\ Live(rows[client.id])
           /\ rows[client.id].created = client.row.created

\* The snapshot lists every current fact created before the run.
SnapshotLists ==
    \A m \in Current : rows[m].created < clock => m \in Listed(run.snap) \cup Settled

WatermarkInv ==
    /\ watermark <= clock
    /\ run.pc # "idle" => run.since <= watermark
    /\ run.pc # "enriching" => run.copies = NoRows
    /\ Covered(watermark, Settled)
    /\ run.pc \notin Seeding \cup {"idle"} => Covered(clock, Settled \cup run.seen)
    /\ run.pc \in Seeding => UpdateIsOfRow
    /\ run.pc = "clustering" => SnapshotLists

\* Each new version of a fact stems from an old one, or is no fact of the
\* limit's, or settles it.
Stems(settled) ==
    \A m \in Ids : \A r \in Versions(m)' :
        Live(r) => \/ \E s \in Versions(m) : Live(s) /\ s.created = r.created
                   \/ ~ r.created < clock
                   \/ m \in settled

LEMMA CoveredKeeps ==
    ASSUME NEW limit \in Nat, NEW ids, NEW larger, clock \in Nat,
           limit <= clock, ids \subseteq larger,
           Covered(limit, ids), Stems(larger),
           \A m \in Ids : \A r \in Versions(m)' : Live(r) => r.created \in Nat
    PROVE  \A m \in Ids : \A r \in Versions(m)' :
              Live(r) /\ r.created < limit => m \in larger
<1> SUFFICES ASSUME NEW m \in Ids, NEW r \in Versions(m)', Live(r), r.created < limit
             PROVE  m \in larger
    OBVIOUS
<1>1. r.created \in Nat
    OBVIOUS
<1>2. r.created < clock
    BY <1>1
<1>3. CASE \E s \in Versions(m) : Live(s) /\ s.created = r.created
    BY <1>3 DEF Covered
<1>4. QED  BY <1>2, <1>3 DEF Stems

\* The versions of a fact are rows.
LEMMA VersionsAreRows ==
    ASSUME TypeInv
    PROVE  \A m \in Ids : \A r \in Versions(m) : r # None => r \in Row /\ r.created \in Nat
<1>1. /\ rows \in Table /\ run.copies \in Table
      /\ client # None => client.row \in Row
    BY DEF TypeInv, TypeOK, RunRecord, Operation
<1>2. \A r \in Row : r.created \in Nat
    BY DEF Row
<1>3. QED  BY <1>1, <1>2 DEF Versions, CanCommit, Table

\* What a step that leaves the watermark and the clock alone has to show.
LEMMA WatermarkFrame ==
    ASSUME TypeInv, TypeInv', WatermarkInv, UNCHANGED <<watermark, clock>>,
           Settled \subseteq Settled',
           run'.pc # "idle" => run.pc # "idle" /\ run'.since = run.since,
           run'.pc \notin Seeding \cup {"idle"} =>
               run.pc \notin Seeding \cup {"idle"} /\ run'.seen = run.seen,
           run'.pc # "enriching" => run'.copies = NoRows,
           Stems(Settled'),
           run'.pc \in Seeding => UpdateIsOfRow',
           run'.pc = "clustering" => SnapshotLists'
    PROVE  WatermarkInv'
<1>1. watermark \in Nat /\ clock \in Nat /\ watermark <= clock
    BY DEF TypeInv, TypeOK, WatermarkInv
<1>2. \A m \in Ids : \A r \in Versions(m)' : Live(r) => r.created \in Nat
    <2>1. \A m \in Ids : \A r \in Versions(m)' : r # None => r.created \in Nat
        <3>1. (\A m \in Ids : \A r \in Versions(m) : r # None => r \in Row /\ r.created \in Nat)'
            BY VersionsAreRows, PTL
        <3>2. QED  BY <3>1
    <2>2. QED  BY <2>1 DEF Live
<1>3. Covered(watermark, Settled)'
    <2>1. Covered(watermark, Settled)
        BY DEF WatermarkInv
    <2>2. \A m \in Ids : \A r \in Versions(m)' :
             Live(r) /\ r.created < watermark => m \in Settled'
        BY <1>1, <1>2, <2>1, CoveredKeeps
    <2>3. QED  BY <2>2 DEF Covered
<1>4. run'.pc \notin Seeding \cup {"idle"} => Covered(clock, Settled \cup run.seen)'
    <2> SUFFICES ASSUME run'.pc \notin Seeding \cup {"idle"}
                 PROVE  Covered(clock, Settled \cup run.seen)'
        OBVIOUS
    <2>1. Covered(clock, Settled \cup run.seen)
        BY DEF WatermarkInv
    <2>2. Stems(Settled' \cup run.seen)
        BY DEF Stems
    <2>3. \A m \in Ids : \A r \in Versions(m)' :
             Live(r) /\ r.created < clock => m \in Settled' \cup run.seen
        BY <1>1, <1>2, <2>1, <2>2, CoveredKeeps
    <2>4. QED  BY <2>3 DEF Covered
<1>5. run'.pc # "idle" => run'.since <= watermark'
    BY DEF WatermarkInv
<1>6. QED  BY <1>1, <1>3, <1>4, <1>5 DEF WatermarkInv

LEMMA InitWatermark == Init => WatermarkInv
<1> SUFFICES ASSUME Init PROVE WatermarkInv
    OBVIOUS
<1>1. run.pc = "idle" /\ run.copies = NoRows /\ clock = 0 /\ watermark = 0 /\ client = None
    BY DEF Init, Idle
<1>2. \A m \in Ids : \A r \in Versions(m) : r # None => r.created = 0
    BY <1>1 DEF Versions, CanCommit, NoRows, Init, NewRow
<1>3. Covered(watermark, Settled)
    BY <1>1, <1>2 DEF Covered, Live
<1>4. QED  BY <1>1, <1>3 DEF WatermarkInv, Seeding

\* A draft is younger than the runs begun; an update keeps the row's date, and
\* one that brings an archived row back settles it.
LEMMA ClientWatermark ==
    ASSUME TypeInv, TypeInv', WatermarkInv, ClientStep
    PROVE  WatermarkInv'
<1>0. /\ rows \in Table /\ clock \in Nat /\ client \in Operation \cup {None}
      /\ \A m \in Ids : rows[m] # None => rows[m] \in Row
    BY TableUpdates DEF TypeInv, TypeOK
<1> USE DEF history
<1>1. ASSUME NEW m \in Ids, DraftWrite(m) PROVE WatermarkInv'
    <2>1. /\ UNCHANGED <<rows, run, clock, watermark, examined, excused>>
          /\ client = None /\ rows[m] = None
          /\ client'.op = "write" /\ client'.id = m /\ client'.row = NewRow(TRUE)
        BY <1>1 DEF DraftWrite, Fresh
    <2>2. client'.row.created = clock
        BY <2>1 DEF NewRow
    <2>3. \A n \in Ids : \A r \in Versions(n)' : r \in Versions(n) \/ r.created = clock
        BY <2>1, <2>2 DEF Versions
    <2>4. Stems(Settled')
        BY <1>0, <2>3 DEF Stems
    <2>5. UpdateIsOfRow'
        <3>1. clock' = clock /\ ~ clock < clock
            BY <1>0, <2>1
        <3>2. QED  BY <2>2, <3>1 DEF UpdateIsOfRow
    <2>6. run'.pc = "clustering" => SnapshotLists'
        BY <2>1 DEF WatermarkInv, SnapshotLists, Current, Listed, Present, Settled
    <2>7. QED  BY <2>1, <2>4, <2>5, <2>6, WatermarkFrame DEF WatermarkInv, Settled
<1>2. ASSUME NEW m \in Ids, ReadForUpdate(m) PROVE WatermarkInv'
    <2>1. /\ UNCHANGED <<rows, run, clock, watermark, examined>>
          /\ client = None /\ rows[m] # None
          /\ client'.op = "update" /\ client'.id = m
          /\ client'.row = [rows[m] EXCEPT !.text = events + 1, !.archived = FALSE]
          /\ excused' = IF rows[m].archived THEN excused \cup {m} ELSE excused
        BY <1>2 DEF ReadForUpdate
    <2>2. /\ client'.row.created = rows[m].created /\ client'.row.by = rows[m].by
          /\ client'.row.valid = rows[m].valid
        BY <1>0, <2>1 DEF Row
    <2>3. Live(client'.row) => m \in Settled' \/ Live(rows[m])
        BY <2>1, <2>2 DEF Live, Settled
    <2>4. \A n \in Ids : \A r \in Versions(n)' :
             r \in Versions(n) \/ (n = m /\ r = client'.row)
        BY <2>1 DEF Versions
    <2>5. rows[m] \in Versions(m)
        BY DEF Versions
    <2>6. Stems(Settled')
        BY <2>2, <2>3, <2>4, <2>5 DEF Stems
    <2>7. UpdateIsOfRow'
        BY <2>1, <2>2, <2>3 DEF UpdateIsOfRow
    <2>8. run'.pc = "clustering" => SnapshotLists'
        BY <2>1 DEF WatermarkInv, SnapshotLists, Current, Listed, Present, Settled
    <2>9. QED  BY <2>1, <2>6, <2>7, <2>8, WatermarkFrame DEF WatermarkInv, Settled
<1>3. ASSUME NEW m \in Ids, DeleteMemory(m) PROVE WatermarkInv'
    <2>1. /\ UNCHANGED <<run, clock, watermark, client, examined, excused>>
          /\ rows' = [rows EXCEPT ![m] = None]
        BY <1>3 DEF DeleteMemory
    <2>2. \A n \in Ids : rows'[n] = IF n = m THEN None ELSE rows[n]
        BY <1>0, <2>1 DEF Table
    <2>3. client # None => client.id \in Ids
        BY <1>0 DEF Operation
    <2>4. CanCommit' => CanCommit /\ (client.op = "update" => client.id # m)
        BY <2>1, <2>2, <2>3 DEF CanCommit
    <2>5. \A n \in Ids : \A r \in Versions(n)' : r \in Versions(n) \/ r = None
        BY <2>1, <2>2, <2>4 DEF Versions
    <2>6. Stems(Settled')
        BY <2>5 DEF Stems, Live
    <2>7. UpdateIsOfRow => UpdateIsOfRow'
        BY <2>1, <2>2, <2>3, <2>4 DEF UpdateIsOfRow, CanCommit, Settled
    <2>8. SnapshotLists => SnapshotLists'
        BY <2>1, <2>2 DEF SnapshotLists, Current, Listed, Present, Settled
    <2>9. QED  BY <2>1, <2>6, <2>7, <2>8, WatermarkFrame DEF WatermarkInv, Settled
<1>4. ASSUME CommitClient PROVE WatermarkInv'
    <2>1. /\ UNCHANGED <<run, clock, watermark, examined, excused>>
          /\ client # None /\ client' = None /\ client.id \in Ids
          /\ rows' = IF CanCommit THEN [rows EXCEPT ![client.id] = client.row] ELSE rows
        BY <1>0, <1>4 DEF CommitClient, CanCommit, Operation
    <2>2. \A n \in Ids : rows'[n] = IF CanCommit /\ n = client.id THEN client.row ELSE rows[n]
        BY <1>0, <2>1 DEF Table
    <2>3. \A n \in Ids : \A r \in Versions(n)' : r \in Versions(n)
        BY <2>1, <2>2 DEF Versions, CanCommit
    <2>4. Stems(Settled')
        BY <2>3 DEF Stems
    <2>5. UpdateIsOfRow'
        BY <2>1 DEF UpdateIsOfRow, CanCommit
    <2>6. UpdateIsOfRow /\ SnapshotLists => SnapshotLists'
        <3> SUFFICES ASSUME UpdateIsOfRow, SnapshotLists,
                            NEW n \in Current', rows'[n].created < clock
                     PROVE  n \in Listed(run.snap) \cup Settled
            BY <2>1 DEF SnapshotLists, Listed, Present, Settled
        <3>1. n \in Ids /\ Live(rows'[n])
            BY DEF Current, Listed, Present, Live
        <3>2. CASE rows'[n] = rows[n]
            BY <3>1, <3>2 DEF Live, SnapshotLists, Current, Listed, Present
        <3>3. CASE CanCommit /\ n = client.id /\ rows'[n] = client.row
            BY <3>1, <3>3 DEF Live, UpdateIsOfRow, SnapshotLists, Current, Listed, Present
        <3>4. QED  BY <2>2, <3>1, <3>2, <3>3
    <2>7. run.pc = "clustering" => UpdateIsOfRow /\ SnapshotLists
        BY DEF WatermarkInv, Seeding
    <2>8. QED  BY <2>1, <2>4, <2>5, <2>6, <2>7, WatermarkFrame DEF WatermarkInv, Settled
<1>5. ASSUME ClientDies PROVE WatermarkInv'
    <2>1. /\ UNCHANGED <<rows, run, clock, watermark, examined, excused>> /\ client' = None
        BY <1>5 DEF ClientDies
    <2>2. Stems(Settled')
        BY <2>1 DEF Stems, Versions, CanCommit
    <2>3. UpdateIsOfRow'
        BY <2>1 DEF UpdateIsOfRow, CanCommit
    <2>4. SnapshotLists => SnapshotLists'
        BY <2>1 DEF SnapshotLists, Current, Listed, Present, Settled
    <2>5. QED  BY <2>1, <2>2, <2>3, <2>4, WatermarkFrame DEF WatermarkInv, Settled
<1>6. QED  BY <1>1, <1>2, <1>3, <1>4, <1>5 DEF ClientStep

\* A run's working steps take rows out of the listings, or add one that is as
\* young as the run.
LEMMA WorksWatermark ==
    ASSUME TypeInv, TypeInv', WatermarkInv, RunWorks, RowsWorked
    PROVE  WatermarkInv'
<1>0. clock \in Nat /\ client \in Operation \cup {None}
    BY DEF TypeInv, TypeOK
<1>1. /\ UNCHANGED <<watermark, clock, client, examined, excused>>
      /\ run.pc \in Judged /\ run'.pc \in Judged
      /\ run'.since = run.since /\ run'.seen = run.seen /\ run'.copies = run.copies
    BY DEF RunWorks, RunRemembers
<1>2. run'.copies = NoRows
    BY <1>1 DEF WatermarkInv, Judged
<1>3. NewRow(FALSE).created = clock
    BY DEF NewRow
<1>4. \A m \in Ids : \/ rows'[m] = rows[m]
                     \/ ~Live(rows'[m])
                     \/ rows'[m].created = clock
    BY <1>3 DEF RowsWorked
<1>5. CanCommit' => CanCommit
    <2>1. ASSUME client # None, client.op # "write", rows'[client.id] # None
          PROVE  rows[client.id] # None
        <3>1. client.id \in Ids /\ client.id \notin Fresh
            BY <1>0, <2>1 DEF Operation, Fresh
        <3>2. QED  BY <2>1, <3>1 DEF RowsWorked
    <2>2. QED  BY <1>1, <2>1 DEF CanCommit
<1>6. Stems(Settled')
    <2>1. \A m \in Ids : \A r \in Versions(m)' :
             Live(r) => r \in Versions(m) \/ r.created = clock
        BY <1>1, <1>4, <1>5 DEF Versions
    <2>2. QED  BY <1>0, <2>1 DEF Stems
<1>7. QED  BY <1>1, <1>2, <1>6, WatermarkFrame DEF Settled, Judged, Seeding

\* The first steps of a run: it takes the watermark, the snapshot, the seeds.
LEMMA SeedingWatermark ==
    ASSUME TypeInv, TypeInv', WatermarkInv,
           StartRun \/ TakeSnapshot \/ FindClusters
    PROVE  WatermarkInv'
<1>0. /\ run \in RunRecord /\ clock \in Nat /\ watermark \in Nat
      /\ client \in Operation \cup {None} /\ rows \in Table
    BY DEF TypeInv, TypeOK
<1>1. CASE StartRun
    <2>1. /\ UNCHANGED <<rows, watermark, client, examined>>
          /\ run.pc = "idle" /\ clock' = clock + 1
          /\ excused' = IF client = None THEN excused ELSE excused \cup {client.id}
        BY <1>1 DEF StartRun
    <2>2. run'.pc = "listing" /\ run'.since \in {0, watermark} /\ run'.copies = NoRows
        BY <1>1 DEF StartRun, Idle
    <2>3. run.copies = NoRows /\ Covered(watermark, Settled) /\ watermark <= clock
        BY <2>1 DEF WatermarkInv
    <2>4. Covered(watermark, Settled)'
        BY <2>1, <2>2, <2>3 DEF Covered, Versions, CanCommit, Settled
    <2>5. UpdateIsOfRow'
        BY <2>1 DEF UpdateIsOfRow, CanCommit, Settled
    <2>6. watermark' <= clock' /\ run'.since <= watermark'
        BY <1>0, <2>1, <2>2, <2>3
    <2>7. QED  BY <2>2, <2>4, <2>5, <2>6 DEF WatermarkInv, Seeding
<1>2. CASE TakeSnapshot
    <2>1. UNCHANGED <<rows, watermark, clock, client, examined, excused>>
        BY <1>2 DEF TakeSnapshot
    <2>2. /\ run.pc = "listing" /\ run'.pc = "clustering" /\ run'.snap = rows
          /\ run'.since = run.since /\ run'.copies = run.copies
        BY <1>0, <1>2 DEF TakeSnapshot, FullEnumeration, RunRecord
    <2>3. Stems(Settled')
        BY <2>1, <2>2 DEF Stems, Versions, CanCommit
    <2>4. UpdateIsOfRow'
        BY <2>1, <2>2 DEF WatermarkInv, Seeding, UpdateIsOfRow, CanCommit, Settled
    <2>5. SnapshotLists'
        BY <2>1, <2>2 DEF SnapshotLists, Current, Listed, Present
    <2>6. run'.copies = NoRows
        BY <2>2 DEF WatermarkInv
    <2>7. QED  BY <2>1, <2>2, <2>3, <2>4, <2>5, <2>6, WatermarkFrame DEF Settled, Seeding
<1>3. CASE FindClusters
    <2> DEFINE seeds == IF Listed(run.snap) = {} THEN {} ELSE Seeds(run.since)
    <2>1. UNCHANGED <<rows, watermark, clock, client, examined, excused>> /\ run.pc = "clustering"
        BY <1>3 DEF FindClusters, RunOnly, history
    <2>2. PICK cs : run' = [run EXCEPT !.pc = "judging", !.clusters = cs, !.seen = seeds]
        BY <1>3 DEF FindClusters
    <2>3. /\ run'.pc = "judging" /\ run'.seen = seeds
          /\ run'.since = run.since /\ run'.copies = run.copies
        <3> HIDE DEF seeds
        <3>1. QED  BY <1>0, <2>2 DEF RunRecord
    <2>4. run.copies = NoRows /\ run.since <= watermark /\ run.since \in Nat
        BY <1>0, <2>1 DEF WatermarkInv, RunRecord
    <2>5. Covered(watermark, Settled) /\ UpdateIsOfRow /\ SnapshotLists
        BY <2>1 DEF WatermarkInv, Seeding
    <2>6. ASSUME NEW m \in Ids, Live(rows[m]), rows[m].created < clock
          PROVE  m \in Settled \cup seeds
        <3>1. m \in Current /\ rows[m].created \in Nat
            BY <1>0, <2>6 DEF Current, Listed, Present, Live, Table, Row
        <3>2. m \in Listed(run.snap) \cup Settled
            BY <2>5, <2>6, <3>1 DEF SnapshotLists
        <3>3. CASE rows[m].created < watermark
            BY <2>5, <2>6, <3>3 DEF Covered, Versions
        <3>4. CASE rows[m].created >= run.since
            BY <3>1, <3>2, <3>4 DEF Seeds
        <3>5. QED  BY <1>0, <2>4, <3>1, <3>3, <3>4
    <2>7. ASSUME NEW m \in Ids, NEW r \in Versions(m), Live(r), r.created < clock
          PROVE  m \in Settled \cup seeds
        <3>1. CASE r = rows[m]
            BY <2>6, <2>7, <3>1
        <3>2. CASE r = run.copies[m]
            BY <2>4, <2>7, <3>2 DEF NoRows, Live
        <3>3. CASE CanCommit /\ client.id = m /\ r = client.row
            BY <2>5, <2>6, <2>7, <3>3 DEF UpdateIsOfRow
        <3>4. QED  BY <3>1, <3>2, <3>3 DEF Versions
    <2>8. Covered(clock, Settled \cup seeds)
        BY <2>7 DEF Covered
    <2>9. Covered(clock, Settled \cup run.seen)'
        <3> HIDE DEF seeds
        <3>1. QED  BY <2>1, <2>3, <2>8 DEF Covered, Versions, CanCommit, Settled
    <2>10. Covered(watermark, Settled)'
        BY <2>1, <2>3, <2>5 DEF Covered, Versions, CanCommit, Settled
    <2>11. QED  BY <2>1, <2>3, <2>4, <2>9, <2>10 DEF WatermarkInv, Seeding
<1>4. QED  BY <1>1, <1>2, <1>3

\* The last steps of a run, and its failure.
LEMMA EndingWatermark ==
    ASSUME TypeInv, TypeInv', WatermarkInv,
           \/ AbortRun \/ CaptureCheckpoint \/ ListForEnrichment \/ AdvanceWatermark
           \/ \E m \in run.plan : Enrich(m)
    PROVE  WatermarkInv'
<1>0. /\ run \in RunRecord /\ clock \in Nat /\ watermark \in Nat
      /\ client \in Operation \cup {None} /\ rows \in Table /\ run.copies \in Table
    BY DEF TypeInv, TypeOK, RunRecord
<1> USE DEF RunOnly, history
<1>1. CASE AbortRun
    <2>1. /\ UNCHANGED <<rows, watermark, clock, client, examined, excused>>
          /\ run'.pc = "idle" /\ run'.copies = NoRows
        BY <1>1 DEF AbortRun, Idle
    <2>2. \A m \in Ids : \A r \in Versions(m)' : r \in Versions(m) \/ r = None
        BY <2>1 DEF Versions, CanCommit, NoRows
    <2>3. Stems(Settled')
        BY <2>2 DEF Stems, Live
    <2>4. QED  BY <2>1, <2>3, WatermarkFrame DEF Settled, Seeding
<1>2. CASE CaptureCheckpoint
    <2>1. UNCHANGED <<rows, watermark, clock, client, examined, excused>>
        BY <1>2 DEF CaptureCheckpoint
    <2>2. run.pc = "capturing"
          /\ run' = [run EXCEPT !.pc = "enumerating", !.snap = NoRows, !.before = NoRows]
        BY <1>2 DEF CaptureCheckpoint
    <2>3. /\ run'.pc = "enumerating" /\ run'.since = run.since
          /\ run'.seen = run.seen /\ run'.copies = run.copies
        BY <1>0, <2>2 DEF RunRecord
    <2>4. Stems(Settled')
        BY <2>1, <2>3 DEF Stems, Versions, CanCommit
    <2>5. run'.copies = NoRows
        BY <2>2, <2>3 DEF WatermarkInv
    <2>6. QED  BY <2>1, <2>2, <2>3, <2>4, <2>5, WatermarkFrame DEF Settled, Seeding
<1>3. CASE ListForEnrichment
    <2> DEFINE copies == [m \in Ids |-> IF m \in Current THEN rows[m] ELSE None]
               plan   == {m \in Current : rows[m].alias # rows[m].text}
    <2>1. /\ UNCHANGED <<rows, watermark, clock, client, examined, excused>>
          /\ run.pc = "enumerating"
          /\ run' = [run EXCEPT !.pc = "enriching", !.copies = copies, !.plan = plan]
        BY <1>3 DEF ListForEnrichment
    <2>2. \A m \in Ids : copies[m] = None \/ copies[m] = rows[m]
        OBVIOUS
    <2> HIDE DEF copies, plan
    <2>3. /\ run'.pc = "enriching" /\ run'.since = run.since
          /\ run'.seen = run.seen /\ run'.copies = copies
        BY <1>0, <2>1 DEF RunRecord
    <2>4. \A m \in Ids : \A r \in Versions(m)' : r \in Versions(m) \/ r = None
        BY <2>1, <2>2, <2>3 DEF Versions, CanCommit
    <2>5. Stems(Settled')
        BY <2>4 DEF Stems, Live
    <2>6. QED  BY <2>1, <2>3, <2>5, WatermarkFrame DEF Settled, Seeding
<1>4. CASE AdvanceWatermark
    <2>1. /\ UNCHANGED <<rows, clock, client, excused>> /\ run.pc = "enriching"
          /\ watermark' \in {clock, watermark} /\ examined' = examined \cup run.seen
          /\ run'.pc = "idle" /\ run'.copies = NoRows
        BY <1>4 DEF AdvanceWatermark, NextWatermark, Idle
    <2>2. \A m \in Ids : \A r \in Versions(m)' : r \in Versions(m) \/ r = None
        BY <2>1 DEF Versions, CanCommit, NoRows
    <2>3. Covered(clock, Settled \cup run.seen) /\ Covered(watermark, Settled)
          /\ watermark <= clock
        BY <2>1 DEF WatermarkInv, Seeding
    <2>4. Settled' = Settled \cup run.seen
        BY <2>1 DEF Settled
    <2>5. Covered(watermark, Settled)'
        BY <2>1, <2>2, <2>3, <2>4 DEF Covered, Live
    <2>6. watermark' <= clock'
        BY <1>0, <2>1, <2>3
    <2>7. QED  BY <2>1, <2>5, <2>6 DEF WatermarkInv, Seeding
<1>5. ASSUME NEW m \in run.plan, Enrich(m)
      PROVE  WatermarkInv'
    <2>1. /\ UNCHANGED <<watermark, clock, client, examined, excused>>
          /\ run.pc = "enriching" /\ m \in Ids
        BY <1>0, <1>5 DEF Enrich, RunRecord
    <2>2. run.copies[m] \in Row
        BY <1>0, <1>5, <2>1, TableUpdates DEF TypeInv, CopiesInv
    <2>3. run' = [run EXCEPT !.plan = run.plan \ {m}, !.copies = [run.copies EXCEPT ![m] = None]]
        BY <1>0, <1>5 DEF Enrich, RunRecord
    <2>4. /\ run'.pc = "enriching" /\ run'.since = run.since /\ run'.seen = run.seen
          /\ run'.copies = [run.copies EXCEPT ![m] = None]
        BY <1>0, <2>1, <2>3 DEF RunRecord
    <2> DEFINE row == [run.copies[m] EXCEPT !.alias = run.copies[m].text]
    <2>5. \/ rows' = rows
          \/ rows[m] # None /\ rows' = [rows EXCEPT ![m] = row]
        BY <1>5 DEF Enrich
    <2>6. /\ row.created = run.copies[m].created /\ row.by = run.copies[m].by
          /\ row.archived = run.copies[m].archived /\ row.valid = run.copies[m].valid
        BY <2>2 DEF Row
    <2> HIDE DEF row
    <2>7. \A n \in Ids : rows'[n] = rows[n] \/ (n = m /\ rows'[n] = row /\ rows[n] # None)
        BY <1>0, <2>5 DEF Table
    <2>8. CanCommit' => CanCommit
        BY <1>0, <2>1, <2>7 DEF CanCommit, Operation
    <2>9. \A n \in Ids : run'.copies[n] = run.copies[n] \/ run'.copies[n] = None
        BY <1>0, <2>4 DEF Table
    <2>10. \A n \in Ids : \A r \in Versions(n)' :
              r \in Versions(n) \/ r = None \/ (n = m /\ r = row)
        BY <2>1, <2>7, <2>8, <2>9 DEF Versions
    <2>11. Live(row) => /\ run.copies[m] \in Versions(m) /\ Live(run.copies[m])
                        /\ run.copies[m].created = row.created
        BY <2>2, <2>6 DEF Live, Versions
    <2>12. Stems(Settled')
        BY <2>10, <2>11 DEF Stems, Live
    <2>13. QED  BY <2>1, <2>4, <2>12, WatermarkFrame DEF Settled, Seeding
<1>6. QED  BY <1>1, <1>2, <1>3, <1>4, <1>5

\* A rollback brings back only what it excuses.
LEMMA RollbackWatermark ==
    ASSUME TypeInv, TypeInv', WatermarkInv, RollbackStep
    PROVE  WatermarkInv'
<1>0. rows \in Table /\ client \in Operation \cup {None} /\ undo \in Rollback \cup {None}
    BY DEF TypeInv, TypeOK
<1>1. ASSUME UNCHANGED <<rows, run, watermark, clock, client, examined, excused>>
      PROVE  WatermarkInv'
    <2>1. Stems(Settled')
        BY <1>1 DEF Stems, Versions, CanCommit
    <2>2. UpdateIsOfRow => UpdateIsOfRow'
        BY <1>1 DEF UpdateIsOfRow, CanCommit, Settled
    <2>3. SnapshotLists => SnapshotLists'
        BY <1>1 DEF SnapshotLists, Current, Listed, Present, Settled
    <2>4. QED  BY <1>1, <2>1, <2>2, <2>3, WatermarkFrame DEF WatermarkInv, Settled
<1>2. CASE \E i \in DOMAIN checkpoints : LoadCheckpoint(i)
    BY <1>1, <1>2 DEF LoadCheckpoint, UndoOnly
<1>3. CASE MarkRolledBack
    BY <1>1, <1>3 DEF MarkRolledBack, UndoOnly
<1>4. CASE RollbackDies
    BY <1>1, <1>4 DEF RollbackDies, UndoOnly
<1>5. ASSUME undo # None, NEW m \in undo.left, UndoEntry(m)
      PROVE  WatermarkInv'
    <2>1. UNCHANGED <<run, watermark, clock, client, examined>> /\ m \in Ids
        BY <1>0, <1>5 DEF UndoEntry, UndoOnly, Rollback
    <2>2. \/ rows' = [rows EXCEPT ![m] = None] /\ excused' = excused
          \/ /\ rows[m] # None /\ excused' = excused \cup {m}
             /\ rows' = [rows EXCEPT ![m] = undo.entry.modified[m]]
          \/ rows' = rows /\ excused' = excused
        BY <1>5 DEF UndoEntry
    <2>3. \A n \in Ids : \/ rows'[n] = rows[n]
                         \/ rows'[n] = None
                         \/ n \in Settled' /\ rows[n] # None
        BY <1>0, <2>2 DEF Table, Settled
    <2>4. Settled \subseteq Settled'
        BY <2>1, <2>2 DEF Settled
    <2>5. CanCommit' => CanCommit
        BY <1>0, <2>1, <2>3 DEF CanCommit, Operation
    <2>6. \A n \in Ids : \A r \in Versions(n)' : r \in Versions(n) \/ r = None \/ n \in Settled'
        BY <2>1, <2>3, <2>5 DEF Versions
    <2>7. Stems(Settled')
        BY <2>6 DEF Stems, Live
    <2>8. UpdateIsOfRow => UpdateIsOfRow'
        <3>1. CASE CanCommit'
            <4>1. client \in Operation /\ client.id \in Ids
                BY <1>0, <2>1, <3>1 DEF CanCommit, Operation
            <4>2. client.op = "update" => rows'[client.id] # None
                BY <2>1, <3>1, <4>1 DEF CanCommit, Operation
            <4>3. QED  BY <2>1, <2>3, <2>4, <2>5, <3>1, <4>1, <4>2 DEF UpdateIsOfRow
        <3>2. QED  BY <3>1 DEF UpdateIsOfRow
    <2>9. SnapshotLists => SnapshotLists'
        BY <2>1, <2>3, <2>4 DEF SnapshotLists, Current, Listed, Present
    <2>10. QED  BY <2>1, <2>4, <2>7, <2>8, <2>9, WatermarkFrame DEF WatermarkInv
<1>6. QED  BY <1>2, <1>3, <1>4, <1>5 DEF RollbackStep

LEMMA NextWatermarkInv ==
    ASSUME TypeInv, TypeInv', SurvivorInv, WatermarkInv, [Next]_vars
    PROVE  WatermarkInv'
<1>1. CASE ClientStep
    BY <1>1, ClientWatermark
<1>2. CASE RollbackStep
    BY <1>2, RollbackWatermark
<1>3. CASE RunStep
    <2>1. CASE \/ ListCurrent \/ JudgePairs \/ PlanArchive
               \/ \E c \in run.clusters : JudgingFails(c) \/ Decide(c)
        <3>1. RunWorks /\ RowsWorked
            BY <2>1, LookingRun DEF RowsWorked
        <3>2. QED  BY <3>1, WorksWatermark
    <2>2. CASE \/ WriteMerged
               \/ \E c \in run.clusters : Dedup(c)
               \/ \E m \in run.plan : MarkSuperseded(m) \/ Retire(m) \/ Archive(m)
        BY <2>2, WritingRun, WorksWatermark
    <2>3. CASE StartRun \/ TakeSnapshot \/ FindClusters
        BY <2>3, SeedingWatermark
    <2>4. CASE \/ AbortRun \/ CaptureCheckpoint \/ ListForEnrichment \/ AdvanceWatermark
               \/ \E m \in run.plan : Enrich(m)
        BY <2>4, EndingWatermark
    <2>5. QED  BY <1>3, <2>1, <2>2, <2>3, <2>4 DEF RunStep
<1>4. CASE UNCHANGED vars
    <2>1. UNCHANGED <<rows, run, watermark, clock, client, examined, excused>>
        BY <1>4 DEF vars, history
    <2>2. Stems(Settled')
        BY <2>1 DEF Stems, Versions, CanCommit
    <2>3. UpdateIsOfRow => UpdateIsOfRow'
        BY <2>1 DEF UpdateIsOfRow, CanCommit, Settled
    <2>4. SnapshotLists => SnapshotLists'
        BY <2>1 DEF SnapshotLists, Current, Listed, Present, Settled
    <2>5. QED  BY <2>1, <2>2, <2>3, <2>4, WatermarkFrame DEF WatermarkInv, Settled
<1>5. QED  BY <1>1, <1>2, <1>3, <1>4 DEF Next

\* The incremental watermark hides no fact: whatever clients write, update,
\* delete and bring back while runs start, fail and advance it, a listed fact
\* older than the watermark seeded a run that succeeded, or was in flight when a
\* run began, or was brought back from the archive or by a rollback.
THEOREM WatermarkHidesNone == Spec => []MissedOnlyInFlight
<1>1. TypeInv /\ SurvivorInv /\ WatermarkInv /\ [Next]_vars
         => TypeInv' /\ SurvivorInv' /\ WatermarkInv'
    <2> SUFFICES ASSUME TypeInv, SurvivorInv, WatermarkInv, [Next]_vars
                 PROVE  TypeInv' /\ SurvivorInv' /\ WatermarkInv'
        OBVIOUS
    <2>1. TypeInv'
        BY NextTyped
    <2>2. QED  BY <2>1, NextSurvivor, NextWatermarkInv
<1>2. WatermarkInv => MissedOnlyInFlight
    <2> SUFFICES ASSUME WatermarkInv, NEW m \in Current, rows[m].created < watermark
                 PROVE  m \in examined \cup excused
        BY DEF MissedOnlyInFlight
    <2>1. m \in Ids /\ rows[m] \in Versions(m) /\ Live(rows[m])
        BY DEF Current, Listed, Present, Versions, Live
    <2>2. QED  BY <2>1 DEF WatermarkInv, Covered, Settled
<1>3. QED  BY <1>1, <1>2, InitTyped, InitSurvivor, InitWatermark, PTL DEF Spec
-----------------------------------------------------------------------------
(* The rollback.  A checkpoint lists every memory the run touched, so that *)
(* what it does not list is as before the run, unless others changed it;   *)
(* and an entry that is undone puts the row of before back.                *)

\* The entries a rollback may apply: the retained checkpoints' and its own.
Held == {checkpoints[i] : i \in DOMAIN checkpoints}
        \cup (IF undo = None THEN {} ELSE {undo.entry})

\* A run that has a snapshot and no checkpoint yet.
Uncaptured == Judged \cup {"clustering"}

EntryInv(e) ==
    /\ e.run \in 1..clock
    /\ run.pc \in Uncaptured \cup {"listing"} => e.run # clock
    /\ \A m \in Ids : /\ e.modified[m] # None => e.modified[m] = e.before[m]
                      /\ m \in e.created => e.before[m] = None
    /\ \A m \in Ids \ outside[e.run] :
          m \notin Entries(e) => Core(rows[m]) = Core(e.before[m])

OneEntryPerRun == \A e, f \in Held : e.run = f.run => Entries(e) = Entries(f)

UndoRestores ==
    undo # None =>
        /\ undo.left \subseteq Entries(undo.entry)
        /\ \A m \in Ids \ outside[undo.entry.run] :
              m \notin undo.left => Core(rows[m]) = Core(undo.entry.before[m])

\* The run compares with the true table of before, and deletes nothing.
SnapshotHolds ==
    run.pc \in Uncaptured =>
        /\ run.snap = run.before
        /\ \A m \in Ids \ outside[clock] : run.before[m] # None => rows[m] # None

RestoreInv ==
    /\ clock <= MaxRuns /\ (run.pc # "idle" => clock >= 1)
    /\ \A e \in Held : EntryInv(e)
    /\ OneEntryPerRun
    /\ UndoRestores
    /\ SnapshotHolds

\* This step leaves alone, or blames on others, every memory outside `ids` that
\* only run r has touched.
LeavesTo(r, ids) ==
    \A m \in Ids \ outside'[r] :
        m \notin ids => m \notin outside[r] /\ Core(rows'[m]) = Core(rows[m])

\* Whoever changes the table is an outsider to every other run.
LEMMA OthersBlamed ==
    ASSUME outside \in [1..MaxRuns -> SUBSET Ids], NEW who, Attribute(who),
           NEW r \in 1..MaxRuns, r # who
    PROVE  \A ids : LeavesTo(r, ids)
BY DEF Attribute, LeavesTo

\* Aliases apart, there is a row or there is none.
LEMMA CoreOfRow ==
    ASSUME NEW a \in Row \cup {None}, NEW b \in Row \cup {None}, Core(a) = Core(b)
    PROVE  (a = None) = (b = None)
<1>1. \A r \in Row : [r EXCEPT !.alias = None] \in Row
    BY DEF Row
<1>2. \A r \in Row : [r EXCEPT !.alias = None] # None
    BY <1>1
<1>3. QED  BY <1>2 DEF Core

LEMMA HeldType ==
    ASSUME TypeInv
    PROVE  \A e \in Held : e \in Checkpoint
<1>1. checkpoints \in Seq(Checkpoint) /\ undo \in Rollback \cup {None}
    BY DEF TypeInv, TypeOK
<1>2. \A i \in DOMAIN checkpoints : checkpoints[i] \in Checkpoint
    BY <1>1, ElementOfSeq, LenProperties
<1>3. QED  BY <1>1, <1>2 DEF Held, Rollback

SameRecord(e, f) ==
    e.run = f.run /\ e.modified = f.modified /\ e.created = f.created /\ e.before = f.before

\* An entry survives a step that leaves to it what it does not list.
LEMMA EntryKeeps ==
    ASSUME NEW e, NEW f, SameRecord(e, f), EntryInv(f), UNCHANGED clock,
           run'.pc \in Uncaptured \cup {"listing"} => run.pc \in Uncaptured \cup {"listing"},
           LeavesTo(f.run, Entries(f))
    PROVE  EntryInv(e)' /\ Entries(e) = Entries(f)
<1>1. Entries(e) = Entries(f)
    BY DEF Entries, Present, SameRecord
<1>2. \A m \in Ids \ outside'[e.run] :
         m \notin Entries(e) => Core(rows'[m]) = Core(e.before[m])
    BY <1>1 DEF EntryInv, LeavesTo, SameRecord
<1>3. /\ e.run \in 1..clock'
      /\ run'.pc \in Uncaptured \cup {"listing"} => e.run # clock'
    BY DEF EntryInv, SameRecord
<1>4. \A m \in Ids : /\ e.modified[m] # None => e.modified[m] = e.before[m]
                     /\ m \in e.created => e.before[m] = None
    BY DEF EntryInv, SameRecord
<1>5. EntryInv(e)'
    BY <1>2, <1>3, <1>4 DEF EntryInv
<1>6. QED  BY <1>1, <1>5

\* What a step within a run, or outside of one, has to show.
LEMMA RestoreFrame ==
    ASSUME TypeInv, RestoreInv, UNCHANGED clock,
           run'.pc # "idle" => run.pc # "idle",
           run'.pc \in Uncaptured \cup {"listing"} => run.pc \in Uncaptured \cup {"listing"},
           \A e \in Held' : \E f \in Held : SameRecord(e, f),
           \A f \in Held : LeavesTo(f.run, Entries(f)),
           UndoRestores', SnapshotHolds'
    PROVE  RestoreInv'
<1>1. ASSUME NEW e \in Held'
      PROVE  \E f \in Held : e.run = f.run /\ EntryInv(e)' /\ Entries(e) = Entries(f)
    <2>1. PICK f \in Held : SameRecord(e, f)
        OBVIOUS
    <2>2. EntryInv(f) /\ LeavesTo(f.run, Entries(f))
        BY DEF RestoreInv
    <2>3. EntryInv(e)' /\ Entries(e) = Entries(f)
        BY <2>1, <2>2, EntryKeeps
    <2>4. QED  BY <2>1, <2>3 DEF SameRecord
<1>2. \A e \in Held' : EntryInv(e)'
    BY <1>1
<1>3. OneEntryPerRun'
    <2>1. \A e, f \in Held' : e.run = f.run => Entries(e) = Entries(f)
        BY <1>1 DEF RestoreInv, OneEntryPerRun
    <2>2. QED  BY <2>1 DEF OneEntryPerRun
<1>4. QED  BY <1>2, <1>3 DEF RestoreInv

\* A step that is nobody's entry, whoever's it is: only run `who` may have
\* touched what it changes, and no rollback or checkpoint is of that run.
LEMMA RestoreKeeps ==
    ASSUME TypeInv, TypeInv', RestoreInv, UNCHANGED <<clock, checkpoints>>,
           run'.pc # "idle" => run.pc # "idle",
           run'.pc \in Uncaptured \cup {"listing"} => run.pc \in Uncaptured \cup {"listing"},
           undo' = undo \/ undo' = None,
           \A f \in Held : \A ids : LeavesTo(f.run, ids),
           run'.pc \in Uncaptured =>
               /\ run.pc \in Uncaptured /\ run'.snap = run.snap /\ run'.before = run.before
               /\ \/ LeavesTo(clock, {})
                  \/ /\ outside'[clock] = outside[clock]
                     /\ \A m \in Ids : rows[m] # None => rows'[m] # None
    PROVE  RestoreInv'
<1>1. \A e \in Held' : e \in Held /\ SameRecord(e, e)
    BY DEF Held, SameRecord
<1>2. UndoRestores'
    <2> SUFFICES ASSUME undo' # None
                 PROVE  UndoRestores'
        BY DEF UndoRestores
    <2>1. undo' = undo /\ undo.entry \in Held
        BY DEF Held
    <2>2. LeavesTo(undo.entry.run, undo.left)
        BY <2>1
    <2>3. UndoRestores /\ undo # None
        BY <2>1 DEF RestoreInv
    <2>4. \A m \in Ids \ outside'[undo.entry.run] :
              m \notin undo.left => Core(rows'[m]) = Core(undo.entry.before[m])
        BY <2>2, <2>3 DEF LeavesTo, UndoRestores
    <2>5. QED  BY <2>1, <2>3, <2>4 DEF UndoRestores
<1>3. SnapshotHolds'
    <2> SUFFICES ASSUME run'.pc \in Uncaptured
                 PROVE  SnapshotHolds'
        BY DEF SnapshotHolds
    <2>1. /\ run.snap = run.before
          /\ \A m \in Ids \ outside[clock] : run.before[m] # None => rows[m] # None
        BY DEF RestoreInv, SnapshotHolds
    <2>2. \A m \in Ids : rows[m] \in Row \cup {None} /\ rows'[m] \in Row \cup {None}
        BY DEF TypeInv, TypeOK, Table
    <2>3. \A m \in Ids \ outside'[clock] : run.before[m] # None => rows'[m] # None
        <3>1. CASE LeavesTo(clock, {})
            <4>1. \A m \in Ids \ outside'[clock] :
                     m \notin outside[clock] /\ Core(rows'[m]) = Core(rows[m])
                BY <3>1 DEF LeavesTo
            <4>2. QED  BY <2>1, <2>2, <4>1, CoreOfRow
        <3>2. CASE /\ outside'[clock] = outside[clock]
                   /\ \A m \in Ids : rows[m] # None => rows'[m] # None
            BY <2>1, <3>2
        <3>3. QED  BY <3>1, <3>2
    <2>4. QED  BY <2>1, <2>3 DEF SnapshotHolds
<1>4. QED  BY <1>1, <1>2, <1>3, RestoreFrame

LEMMA InitRestore == Init => RestoreInv
<1> SUFFICES ASSUME Init PROVE RestoreInv
    OBVIOUS
<1>1. run.pc = "idle" /\ clock = 0 /\ undo = None /\ Held = {}
    BY DEF Init, Idle, Held
<1>2. QED  BY <1>1 DEF RestoreInv, OneEntryPerRun, UndoRestores, SnapshotHolds,
                      Uncaptured, Judged

\* Nothing is left alone less than nothing.
LEMMA StillLeaves ==
    ASSUME UNCHANGED <<rows, outside>>
    PROVE  \A r, ids : LeavesTo(r, ids)
BY DEF LeavesTo

\* A change of the table that is blamed on nobody's run.
LEMMA BlamedOnNobody ==
    ASSUME TypeInv, RestoreInv, Attribute(0)
    PROVE  /\ \A f \in Held : \A ids : LeavesTo(f.run, ids)
           /\ run.pc # "idle" => LeavesTo(clock, {})
<1>1. outside \in [1..MaxRuns -> SUBSET Ids] /\ clock \in Nat
    BY DEF TypeInv, TypeOK
<1>2. \A r \in 1..MaxRuns : r # 0
    OBVIOUS
<1>3. \A r \in 1..MaxRuns : \A ids : LeavesTo(r, ids)
    BY <1>1, <1>2, OthersBlamed
<1>4. \A f \in Held : f.run \in 1..MaxRuns
    BY <1>1 DEF RestoreInv, EntryInv
<1>5. run.pc # "idle" => clock \in 1..MaxRuns
    BY <1>1 DEF RestoreInv
<1>6. QED  BY <1>3, <1>4, <1>5

LEMMA NotIdle == run.pc \in Uncaptured \cup {"listing"} => run.pc # "idle"
BY DEF Uncaptured, Judged

LEMMA ClientRestore ==
    ASSUME TypeInv, TypeInv', RestoreInv, ClientStep
    PROVE  RestoreInv'
<1>1. UNCHANGED <<clock, checkpoints, run, undo>>
    BY DEF ClientStep, DraftWrite, ReadForUpdate, DeleteMemory, CommitClient, ClientDies
<1>2. UNCHANGED <<rows, outside>> \/ Attribute(0)
    BY DEF ClientStep, DraftWrite, ReadForUpdate, DeleteMemory, CommitClient, ClientDies, history
<1>3. /\ \A f \in Held : \A ids : LeavesTo(f.run, ids)
      /\ run.pc # "idle" => LeavesTo(clock, {})
    BY <1>2, StillLeaves, BlamedOnNobody
<1>4. run'.pc \in Uncaptured => run.pc # "idle"
    BY <1>1, NotIdle
<1>5. QED  BY <1>1, <1>3, <1>4, RestoreKeeps

\* The working steps of a run: it deletes nothing, and no entry is its own yet.
LEMMA WorksRestore ==
    ASSUME TypeInv, TypeInv', RestoreInv, RunWorks, RowsWorked,
           UNCHANGED <<rows, outside>> \/ Attribute(clock)
    PROVE  RestoreInv'
<1>1. /\ UNCHANGED <<clock, checkpoints, undo>>
      /\ run.pc \in Judged /\ run'.pc \in Judged
      /\ run'.snap = run.snap /\ run'.before = run.before
    BY DEF RunWorks, RunRemembers
<1>2. run.pc \in Uncaptured /\ run'.pc \in Uncaptured /\ run.pc # "idle"
    BY <1>1 DEF Uncaptured, Judged
<1>3. outside \in [1..MaxRuns -> SUBSET Ids] /\ clock \in Nat
    BY DEF TypeInv, TypeOK
<1>4. clock \in 1..MaxRuns /\ \A f \in Held : f.run \in 1..MaxRuns /\ f.run # clock
    BY <1>2, <1>3 DEF RestoreInv, EntryInv
<1>5. \A f \in Held : \A ids : LeavesTo(f.run, ids)
    BY <1>3, <1>4, StillLeaves, OthersBlamed
<1>6. outside'[clock] = outside[clock]
    BY <1>3, <1>4 DEF Attribute
<1>7. \A m \in Ids : rows[m] # None => rows'[m] # None
    BY DEF RowsWorked, Fresh
<1>8. QED  BY <1>1, <1>2, <1>5, <1>6, <1>7, RestoreKeeps

\* A run begins, takes its snapshot, looks for clusters, fails or ends.
LEMMA EdgesRestore ==
    ASSUME TypeInv, TypeInv', RestoreInv,
           \/ StartRun \/ TakeSnapshot \/ FindClusters \/ AbortRun
           \/ ListForEnrichment \/ AdvanceWatermark
           \/ \E m \in run.plan : Enrich(m)
    PROVE  RestoreInv'
<1>0. /\ run \in RunRecord /\ clock \in Nat
      /\ outside \in [1..MaxRuns -> SUBSET Ids]
    BY DEF TypeInv, TypeOK
<1> USE DEF RunOnly, history
<1>1. CASE StartRun
    <2>1. /\ UNCHANGED <<rows, checkpoints, undo, outside>>
          /\ run.pc = "idle" /\ clock' = clock + 1 /\ clock < MaxRuns
        BY <1>1 DEF StartRun
    <2>2. run'.pc = "listing"
        BY <1>1 DEF StartRun, Idle
    <2>3. Held' = Held
        BY <2>1 DEF Held
    <2>4. ASSUME NEW e \in Held PROVE EntryInv(e)'
        <3>1. EntryInv(e) /\ e.run # clock + 1 /\ e.run \in 1..(clock + 1)
            BY <1>0 DEF RestoreInv, EntryInv
        <3>2. QED  BY <2>1, <3>1 DEF EntryInv
    <2>5. OneEntryPerRun'
        BY <2>3 DEF RestoreInv, OneEntryPerRun
    <2>6. UndoRestores'
        BY <2>1 DEF RestoreInv, UndoRestores
    <2>7. SnapshotHolds'
        BY <2>2 DEF SnapshotHolds, Uncaptured, Judged
    <2>8. clock' <= MaxRuns /\ clock' >= 1
        BY <1>0, <2>1
    <2>9. QED  BY <2>3, <2>4, <2>5, <2>6, <2>7, <2>8 DEF RestoreInv
<1>2. CASE TakeSnapshot
    <2>1. /\ UNCHANGED <<rows, checkpoints, undo, clock>> /\ run.pc = "listing"
          /\ outside' = [outside EXCEPT ![clock] = {}]
        BY <1>2 DEF TakeSnapshot
    <2>2. run'.pc = "clustering" /\ run'.snap = rows /\ run'.before = rows
        BY <1>0, <1>2 DEF TakeSnapshot, FullEnumeration, RunRecord
    <2>3. Held' = Held /\ \A e \in Held : SameRecord(e, e)
        BY <2>1 DEF Held, SameRecord
    <2>4. \A f \in Held : f.run # clock
        BY <2>1 DEF RestoreInv, EntryInv
    <2>5. \A r \in 1..MaxRuns : r # clock => outside'[r] = outside[r]
        BY <1>0, <2>1
    <2>6. \A f \in Held : f.run \in 1..MaxRuns
        BY <1>0 DEF RestoreInv, EntryInv
    <2>7. \A f \in Held : LeavesTo(f.run, Entries(f))
        BY <2>1, <2>4, <2>5, <2>6 DEF LeavesTo
    <2>8. UndoRestores'
        <3>1. undo # None => undo.entry \in Held
            BY DEF Held
        <3>2. undo # None => outside'[undo.entry.run] = outside[undo.entry.run]
            BY <2>4, <2>5, <2>6, <3>1
        <3>3. QED  BY <2>1, <3>2 DEF RestoreInv, UndoRestores
    <2>9. SnapshotHolds'
        BY <2>1, <2>2 DEF SnapshotHolds
    <2>10. QED  BY <2>1, <2>2, <2>3, <2>7, <2>8, <2>9, RestoreFrame
<1>3. CASE FindClusters
    <2>1. UNCHANGED <<rows, checkpoints, undo, clock, outside>> /\ run.pc = "clustering"
        BY <1>3 DEF FindClusters
    <2>2. PICK cs, seeds :
             run' = [run EXCEPT !.pc = "judging", !.clusters = cs, !.seen = seeds]
        BY <1>3 DEF FindClusters
    <2>3. run'.snap = run.snap /\ run'.before = run.before
        BY <1>0, <2>2 DEF RunRecord
    <2>4. run.pc \in Uncaptured /\ run.pc # "idle"
        BY <2>1 DEF Uncaptured
    <2>5. QED  BY <2>1, <2>3, <2>4, StillLeaves, RestoreKeeps
<1>4. CASE AbortRun \/ AdvanceWatermark
    <2>1. UNCHANGED <<rows, checkpoints, undo, clock, outside>> /\ run'.pc = "idle"
        BY <1>4 DEF AbortRun, AdvanceWatermark, Idle
    <2>2. run'.pc \notin Uncaptured \cup {"listing"}
        BY <2>1 DEF Uncaptured, Judged
    <2>3. QED  BY <2>1, <2>2, StillLeaves, RestoreKeeps
<1>5. CASE ListForEnrichment
    <2>1. UNCHANGED <<rows, checkpoints, undo, clock, outside>> /\ run.pc = "enumerating"
        BY <1>5 DEF ListForEnrichment
    <2>2. PICK copies, plan :
             run' = [run EXCEPT !.pc = "enriching", !.copies = copies, !.plan = plan]
        BY <1>5 DEF ListForEnrichment
    <2>3. run'.pc = "enriching"
        BY <1>0, <2>2 DEF RunRecord
    <2>4. run'.pc \notin Uncaptured \cup {"listing"}
        BY <2>3 DEF Uncaptured, Judged
    <2>5. QED  BY <2>1, <2>3, <2>4, StillLeaves, RestoreKeeps
<1>6. ASSUME NEW m \in run.plan, Enrich(m)
      PROVE  RestoreInv'
    <2>1. /\ UNCHANGED <<checkpoints, undo, clock>> /\ run.pc = "enriching" /\ Attribute(0)
          /\ run' = [run EXCEPT !.plan = @ \ {m}, !.copies[m] = None]
        BY <1>6 DEF Enrich
    <2>2. run'.pc = "enriching"
        BY <1>0, <2>1 DEF RunRecord
    <2>3. run'.pc \notin Uncaptured \cup {"listing"}
        BY <2>2 DEF Uncaptured, Judged
    <2>4. QED  BY <2>1, <2>2, <2>3, BlamedOnNobody, RestoreKeeps
<1>7. QED  BY <1>1, <1>2, <1>3, <1>4, <1>5, <1>6

\* What the checkpoint lists and what it leaves out.
LEMMA CaptureRestore ==
    ASSUME TypeInv, TypeInv', RestoreInv, CaptureCheckpoint
    PROVE  RestoreInv'
<1>0. /\ run \in RunRecord /\ rows \in Table /\ clock \in Nat
      /\ run.snap \in Table /\ checkpoints \in Seq(Checkpoint)
    BY DEF TypeInv, TypeOK, RunRecord
<1>e. PICK entry : entry = [run      |-> clock,
                            modified |-> Modified(run.snap, FullEnumeration),
                            created  |-> Created(run.snap, FullEnumeration),
                            active   |-> TRUE,
                            before   |-> run.before]
    OBVIOUS
<1>1. /\ UNCHANGED <<rows, clock, undo, outside>> /\ run.pc = "capturing"
      /\ checkpoints' = checkpoints \/ checkpoints' = Newest(Append(checkpoints, entry))
    BY <1>e, Zenon DEF CaptureCheckpoint, create_checkpoint, history
<1>2. run' = [run EXCEPT !.pc = "enumerating", !.snap = NoRows, !.before = NoRows]
    BY DEF CaptureCheckpoint
<1>3. entry \in Checkpoint
    BY <1>0, <1>e, DiffType DEF FullEnumeration, RunRecord, Checkpoint
<1>4. /\ clock \in 1..MaxRuns /\ run.snap = run.before
      /\ \A m \in Ids \ outside[clock] : run.before[m] # None => rows[m] # None
    BY <1>0, <1>1 DEF RestoreInv, SnapshotHolds, Uncaptured, Judged
<1>5. \A m \in Ids : /\ entry.modified[m] # None => entry.modified[m] = entry.before[m]
                     /\ m \in entry.created => entry.before[m] = None
    BY <1>0, <1>e, <1>4 DEF Modified, Created, Present, FullEnumeration
<1>6. \A m \in Ids \ outside[clock] : m \notin Entries(entry) => rows[m] = entry.before[m]
    <2> SUFFICES ASSUME NEW m \in Ids \ outside[clock], m \notin Entries(entry)
                 PROVE  rows[m] = run.before[m]
        BY <1>e
    <2>1. entry.modified[m] = None /\ m \notin entry.created
        BY DEF Entries, Present
    <2>2. CASE run.before[m] = None
        BY <1>4, <1>e, <2>1, <2>2 DEF Created, Present, FullEnumeration
    <2>3. CASE run.before[m] # None
        <3>1. rows[m] # None
            BY <1>4, <2>3
        <3>2. Modified(run.snap, rows)[m] = None
            BY <1>e, <2>1 DEF FullEnumeration
        <3>3. QED  BY <1>4, <2>3, <3>1, <3>2 DEF Modified
    <2>4. QED  BY <2>2, <2>3
<1>7. entry.run = clock
    BY <1>e
<1>8. run'.pc = "enumerating"
    BY <1>0, <1>2 DEF RunRecord
<1>9. run'.pc \notin Uncaptured \cup {"listing"} /\ run'.pc # "idle"
    BY <1>8 DEF Uncaptured, Judged
<1>10. Append(checkpoints, entry) \in Seq(Checkpoint)
    BY <1>0, <1>3, AppendProperties
<1>11. \A i \in DOMAIN Append(checkpoints, entry) :
          Append(checkpoints, entry)[i] \in Held \cup {entry}
    BY <1>0, <1>3, AppendProperties, LenProperties DEF Held
<1>12. \A e \in Held' : e \in Held \/ e = entry
    <2>1. CASE checkpoints' = checkpoints
        BY <1>1, <2>1 DEF Held
    <2>2. CASE checkpoints' = Newest(Append(checkpoints, entry))
        <3>1. \A i \in DOMAIN checkpoints' : checkpoints'[i] \in Held \cup {entry}
            BY <1>10, <1>11, <2>2, NewestKeeps
        <3>2. QED  BY <1>1, <3>1 DEF Held
    <2>3. QED  BY <1>1, <2>1, <2>2
<1>13. \A e \in Held : EntryInv(e)' /\ e.run # clock
    <2>1. \A e \in Held : EntryInv(e) /\ e.run # clock
        BY <1>1 DEF RestoreInv, EntryInv, Uncaptured, Judged
    <2>2. QED  BY <1>1, <1>9, <2>1 DEF EntryInv
<1>14. EntryInv(entry)'
    BY <1>1, <1>4, <1>5, <1>6, <1>7, <1>9 DEF EntryInv
<1>15. \A e \in Held' : EntryInv(e)'
    BY <1>12, <1>13, <1>14
<1>16. OneEntryPerRun'
    <2>1. \A e, f \in Held' : e.run = f.run => Entries(e) = Entries(f)
        BY <1>7, <1>12, <1>13 DEF RestoreInv, OneEntryPerRun
    <2>2. QED  BY <2>1 DEF OneEntryPerRun
<1>17. UndoRestores' /\ SnapshotHolds'
    BY <1>1, <1>9 DEF RestoreInv, UndoRestores, SnapshotHolds
<1>18. QED  BY <1>0, <1>1, <1>4, <1>15, <1>16, <1>17 DEF RestoreInv

\* A rollback loads what its checkpoint lists and puts it back, entry by entry.
LEMMA RollbackRestore ==
    ASSUME TypeInv, TypeInv', RestoreInv, RollbackStep
    PROVE  RestoreInv'
<1>0. /\ rows \in Table /\ undo \in Rollback \cup {None} /\ clock \in Nat
      /\ outside \in [1..MaxRuns -> SUBSET Ids]
    BY DEF TypeInv, TypeOK
<1>a. \A f \in Held : f.run \in 1..MaxRuns
    BY <1>0 DEF RestoreInv, EntryInv
<1>b. run.pc \in Uncaptured => clock \in 1..MaxRuns /\ \A f \in Held : f.run # clock
    BY <1>0, NotIdle DEF RestoreInv, EntryInv
<1> USE DEF UndoOnly
<1>1. ASSUME NEW i \in DOMAIN checkpoints, LoadCheckpoint(i)
      PROVE  RestoreInv'
    <2>1. /\ UNCHANGED <<rows, run, clock, checkpoints, outside>>
          /\ undo'.entry = checkpoints[i] /\ undo'.left = Entries(checkpoints[i])
        BY <1>1 DEF LoadCheckpoint
    <2>2. \A e \in Held' : e \in Held /\ SameRecord(e, e)
        BY <2>1 DEF Held, SameRecord
    <2>3. EntryInv(checkpoints[i])
        BY DEF RestoreInv, Held
    <2>4. UndoRestores'
        BY <2>1, <2>3 DEF UndoRestores, EntryInv
    <2>5. SnapshotHolds'
        BY <2>1 DEF RestoreInv, SnapshotHolds
    <2>6. QED  BY <2>1, <2>2, <2>4, <2>5, StillLeaves, RestoreFrame
<1>2. ASSUME undo # None, NEW m \in undo.left, UndoEntry(m)
      PROVE  RestoreInv'
    <2>1. /\ UNCHANGED <<run, clock, checkpoints>> /\ Attribute(undo.entry.run)
          /\ undo' = None \/ undo' = [undo EXCEPT !.left = undo.left \ {m}]
        BY <1>2 DEF UndoEntry
    <2>2. /\ undo \in Rollback /\ m \in Ids /\ undo.entry \in Held
          /\ undo.entry.modified \in Table
        BY <1>0, <1>2 DEF Held, Rollback, Checkpoint
    <2>3. undo' # None => undo'.entry = undo.entry /\ undo'.left = undo.left \ {m}
        BY <2>1, <2>2 DEF Rollback
    <2>4. /\ EntryInv(undo.entry) /\ undo.entry.run \in 1..MaxRuns
          /\ undo.left \subseteq Entries(undo.entry)
        BY <1>a, <1>2, <2>2 DEF RestoreInv, UndoRestores
    <2>5. \A n \in Ids : n # m => rows'[n] = rows[n]
        BY <1>0, <1>2 DEF UndoEntry, Table
    <2>6. undo' # None => rows'[m] = undo.entry.before[m]
        <3>1. CASE m \in undo.entry.created
            BY <1>0, <1>2, <2>2, <2>4, <3>1 DEF UndoEntry, Table, EntryInv
        <3>2. CASE m \notin undo.entry.created
            <4>1. undo.entry.modified[m] # None
                BY <1>2, <2>4, <3>2 DEF Entries, Present
            <4>2. undo' # None => rows'[m] = undo.entry.modified[m]
                BY <1>0, <1>2, <2>2, <3>2 DEF UndoEntry, Table
            <4>3. QED  BY <2>2, <2>4, <4>1, <4>2 DEF EntryInv
        <3>3. QED  BY <3>1, <3>2
    <2>7. outside'[undo.entry.run] = outside[undo.entry.run]
        BY <2>1, <2>4 DEF Attribute
    <2>8. \A e \in Held' : e \in Held /\ SameRecord(e, e)
        BY <1>2, <2>1, <2>3 DEF Held, SameRecord
    <2>9. ASSUME NEW f \in Held
          PROVE  LeavesTo(f.run, Entries(f))
        <3>1. CASE f.run # undo.entry.run
            BY <1>0, <1>a, <2>1, <3>1, OthersBlamed
        <3>2. CASE f.run = undo.entry.run
            <4>1. Entries(f) = Entries(undo.entry)
                BY <2>2, <3>2 DEF RestoreInv, OneEntryPerRun
            <4>2. m \in Entries(f)
                BY <1>2, <2>4, <4>1
            <4>3. QED  BY <2>5, <2>7, <3>2, <4>2 DEF LeavesTo
        <3>3. QED  BY <3>1, <3>2
    <2>10. UndoRestores'
        <3> SUFFICES ASSUME undo' # None PROVE UndoRestores'
            BY DEF UndoRestores
        <3>1. \A n \in Ids \ outside[undo.entry.run] :
                 n \notin undo.left \ {m} => Core(rows'[n]) = Core(undo.entry.before[n])
            BY <1>2, <2>5, <2>6 DEF RestoreInv, UndoRestores
        <3>2. undo'.entry = undo.entry /\ undo'.left = undo.left \ {m}
            BY <2>3
        <3>3. undo'.left \subseteq Entries(undo'.entry)
            BY <2>4, <3>2
        <3>4. \A n \in Ids \ outside'[undo'.entry.run] :
                 n \notin undo'.left => Core(rows'[n]) = Core(undo'.entry.before[n])
            BY <2>7, <3>1, <3>2
        <3>5. QED  BY <3>3, <3>4 DEF UndoRestores
    <2>11. SnapshotHolds'
        <3> SUFFICES ASSUME run.pc \in Uncaptured PROVE SnapshotHolds'
            BY <2>1 DEF SnapshotHolds
        <3>1. LeavesTo(clock, {})
            BY <1>0, <1>b, <2>1, <2>2, OthersBlamed
        <3>2. \A n \in Ids : rows[n] \in Row \cup {None} /\ rows'[n] \in Row \cup {None}
            BY DEF TypeInv, TypeOK, Table
        <3>3. \A n \in Ids \ outside'[clock] :
                 n \notin outside[clock] /\ Core(rows'[n]) = Core(rows[n])
            BY <3>1 DEF LeavesTo
        <3>4. \A n \in Ids \ outside'[clock] : run.before[n] # None => rows'[n] # None
            BY <3>2, <3>3, CoreOfRow DEF RestoreInv, SnapshotHolds
        <3>5. QED  BY <2>1, <3>4 DEF RestoreInv, SnapshotHolds
    <2>12. QED  BY <2>1, <2>8, <2>9, <2>10, <2>11, RestoreFrame
<1>3. CASE MarkRolledBack
    <2>1. UNCHANGED <<rows, run, clock, outside>> /\ undo' = None
        BY <1>3 DEF MarkRolledBack
    <2>2. \A c \in Checkpoint : SameRecord([c EXCEPT !.active = FALSE], c)
        BY DEF Checkpoint, SameRecord
    <2>3. /\ DOMAIN checkpoints' = DOMAIN checkpoints
          /\ \A i \in DOMAIN checkpoints :
                checkpoints'[i] \in {checkpoints[i], [checkpoints[i] EXCEPT !.active = FALSE]}
        BY <1>3 DEF MarkRolledBack
    <2>4. \A i \in DOMAIN checkpoints : checkpoints[i] \in Held /\ checkpoints[i] \in Checkpoint
        BY HeldType DEF Held
    <2>5. \A i \in DOMAIN checkpoints : SameRecord(checkpoints'[i], checkpoints[i])
        BY <2>2, <2>3, <2>4 DEF SameRecord
    <2>6. \A e \in Held' : \E f \in Held : SameRecord(e, f)
        BY <2>1, <2>3, <2>4, <2>5 DEF Held
    <2>7. UndoRestores' /\ SnapshotHolds'
        BY <2>1 DEF RestoreInv, UndoRestores, SnapshotHolds
    <2>8. QED  BY <2>1, <2>6, <2>7, StillLeaves, RestoreFrame
<1>4. CASE RollbackDies
    <2>1. UNCHANGED <<rows, run, clock, checkpoints, outside>> /\ undo' = None
        BY <1>4 DEF RollbackDies
    <2>2. \A e \in Held' : e \in Held /\ SameRecord(e, e)
        BY <2>1 DEF Held, SameRecord
    <2>3. UndoRestores' /\ SnapshotHolds'
        BY <2>1 DEF RestoreInv, UndoRestores, SnapshotHolds
    <2>4. QED  BY <2>1, <2>2, <2>3, StillLeaves, RestoreFrame
<1>5. QED  BY <1>1, <1>2, <1>3, <1>4 DEF RollbackStep

LEMMA NextRestore ==
    ASSUME TypeInv, TypeInv', SurvivorInv, RestoreInv, [Next]_vars
    PROVE  RestoreInv'
<1>1. CASE ClientStep
    BY <1>1, ClientRestore
<1>2. CASE RollbackStep
    BY <1>2, RollbackRestore
<1>3. CASE RunStep
    <2>1. CASE \/ ListCurrent \/ JudgePairs \/ PlanArchive
               \/ \E c \in run.clusters : JudgingFails(c) \/ Decide(c)
        <3>1. RunWorks /\ RowsWorked /\ UNCHANGED <<rows, outside>>
            BY <2>1, LookingRun DEF RowsWorked
        <3>2. QED  BY <3>1, WorksRestore
    <2>2. CASE \/ WriteMerged
               \/ \E c \in run.clusters : Dedup(c)
               \/ \E m \in run.plan : MarkSuperseded(m) \/ Retire(m) \/ Archive(m)
        BY <2>2, WritingRun, WorksRestore
    <2>3. CASE CaptureCheckpoint
        BY <2>3, CaptureRestore
    <2>4. CASE \/ StartRun \/ TakeSnapshot \/ FindClusters \/ AbortRun
               \/ ListForEnrichment \/ AdvanceWatermark
               \/ \E m \in run.plan : Enrich(m)
        BY <2>4, EdgesRestore
    <2>5. QED  BY <1>3, <2>1, <2>2, <2>3, <2>4 DEF RunStep
<1>4. CASE UNCHANGED vars
    <2>1. UNCHANGED <<rows, run, clock, checkpoints, undo, outside>>
        BY <1>4 DEF vars, history
    <2>2. QED  BY <2>1, StillLeaves, RestoreKeeps, NotIdle
<1>5. QED  BY <1>1, <1>2, <1>3, <1>4 DEF Next

\* A rollback that has applied its last entry leaves every memory that only its
\* run touched as it was before the run, aliases apart, whatever other runs,
\* clients, failed rollbacks and prunings came between.
THEOREM RollbackGivesBack == Spec => []RollbackRestores
<1>1. TypeInv /\ SurvivorInv /\ RestoreInv /\ [Next]_vars
         => TypeInv' /\ SurvivorInv' /\ RestoreInv'
    <2> SUFFICES ASSUME TypeInv, SurvivorInv, RestoreInv, [Next]_vars
                 PROVE  TypeInv' /\ SurvivorInv' /\ RestoreInv'
        OBVIOUS
    <2>1. TypeInv'
        BY NextTyped
    <2>2. QED  BY <2>1, NextSurvivor, NextRestore
<1>2. RestoreInv => RollbackRestores
    BY DEF RestoreInv, UndoRestores, RollbackRestores
<1>3. QED  BY <1>1, <1>2, InitTyped, InitSurvivor, InitRestore, PTL DEF Spec
-----------------------------------------------------------------------------
(* One fact stays in force.  The clusters a run has yet to judge are in    *)
(* force and lie apart from what it is superseding or retiring; and the    *)
(* plan to retire always spares one.                                       *)

\* Nobody else touched the boundary since the snapshot, and no stranger was
\* named as a winner.
Undisturbed == InForce(run.before) # {} /\ outside[clock] = {} /\ ~run.stray

\* The members of the cluster at hand.
AtHand == CASE run.pc = "merging" -> run.group
            [] run.pc \in {"superseding", "retiring"} -> run.plan
            [] OTHER -> {}

InForceKept ==
    /\ InForce(rows) # {}
    /\ \A c \in run.clusters : c \subseteq InForce(rows) /\ c \cap AtHand = {}
    /\ \A c, d \in run.clusters : c = d \/ c \cap d = {}
    /\ run.pc = "superseding" => run.into \in InForce(rows) \ run.plan
    /\ run.pc \in {"retiring", "resolving"} => InForce(rows) \ run.plan # {}
    /\ run.pc = "pairing" => run.group \subseteq InForce(rows) /\ run.group # {}

Clusterless == {"idle", "listing", "clustering", "pairing", "resolving",
                "cooling", "archiving", "capturing"}

ForceInv ==
    /\ run.pc \notin Uncaptured => run.before = NoRows
    /\ run.pc \in Clusterless => run.clusters = {}
    /\ run.pc \in Uncaptured /\ Undisturbed => InForceKept

LEMMA InForceIs ==
    \A t : \A m : m \in InForce(t) <=> m \in Ids /\ t[m] # None /\ t[m].by = None /\ t[m].valid
BY DEF InForce, Present

\* Aliases apart, a row is in force or it is not.
LEMMA CoreInForce ==
    ASSUME NEW a \in Row \cup {None}, NEW b \in Row \cup {None}, Core(a) = Core(b),
           a # None, a.by = None, a.valid
    PROVE  b # None /\ b.by = None /\ b.valid
<1>1. b # None
    BY CoreOfRow
<1>2. [a EXCEPT !.alias = None] = [b EXCEPT !.alias = None]
    BY <1>1 DEF Core
<1>3. \A r \in Row : [r EXCEPT !.alias = None].by = r.by /\ [r EXCEPT !.alias = None].valid = r.valid
    BY DEF Row
<1>4. [a EXCEPT !.alias = None].by = a.by /\ [a EXCEPT !.alias = None].valid = a.valid
    BY <1>3
<1>5. [b EXCEPT !.alias = None].by = b.by /\ [b EXCEPT !.alias = None].valid = b.valid
    BY <1>1, <1>3
<1>6. QED  BY <1>1, <1>2, <1>4, <1>5

\* Changing one row leaves every other one in force, or out of it.
LEMMA OthersInForce ==
    ASSUME rows \in Table, NEW m \in Ids, NEW row,
           rows' = rows \/ rows' = [rows EXCEPT ![m] = row]
    PROVE  /\ InForce(rows) \ {m} \subseteq InForce(rows')
           /\ InForce(rows') \ {m} \subseteq InForce(rows)
BY InForceIs DEF Table

\* Others' steps disturb the boundary, or leave it as it is.
LEMMA OthersForce ==
    ASSUME TypeInv, TypeInv', RestoreInv, ForceInv, UNCHANGED <<run, clock>>,
           run.pc \in Uncaptured => LeavesTo(clock, {})
    PROVE  ForceInv'
<1>1. ASSUME run.pc \in Uncaptured, Undisturbed'
      PROVE  InForceKept'
    <2>1. /\ outside'[clock] = {} /\ ~run.stray /\ InForce(run.before) # {}
          /\ LeavesTo(clock, {})
        BY <1>1 DEF Undisturbed
    <2>2. \A m \in Ids : m \notin outside[clock] /\ Core(rows'[m]) = Core(rows[m])
        BY <2>1 DEF LeavesTo
    <2>3. outside[clock] = {}
        <3>1. clock \in 1..MaxRuns
            BY <1>1, NotIdle DEF RestoreInv, TypeInv, TypeOK
        <3>2. outside[clock] \subseteq Ids
            BY <3>1 DEF TypeInv, TypeOK
        <3>3. QED  BY <2>2, <3>2
    <2>4. \A m \in Ids : rows[m] \in Row \cup {None} /\ rows'[m] \in Row \cup {None}
        BY DEF TypeInv, TypeOK, Table
    <2>5. InForce(rows') = InForce(rows)
        <3>1. \A m \in InForce(rows) : m \in InForce(rows')
            BY <2>2, <2>4, InForceIs, CoreInForce
        <3>2. \A m \in InForce(rows') : m \in InForce(rows)
            BY <2>2, <2>4, InForceIs, CoreInForce
        <3>3. QED  BY <3>1, <3>2
    <2>6. InForceKept
        BY <1>1, <2>1, <2>3 DEF ForceInv, Undisturbed
    <2>7. QED  BY <2>5, <2>6 DEF InForceKept, AtHand
<1>2. QED  BY <1>1 DEF ForceInv

\* What a run's own step has to show.
LEMMA ForceFrame ==
    ASSUME ForceInv, UNCHANGED clock,
           run.pc \in Uncaptured, run'.pc \in Uncaptured, run'.before = run.before,
           ~run'.stray => ~run.stray,
           outside'[clock] = outside[clock],
           run'.pc \in Clusterless => run'.clusters = {},
           ~run'.stray /\ InForceKept => InForceKept'
    PROVE  ForceInv'
<1>1. Undisturbed' => Undisturbed /\ ~run'.stray
    BY DEF Undisturbed
<1>2. QED  BY <1>1 DEF ForceInv

\* Whom a run's own step blames.
LEMMA OwnStep ==
    ASSUME TypeInv, RestoreInv, run.pc \in Uncaptured,
           Attribute(clock) \/ UNCHANGED outside
    PROVE  outside'[clock] = outside[clock]
<1>1. clock \in 1..MaxRuns
    BY NotIdle DEF RestoreInv, TypeInv, TypeOK
<1>2. QED  BY <1>1 DEF Attribute

\* The ways out of a cluster and on to the next phase: the clusters left.
LEMMA WaysLead ==
    ASSUME run \in RunRecord
    PROVE  /\ \A c : /\ Done(c).clusters = run.clusters \ {c} /\ Done(c).stray = run.stray
                     /\ Skipped(c).clusters = run.clusters \ {c} /\ Skipped(c).stray = run.stray
           /\ BackToJudging.clusters = run.clusters /\ BackToJudging.stray = run.stray
           /\ SkipMerge.clusters = run.clusters /\ SkipMerge.stray = run.stray
           /\ ToPhase4.clusters = run.clusters /\ ToPhase4.stray = run.stray
<1>1. \A c : /\ Done(c).clusters = run.clusters \ {c} /\ Done(c).stray = run.stray
             /\ Skipped(c).clusters = run.clusters \ {c} /\ Skipped(c).stray = run.stray
    BY DEF Done, Skipped, RunRecord
<1>2. BackToJudging.clusters = run.clusters /\ BackToJudging.stray = run.stray
    BY DEF BackToJudging, RunRecord
<1>3. BackToJudging \in RunRecord
    BY RunUpdates
<1>4. /\ SkipMerge.clusters = BackToJudging.clusters /\ SkipMerge.stray = BackToJudging.stray
    BY <1>3 DEF SkipMerge, RunRecord
<1>5. ToPhase4.clusters = run.clusters /\ ToPhase4.stray = run.stray
    BY DEF ToPhase4, RunRecord
<1>6. QED  BY <1>1, <1>2, <1>4, <1>5

\* Where the clusters that are left are in force, and nothing is at hand.
LEMMA KeptAtRest ==
    ASSUME run'.pc \in {"judging", "cooling", "archiving", "capturing", "clustering"},
           InForce(rows') # {},
           \A c \in run'.clusters : c \subseteq InForce(rows'),
           \A c, d \in run'.clusters : c = d \/ c \cap d = {}
    PROVE  InForceKept'
<1>1. AtHand' = {}
    BY DEF AtHand
<1>2. QED  BY <1>1 DEF InForceKept

LEMMA AtHandIs ==
    /\ run.pc = "merging" => AtHand = run.group
    /\ run.pc \in {"superseding", "retiring"} => AtHand = run.plan
BY DEF AtHand

\* The steps that only look: the clusters come from the listed rows, and the plan
\* to retire spares the winner, or one of the group.
LEMMA LookingForce ==
    ASSUME TypeInv, RestoreInv, ForceInv,
           \/ ListCurrent \/ JudgePairs \/ PlanArchive
           \/ \E c \in run.clusters : JudgingFails(c) \/ Decide(c)
    PROVE  ForceInv'
<1>0. /\ run \in RunRecord
      /\ run.pc \in Uncaptured /\ run'.pc \in Uncaptured /\ run'.before = run.before
      /\ UNCHANGED <<rows, clock, outside>>
    BY LookingRun DEF TypeInv, TypeOK, RunWorks, RunRemembers, Uncaptured
<1>1. outside'[clock] = outside[clock] /\ InForce(rows') = InForce(rows)
    BY <1>0
<1>2. Current \subseteq InForce(rows)
    BY DEF Current, Listed, InForce, Present
<1> USE DEF Clusterless
<1>3. CASE ListCurrent
    <2>1. run.pc = "judging" /\ run.clusters = {}
        BY <1>3 DEF ListCurrent
    <2>2. CASE run' = ToPhase4
        <3>1. run'.pc = "cooling" /\ run'.clusters = {} /\ run'.stray = run.stray
            BY <1>0, <2>1, <2>2, RunUpdates, WaysLead
        <3>2. InForceKept => InForceKept'
            BY <1>1, <3>1, KeptAtRest DEF InForceKept
        <3>3. QED  BY <1>0, <1>1, <3>1, <3>2, ForceFrame
    <2>3. CASE /\ run' = [run EXCEPT !.pc = "pairing", !.group = Current]
               /\ ~ Cardinality(Current) < 2
        <3>1. /\ run'.pc = "pairing" /\ run'.clusters = {} /\ run'.stray = run.stray
              /\ run'.group = Current
            BY <1>0, <2>1, <2>3 DEF RunRecord
        <3>2. Current # {}
            BY <2>3, FS_EmptySet
        <3>3. InForceKept => InForceKept'
            BY <1>1, <1>2, <3>1, <3>2 DEF InForceKept
        <3>4. QED  BY <1>0, <1>1, <3>1, <3>3, ForceFrame
    <2>4. QED  BY <1>3, <2>2, <2>3 DEF ListCurrent
<1>4. CASE JudgePairs
    <2>1. PICK verdict \in SUBSET run.group :
             LET stale == ResolveStaleIds(verdict, run.group)
             IN  run' = IF stale = {} THEN ToPhase4
                        ELSE [run EXCEPT !.pc = "resolving", !.plan = stale]
        BY <1>4 DEF JudgePairs
    <2>2. run.pc = "pairing" /\ run.clusters = {}
        BY <1>4 DEF JudgePairs, ForceInv
    <2>3. CASE run' = ToPhase4
        <3>1. run'.pc = "cooling" /\ run'.clusters = {} /\ run'.stray = run.stray
            BY <1>0, <2>2, <2>3, RunUpdates, WaysLead
        <3>2. InForceKept => InForceKept'
            BY <1>1, <3>1, KeptAtRest DEF InForceKept
        <3>3. QED  BY <1>0, <1>1, <3>1, <3>2, ForceFrame
    <2>4. ASSUME NEW stale, stale = ResolveStaleIds(verdict, run.group),
                 run' = [run EXCEPT !.pc = "resolving", !.plan = stale]
          PROVE  ForceInv'
        <3>1. /\ run'.pc = "resolving" /\ run'.clusters = {} /\ run'.stray = run.stray
              /\ run'.plan = stale
            BY <1>0, <2>2, <2>4 DEF RunRecord
        <3>2. stale \subseteq run.group /\ (run.group # {} => stale # run.group)
            BY <2>4 DEF ResolveStaleIds
        <3>3. InForceKept => InForceKept'
            BY <1>1, <2>2, <3>1, <3>2 DEF InForceKept
        <3>4. QED  BY <1>0, <1>1, <3>1, <3>3, ForceFrame
    <2>5. QED  BY <2>1, <2>3, <2>4
<1>5. CASE PlanArchive
    <2>1. PICK cold :
             run' = [run EXCEPT !.pc = IF cold = {} THEN "capturing" ELSE "archiving",
                                !.plan = cold]
        BY <1>5 DEF PlanArchive
    <2>2. run.clusters = {}
        BY <1>5 DEF PlanArchive, ForceInv
    <2>3. /\ run'.pc \in {"archiving", "capturing"} /\ run'.clusters = {}
          /\ run'.stray = run.stray
        BY <1>0, <2>1, <2>2 DEF RunRecord
    <2>4. InForceKept => InForceKept'
        BY <1>1, <2>3, KeptAtRest DEF InForceKept
    <2>5. QED  BY <1>0, <1>1, <2>3, <2>4, ForceFrame
<1>6. ASSUME NEW c \in run.clusters, run.pc = "judging", run' = Done(c) \/ run' = Skipped(c)
      PROVE  ForceInv'
    <2>1. /\ run'.pc = "judging" /\ run'.clusters = run.clusters \ {c}
          /\ run'.stray = run.stray
        BY <1>0, <1>6, RunUpdates, WaysLead
    <2>2. InForceKept => InForceKept'
        BY <1>1, <2>1, KeptAtRest DEF InForceKept
    <2>3. QED  BY <1>0, <1>1, <2>1, <2>2, ForceFrame
<1>7. ASSUME NEW c \in run.clusters, JudgingFails(c)
      PROVE  ForceInv'
    BY <1>6, <1>7 DEF JudgingFails
<1>8. ASSUME NEW c \in run.clusters, Decide(c)
      PROVE  ForceInv'
    <2>1. /\ run.pc = "judging" /\ Done(c) \in RunRecord
          /\ Done(c).clusters = run.clusters \ {c} /\ Done(c).stray = run.stray
        BY <1>0, <1>8, RunUpdates, WaysLead DEF Decide
    <2>2. \/ run' = Done(c) \/ run' = Skipped(c)
          \/ run' = [Done(c) EXCEPT !.pc = "merging", !.group = c]
          \/ \E winner \in Ids :
               run' = [Done(c) EXCEPT !.pc = "retiring", !.plan = c \ {winner},
                                      !.stray = @ \/ winner \notin c]
        BY <1>8, Zenon DEF Decide
    <2>3. CASE run' = Done(c) \/ run' = Skipped(c)
        BY <1>6, <2>1, <2>3
    <2>4. CASE run' = [Done(c) EXCEPT !.pc = "merging", !.group = c]
        <3>1. /\ run'.pc = "merging" /\ run'.group = c
              /\ run'.clusters = run.clusters \ {c} /\ run'.stray = run.stray
            BY <2>1, <2>4 DEF RunRecord
        <3>2. AtHand' = c
            BY <3>1 DEF AtHand
        <3>3. InForceKept => InForceKept'
            BY <1>1, <1>8, <3>1, <3>2 DEF InForceKept
        <3>4. QED  BY <1>0, <1>1, <3>1, <3>3, ForceFrame
    <2>5. ASSUME NEW winner \in Ids,
                 run' = [Done(c) EXCEPT !.pc = "retiring", !.plan = c \ {winner},
                                        !.stray = @ \/ winner \notin c]
          PROVE  ForceInv'
        <3>1. PICK b : b = (Done(c).stray \/ winner \notin c)
            OBVIOUS
        <3>2. PICK p : p = c \ {winner}
            OBVIOUS
        <3>3. run' = [Done(c) EXCEPT !.pc = "retiring", !.plan = p, !.stray = b]
            BY <2>5, <3>1, <3>2
        <3>4. /\ run'.pc = "retiring" /\ run'.plan = p /\ run'.stray = b
              /\ run'.clusters = run.clusters \ {c}
            BY <2>1, <3>3 DEF RunRecord
        <3>5. ~run'.stray => ~run.stray /\ winner \in c
            BY <2>1, <3>1, <3>4
        <3>6. AtHand' = p
            BY <3>4 DEF AtHand
        <3>7. ~run'.stray /\ InForceKept => InForceKept'
            <4> SUFFICES ASSUME winner \in c, InForceKept PROVE InForceKept'
                BY <3>5
            <4>1. c \subseteq InForce(rows) /\ \A d \in run.clusters \ {c} : d \cap p = {}
                BY <1>8, <3>2 DEF InForceKept
            <4>2. winner \in InForce(rows) \ p
                BY <3>2, <4>1
            <4>3. QED  BY <1>1, <3>4, <3>6, <4>1, <4>2 DEF InForceKept
        <3>8. QED  BY <1>0, <1>1, <3>4, <3>5, <3>7, ForceFrame
    <2>6. QED  BY <2>2, <2>3, <2>4, <2>5
<1>9. QED  BY <1>3, <1>4, <1>5, <1>7, <1>8

\* The steps that write: a dedup keeps its survivor, a merge puts its new row in
\* force before it supersedes, a retirement spares what the plan spared.
LEMMA WritingForce ==
    ASSUME TypeInv, SurvivorInv, RestoreInv, ForceInv,
           \/ WriteMerged
           \/ \E c \in run.clusters : Dedup(c)
           \/ \E m \in run.plan : MarkSuperseded(m) \/ Retire(m) \/ Archive(m)
    PROVE  ForceInv'
<1>0. /\ run \in RunRecord /\ rows \in Table /\ run.plan \in SUBSET Ids
      /\ run.pc \in Uncaptured /\ run'.pc \in Uncaptured /\ run'.before = run.before
      /\ UNCHANGED clock /\ Attribute(clock)
    BY WritingRun DEF TypeInv, TypeOK, RunWorks, RunRemembers, Uncaptured, RunRecord
<1>1. outside'[clock] = outside[clock]
    BY <1>0, OwnStep
<1>2. ASSUME rows' = rows, run.pc # "resolving", run.pc # "archiving",
             \/ run' = BackToJudging \/ run' = SkipMerge
             \/ run.pc = "judging" /\ \E c : run' = Skipped(c)
      PROVE  ForceInv'
    <2>1. /\ run'.pc = "judging" /\ run'.clusters \subseteq run.clusters
          /\ run'.stray = run.stray
        BY <1>0, <1>2, RunUpdates, RunKeeps, WaysLead
    <2>2. InForceKept => InForceKept'
        BY <1>2, <2>1, KeptAtRest DEF InForceKept
    <2>3. run'.pc \notin Clusterless
        BY <2>1 DEF Clusterless
    <2>4. QED  BY <1>0, <1>1, <2>1, <2>2, <2>3, ForceFrame
<1>3. CASE WriteMerged
    <2>1. run.pc = "merging" /\ AtHand = run.group
        BY <1>3, AtHandIs DEF WriteMerged
    <2>2. \/ rows' = rows /\ run' = SkipMerge
          \/ /\ run.group \subseteq Listed(rows)
             /\ \E n \in Fresh :
                  /\ rows' = [rows EXCEPT ![n] = NewRow(FALSE)]
                  /\ run' = [run EXCEPT !.pc = "superseding", !.into = n, !.plan = run.group]
        BY <1>3, Zenon DEF WriteMerged
    <2>3. ASSUME NEW n \in Fresh, run.group \subseteq Listed(rows),
                 rows' = [rows EXCEPT ![n] = NewRow(FALSE)],
                 run' = [run EXCEPT !.pc = "superseding", !.into = n, !.plan = run.group]
          PROVE  ForceInv'
        <3>1. /\ run'.pc = "superseding" /\ run'.into = n /\ run'.plan = run.group
              /\ run'.clusters = run.clusters /\ run'.stray = run.stray
            BY <1>0, <2>3 DEF RunRecord
        <3>2. n \in Ids /\ rows[n] = None /\ n \notin InForce(rows) /\ n \notin run.group
            BY <2>3 DEF Fresh, InForce, Listed, Present
        <3> DEFINE row == NewRow(FALSE)
        <3>3. row # None /\ row.by = None /\ row.valid
            <4>1. NewRow(FALSE) \in Row
                BY NewRowType DEF TypeInv, TypeOK
            <4>2. QED  BY <4>1 DEF NewRow
        <3>4. rows' = [rows EXCEPT ![n] = row]
            BY <2>3
        <3> HIDE DEF row
        <3>5. n \in InForce(rows')
            <4>1. rows'[n] = row
                BY <1>0, <3>2, <3>4 DEF Table
            <4>2. QED  BY <3>2, <3>3, <4>1, InForceIs
        <3>6. InForce(rows) \subseteq InForce(rows')
            BY <1>0, <3>2, <3>4, OthersInForce
        <3>7. AtHand' = run.group
            BY <3>1 DEF AtHand
        <3>8. InForceKept => InForceKept'
            BY <2>1, <3>1, <3>2, <3>5, <3>6, <3>7 DEF InForceKept
        <3>9. run'.pc \notin Clusterless
            BY <3>1 DEF Clusterless
        <3>10. QED  BY <1>0, <1>1, <3>1, <3>8, <3>9, ForceFrame
    <2>4. QED  BY <1>2, <2>1, <2>2, <2>3
<1>4. ASSUME NEW c \in run.clusters, Dedup(c)
      PROVE  ForceInv'
    <2>1. run.pc = "judging"
        BY <1>4 DEF Dedup
    <2>2. \/ rows' = rows /\ run' = Skipped(c)
          \/ /\ c \subseteq Present(rows) /\ run' = Done(c)
             /\ \E t \in c :
                  rows' = [m \in Ids |-> IF m \in c \ {t} THEN [rows[m] EXCEPT !.by = t]
                                         ELSE rows[m]]
        BY <1>4, Zenon DEF Dedup
    <2>3. ASSUME NEW t \in c, run' = Done(c),
                 rows' = [m \in Ids |-> IF m \in c \ {t} THEN [rows[m] EXCEPT !.by = t]
                                        ELSE rows[m]]
          PROVE  ForceInv'
        <3>1. /\ run'.pc = "judging" /\ run'.clusters = run.clusters \ {c}
              /\ run'.stray = run.stray
            BY <1>0, <2>1, <2>3, RunUpdates, WaysLead
        <3>2. \A m \in Ids : m \notin c \ {t} => rows'[m] = rows[m]
            BY <2>3
        <3>3. InForce(rows) \ (c \ {t}) \subseteq InForce(rows')
            BY <3>2, InForceIs
        <3>4. ASSUME InForceKept PROVE InForceKept'
            <4>1. c \subseteq InForce(rows) /\ t \in InForce(rows')
                BY <3>3, <3>4 DEF InForceKept
            <4>2. \A d \in run'.clusters : d \subseteq InForce(rows')
                BY <3>1, <3>3, <3>4 DEF InForceKept
            <4>3. \A d, e \in run'.clusters : d = e \/ d \cap e = {}
                BY <3>1, <3>4 DEF InForceKept
            <4>4. QED  BY <3>1, <4>1, <4>2, <4>3, KeptAtRest
        <3>5. run'.pc \notin Clusterless
            BY <3>1 DEF Clusterless
        <3>6. QED  BY <1>0, <1>1, <3>1, <3>4, <3>5, ForceFrame
    <2>4. QED  BY <1>2, <2>1, <2>2, <2>3
<1>5. ASSUME NEW m \in run.plan, MarkSuperseded(m)
      PROVE  ForceInv'
    <2>1. run.pc = "superseding" /\ AtHand = run.plan /\ m \in Ids
        BY <1>0, <1>5, AtHandIs DEF MarkSuperseded
    <2>2. \/ rows' = rows /\ run' = SkipMerge
          \/ /\ rows' = [rows EXCEPT ![m] = [rows[m] EXCEPT !.by = run.into]]
             /\ run' = BackToJudging \/ run' = [run EXCEPT !.plan = run.plan \ {m}]
        BY <1>5 DEF MarkSuperseded
    <2>3. ASSUME rows' = [rows EXCEPT ![m] = [rows[m] EXCEPT !.by = run.into]],
                 run' = BackToJudging \/ run' = [run EXCEPT !.plan = run.plan \ {m}]
          PROVE  ForceInv'
        <3>1. InForce(rows) \ {m} \subseteq InForce(rows')
            <4> DEFINE row == [rows[m] EXCEPT !.by = run.into]
            <4>1. rows' = [rows EXCEPT ![m] = row]
                BY <2>3
            <4> HIDE DEF row
            <4>2. QED  BY <1>0, <2>1, <4>1, OthersInForce
        <3>2. ASSUME InForceKept
              PROVE  /\ run.into \in InForce(rows') /\ run.into \notin run.plan
                     /\ \A c \in run.clusters : c \subseteq InForce(rows') /\ c \cap run.plan = {}
                     /\ \A c, d \in run.clusters : c = d \/ c \cap d = {}
            BY <2>1, <3>1, <3>2 DEF InForceKept
        <3>3. CASE run' = BackToJudging
            <4>1. /\ run'.pc = "judging" /\ run'.clusters = run.clusters
                  /\ run'.stray = run.stray
                BY <1>0, <3>3, RunUpdates, WaysLead
            <4>2. InForceKept => InForceKept'
                BY <3>2, <4>1, KeptAtRest
            <4>3. run'.pc \notin Clusterless
                BY <4>1 DEF Clusterless
            <4>4. QED  BY <1>0, <1>1, <4>1, <4>2, <4>3, ForceFrame
        <3>4. CASE run' = [run EXCEPT !.plan = run.plan \ {m}]
            <4>1. /\ run'.pc = "superseding" /\ run'.clusters = run.clusters
                  /\ run'.stray = run.stray /\ run'.plan = run.plan \ {m}
                  /\ run'.into = run.into
                BY <1>0, <2>1, <3>4 DEF RunRecord
            <4>2. AtHand' = run.plan \ {m}
                BY <4>1 DEF AtHand
            <4>3. InForceKept => InForceKept'
                BY <3>2, <4>1, <4>2 DEF InForceKept
            <4>4. run'.pc \notin Clusterless
                BY <4>1 DEF Clusterless
            <4>5. QED  BY <1>0, <1>1, <4>1, <4>3, <4>4, ForceFrame
        <3>5. QED  BY <2>3, <3>3, <3>4
    <2>4. QED  BY <1>2, <2>1, <2>2, <2>3
<1>6. ASSUME NEW m \in run.plan, Retire(m)
      PROVE  ForceInv'
    <2>1. /\ run.pc \in {"retiring", "resolving"} /\ m \in Ids
          /\ run.pc = "retiring" => AtHand = run.plan
        BY <1>0, <1>6, AtHandIs DEF Retire
    <2>2. run.pc = "resolving" => run.clusters = {}
        BY DEF ForceInv, Clusterless
    <2>3. InForce(rows) \ {m} \subseteq InForce(rows')
        <3> DEFINE row == [rows[m] EXCEPT !.valid = FALSE]
        <3>1. rows' = rows \/ rows' = [rows EXCEPT ![m] = row]
            BY <1>6 DEF Retire
        <3> HIDE DEF row
        <3>2. QED  BY <1>0, <2>1, <3>1, OthersInForce
    <2>4. ASSUME InForceKept
          PROVE  /\ InForce(rows') \ (run.plan \ {m}) # {}
                 /\ \A c \in run.clusters : c \subseteq InForce(rows')
                                            /\ (run.pc = "retiring" => c \cap run.plan = {})
                 /\ \A c, d \in run.clusters : c = d \/ c \cap d = {}
        <3>1. PICK n : n \in InForce(rows) \ run.plan
            BY <2>1, <2>4 DEF InForceKept
        <3>2. n \in InForce(rows') \ (run.plan \ {m})
            BY <2>3, <3>1
        <3>3. CASE run.pc = "resolving"
            BY <2>2, <3>2, <3>3
        <3>4. CASE run.pc = "retiring"
            BY <2>1, <2>3, <2>4, <3>2, <3>4 DEF InForceKept
        <3>5. QED  BY <2>1, <3>3, <3>4
    <2>5. \/ run.plan # {m} /\ run' = [run EXCEPT !.plan = run.plan \ {m}]
          \/ run.pc = "retiring" /\ run' = BackToJudging
          \/ run.pc = "resolving" /\ run' = ToPhase4
        BY <2>1, <1>6 DEF Retire
    <2>6. CASE run' = [run EXCEPT !.plan = run.plan \ {m}]
        <3>1. /\ run'.pc = run.pc /\ run'.clusters = run.clusters
              /\ run'.stray = run.stray /\ run'.plan = run.plan \ {m}
            BY <1>0, <2>6 DEF RunRecord
        <3>2. AtHand' = IF run.pc = "retiring" THEN run.plan \ {m} ELSE {}
            BY <2>1, <3>1 DEF AtHand
        <3>3. ASSUME InForceKept PROVE InForceKept'
            <4>1. \A c \in run.clusters : c \cap AtHand' = {}
                BY <2>4, <3>2, <3>3
            <4>2. InForce(rows') # {} /\ InForce(rows') \ run'.plan # {}
                BY <2>4, <3>1, <3>3
            <4>3. QED  BY <2>1, <2>4, <3>1, <3>3, <4>1, <4>2 DEF InForceKept
        <3>4. run'.pc \in Clusterless => run'.clusters = {}
            BY <2>1, <2>2, <3>1 DEF Clusterless, ForceInv
        <3>5. QED  BY <1>0, <1>1, <3>1, <3>3, <3>4, ForceFrame
    <2>7. CASE \/ run.pc = "retiring" /\ run' = BackToJudging
               \/ run.pc = "resolving" /\ run' = ToPhase4
        <3>1. /\ run'.pc \in {"judging", "cooling"} /\ run'.clusters = run.clusters
              /\ run'.stray = run.stray /\ (run'.pc = "cooling" => run.pc = "resolving")
            BY <1>0, <2>7, RunUpdates, WaysLead
        <3>2. ASSUME InForceKept PROVE InForceKept'
            <4>1. InForce(rows') # {}
                BY <2>4, <3>2
            <4>2. QED  BY <2>4, <3>1, <3>2, <4>1, KeptAtRest
        <3>3. run'.pc \in Clusterless => run'.clusters = {}
            BY <2>2, <3>1 DEF Clusterless
        <3>4. QED  BY <1>0, <1>1, <3>1, <3>2, <3>3, ForceFrame
    <2>8. QED  BY <2>5, <2>6, <2>7
<1>7. ASSUME NEW m \in run.plan, Archive(m)
      PROVE  ForceInv'
    <2>1. run.pc = "archiving" /\ m \in Ids /\ run.clusters = {}
        BY <1>0, <1>7 DEF Archive, ForceInv, Clusterless
    <2>2. PICK pc \in {"capturing", "archiving"} :
             run' = [run EXCEPT !.pc = pc, !.plan = run.plan \ {m}]
        BY <1>0, <1>7, <2>1 DEF Archive, RunRecord
    <2>3. run'.pc = pc /\ run'.clusters = {} /\ run'.stray = run.stray
        BY <1>0, <2>1, <2>2 DEF RunRecord
    <2>4. \/ rows' = rows
          \/ rows[m] # None /\ rows' = [rows EXCEPT ![m] = [rows[m] EXCEPT !.archived = TRUE]]
        BY <1>7 DEF Archive
    <2>5. InForce(rows) \subseteq InForce(rows')
        <3> DEFINE row == [rows[m] EXCEPT !.archived = TRUE]
        <3>1. rows[m] # None => row # None /\ row.by = rows[m].by /\ row.valid = rows[m].valid
            <4>1. rows[m] # None => rows[m] \in Row
                BY <1>0, <2>1, TableUpdates
            <4>2. \A r \in Row : /\ [r EXCEPT !.archived = TRUE] \in Row
                                 /\ [r EXCEPT !.archived = TRUE].by = r.by
                                 /\ [r EXCEPT !.archived = TRUE].valid = r.valid
                BY DEF Row
            <4>3. QED  BY <4>1, <4>2
        <3>2. rows' = rows \/ (rows[m] # None /\ rows' = [rows EXCEPT ![m] = row])
            BY <2>4
        <3> HIDE DEF row
        <3>3. InForce(rows) \ {m} \subseteq InForce(rows')
            BY <1>0, <2>1, <3>2, OthersInForce
        <3>4. m \in InForce(rows) => m \in InForce(rows')
            BY <1>0, <3>1, <3>2, InForceIs DEF Table
        <3>5. QED  BY <3>3, <3>4
    <2>6. InForceKept => InForceKept'
        BY <2>3, <2>5, KeptAtRest DEF InForceKept
    <2>7. QED  BY <1>0, <1>1, <2>3, <2>6, ForceFrame
<1>8. QED  BY <1>3, <1>4, <1>5, <1>6, <1>7

\* The clusters a run finds are disjoint sets of facts in force.
LEMMA EdgesForce ==
    ASSUME TypeInv, RestoreInv, ForceInv,
           \/ StartRun \/ TakeSnapshot \/ FindClusters \/ AbortRun
           \/ CaptureCheckpoint \/ ListForEnrichment \/ AdvanceWatermark
           \/ \E m \in run.plan : Enrich(m)
    PROVE  ForceInv'
<1>0. run \in RunRecord
    BY DEF TypeInv, TypeOK
<1> USE DEF Clusterless, Uncaptured, Judged
<1>1. CASE StartRun \/ AbortRun \/ AdvanceWatermark
    <2>1. run'.pc \in {"idle", "listing"} /\ run'.before = NoRows /\ run'.clusters = {}
        <3>1. CASE StartRun
            BY <3>1 DEF StartRun, Idle
        <3>2. CASE AbortRun
            BY <3>2 DEF AbortRun, Idle
        <3>3. CASE AdvanceWatermark
            BY <3>3 DEF AdvanceWatermark, Idle
        <3>4. QED  BY <1>1, <3>1, <3>2, <3>3
    <2>2. QED  BY <2>1 DEF ForceInv
<1>2. CASE TakeSnapshot
    <2>1. /\ run.pc = "listing" /\ UNCHANGED rows
          /\ run'.pc = "clustering" /\ run'.before = rows /\ run'.clusters = run.clusters
        BY <1>0, <1>2 DEF TakeSnapshot, RunRecord
    <2>2. run'.clusters = {}
        BY <2>1 DEF ForceInv
    <2>3. Undisturbed' => InForce(rows') # {}
        BY <2>1 DEF Undisturbed
    <2>4. Undisturbed' => InForceKept'
        BY <2>1, <2>2, <2>3, KeptAtRest
    <2>5. QED  BY <2>1, <2>2, <2>4 DEF ForceInv
<1>3. CASE FindClusters
    <2>1. UNCHANGED <<rows, clock, outside>> /\ run.pc = "clustering"
        BY <1>3 DEF FindClusters, RunOnly, history
    <2>2. PICK seeds : \E cs \in Clusterings(seeds) :
             run' = [run EXCEPT !.pc = "judging", !.clusters = cs, !.seen = seeds]
        BY <1>3 DEF FindClusters
    <2>3. PICK cs \in Clusterings(seeds) :
             run' = [run EXCEPT !.pc = "judging", !.clusters = cs, !.seen = seeds]
        BY <2>2
    <2>4. /\ run'.pc = "judging" /\ run'.clusters = cs /\ run'.before = run.before
          /\ run'.stray = run.stray
        BY <1>0, <2>3 DEF RunRecord
    <2>5. \A c \in cs : c \subseteq InForce(rows')
        BY <2>1 DEF Clusterings, Current, Listed, InForce, Present
    <2>6. \A c, d \in cs : c = d \/ c \cap d = {}
        BY DEF Clusterings
    <2>7. InForceKept => InForceKept'
        BY <2>1, <2>4, <2>5, <2>6, KeptAtRest DEF InForceKept
    <2>8. QED  BY <2>1, <2>4, <2>7, ForceFrame
<1>4. CASE CaptureCheckpoint
    <2>1. run' = [run EXCEPT !.pc = "enumerating", !.snap = NoRows, !.before = NoRows]
        BY <1>4 DEF CaptureCheckpoint
    <2>2. run'.pc = "enumerating" /\ run'.before = NoRows
        BY <1>0, <2>1 DEF RunRecord
    <2>3. QED  BY <2>2 DEF ForceInv
<1>5. CASE ListForEnrichment
    <2>1. run.pc = "enumerating" /\ \E copies, plan :
             run' = [run EXCEPT !.pc = "enriching", !.copies = copies, !.plan = plan]
        BY <1>5 DEF ListForEnrichment
    <2>2. run'.pc = "enriching" /\ run'.before = run.before
        BY <1>0, <2>1 DEF RunRecord
    <2>3. QED  BY <2>1, <2>2 DEF ForceInv
<1>6. ASSUME NEW m \in run.plan, Enrich(m)
      PROVE  ForceInv'
    <2>1. run.pc = "enriching" /\ run' = [run EXCEPT !.plan = @ \ {m}, !.copies[m] = None]
        BY <1>6 DEF Enrich
    <2>2. run'.pc = "enriching" /\ run'.before = run.before
        BY <1>0, <2>1 DEF RunRecord
    <2>3. QED  BY <2>1, <2>2 DEF ForceInv
<1>7. QED  BY <1>1, <1>2, <1>3, <1>4, <1>5, <1>6

\* Clients and rollbacks are outsiders to the run in progress.
LEMMA OutsidersForce ==
    ASSUME TypeInv, TypeInv', RestoreInv, ForceInv, ClientStep \/ RollbackStep
    PROVE  ForceInv'
<1>1. UNCHANGED <<run, clock>>
    BY DEF ClientStep, DraftWrite, ReadForUpdate, DeleteMemory, CommitClient, ClientDies,
           RollbackStep, LoadCheckpoint, UndoEntry, MarkRolledBack, RollbackDies, UndoOnly
<1>2. \/ UNCHANGED <<rows, outside>> \/ Attribute(0)
      \/ undo # None /\ Attribute(undo.entry.run)
    BY DEF ClientStep, DraftWrite, ReadForUpdate, DeleteMemory, CommitClient, ClientDies,
           RollbackStep, LoadCheckpoint, UndoEntry, MarkRolledBack, RollbackDies, history
<1>3. ASSUME run.pc \in Uncaptured
      PROVE  LeavesTo(clock, {})
    <2>1. run.pc # "idle" /\ clock \in 1..MaxRuns
        BY <1>3, NotIdle DEF RestoreInv, TypeInv, TypeOK
    <2>2. CASE UNCHANGED <<rows, outside>>
        BY <2>2, StillLeaves
    <2>3. CASE Attribute(0)
        BY <2>1, <2>3, BlamedOnNobody
    <2>4. CASE undo # None /\ Attribute(undo.entry.run)
        <3>1. undo.entry \in Held
            BY <2>4 DEF Held
        <3>2. undo.entry.run # clock
            BY <1>3, <3>1 DEF RestoreInv, EntryInv
        <3>3. outside \in [1..MaxRuns -> SUBSET Ids]
            BY DEF TypeInv, TypeOK
        <3>4. QED  BY <2>1, <2>4, <3>2, <3>3, OthersBlamed
    <2>5. QED  BY <1>2, <2>2, <2>3, <2>4
<1>4. QED  BY <1>1, <1>3, OthersForce

LEMMA NextForce ==
    ASSUME TypeInv, TypeInv', SurvivorInv, RestoreInv, ForceInv, [Next]_vars
    PROVE  ForceInv'
<1>1. CASE ClientStep \/ RollbackStep
    BY <1>1, OutsidersForce
<1>2. CASE RunStep
    <2>1. CASE \/ ListCurrent \/ JudgePairs \/ PlanArchive
               \/ \E c \in run.clusters : JudgingFails(c) \/ Decide(c)
        BY <2>1, LookingForce
    <2>2. CASE \/ WriteMerged
               \/ \E c \in run.clusters : Dedup(c)
               \/ \E m \in run.plan : MarkSuperseded(m) \/ Retire(m) \/ Archive(m)
        BY <2>2, WritingForce
    <2>3. CASE \/ StartRun \/ TakeSnapshot \/ FindClusters \/ AbortRun
               \/ CaptureCheckpoint \/ ListForEnrichment \/ AdvanceWatermark
               \/ \E m \in run.plan : Enrich(m)
        BY <2>3, EdgesForce
    <2>4. QED  BY <1>2, <2>1, <2>2, <2>3 DEF RunStep
<1>3. CASE UNCHANGED vars
    <2>1. UNCHANGED <<run, clock, rows, outside>>
        BY <1>3 DEF vars, history
    <2>2. QED  BY <2>1, StillLeaves, OthersForce
<1>4. QED  BY <1>1, <1>2, <1>3 DEF Next

\* A run that nobody disturbs, and whose model names no stranger as a winner,
\* leaves a fact of the boundary in force at every step: through dedups, merges
\* that fail half way, retirements and stale-fact verdicts of any kind.
THEOREM OneFactStays == Spec => []OneStaysInForce
<1>1. Init => ForceInv
    BY DEF Init, Idle, ForceInv, Clusterless, Uncaptured, Judged
<1>2. /\ TypeInv /\ SurvivorInv /\ RestoreInv /\ ForceInv
      /\ [Next]_vars
      => TypeInv' /\ SurvivorInv' /\ RestoreInv' /\ ForceInv'
    <2> SUFFICES ASSUME TypeInv, SurvivorInv, RestoreInv, ForceInv, [Next]_vars
                 PROVE  TypeInv' /\ SurvivorInv' /\ RestoreInv' /\ ForceInv'
        OBVIOUS
    <2>1. TypeInv'
        BY NextTyped
    <2>2. QED  BY <2>1, NextSurvivor, NextRestore, NextForce
<1>3. ForceInv => OneStaysInForce
    <2> SUFFICES ASSUME ForceInv, InForce(run.before) # {}, outside[clock] = {}, ~run.stray
                 PROVE  InForce(rows) # {}
        BY DEF OneStaysInForce
    <2>1. InForce(NoRows) = {}
        BY DEF InForce, Present, NoRows
    <2>2. run.pc \in Uncaptured
        BY <2>1 DEF ForceInv
    <2>3. QED  BY <2>2 DEF ForceInv, Undisturbed, InForceKept
<1>4. QED  BY <1>1, <1>2, <1>3, InitTyped, InitSurvivor, InitRestore, PTL DEF Spec
=============================================================================
