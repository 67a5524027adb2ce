-------------------------- MODULE ConsolidationProofs --------------------------
(***************************************************************************)
(* Safety of consolidation, checkpoints and rollback for any number of     *)
(* memories, runs, clients' operations and failures.                       *)
(***************************************************************************)
EXTENDS Consolidation, SequenceTheorems, TLAPS

USE BoundsAssumption, NoneAssumption DEF BoundsAssumption, NoneAssumption

\* enrich_facts only works on rows it has a copy of.
CopiesInv == run.pc = "enriching" => \A m \in run.plan : run.copies[m] # None

TypeInv == TypeOK /\ CopiesInv

-----------------------------------------------------------------------------
(* Lemmas on the operators the actions are built from.                     *)

\* A fresh row is a row.
LEMMA NewRowType ==
    ASSUME clock \in Nat, NEW agent \in BOOLEAN
    PROVE  NewRow(agent) \in Row /\ NewRow(agent).by = None
BY DEF NewRow, Row

\* Changing one row, by a column or as a whole, gives a table again.
LEMMA TableUpdates ==
    ASSUME NEW t \in Table, NEW m \in Ids
    PROVE  /\ \A r \in Row \cup {None} : [t EXCEPT ![m] = r] \in Table
           /\ t[m] # None => t[m] \in Row
BY DEF Table

\* Row columns may be changed one by one.
LEMMA RowUpdates ==
    ASSUME NEW r \in Row
    PROVE  /\ \A s \in Ids : [r EXCEPT !.by = s] \in Row
           /\ [r EXCEPT !.valid = FALSE] \in Row
           /\ [r EXCEPT !.archived = TRUE] \in Row
           /\ [r EXCEPT !.alias = r.text] \in Row
           /\ \A t \in Nat : [r EXCEPT !.text = t, !.archived = FALSE] \in Row
BY DEF Row

\* Only marking a row as superseded changes by whom it is superseded.
LEMMA RowKeepsBy ==
    ASSUME NEW r \in Row
    PROVE  /\ \A s \in Ids \cup {None} : /\ [r EXCEPT !.by = s] \in Row
                                        /\ [r EXCEPT !.by = s] # None
                                        /\ [r EXCEPT !.by = s].by = s
           /\ [r EXCEPT !.valid = FALSE].by = r.by
           /\ [r EXCEPT !.archived = TRUE].by = r.by
           /\ [r EXCEPT !.alias = r.text].by = r.by
<1>1. \A s \in Ids \cup {None} : [r EXCEPT !.by = s] \in Row /\ [r EXCEPT !.by = s].by = s
    BY DEF Row
<1>2. /\ [r EXCEPT !.valid = FALSE].by = r.by
      /\ [r EXCEPT !.archived = TRUE].by = r.by
      /\ [r EXCEPT !.alias = r.text].by = r.by
    BY DEF Row
<1>3. QED  BY <1>1, <1>2

\* Whoever changes the table, the history of outsiders keeps its shape.
LEMMA AttributeType ==
    ASSUME outside \in [1..MaxRuns -> SUBSET Ids], NEW who, Attribute(who)
    PROVE  outside' \in [1..MaxRuns -> SUBSET Ids]
BY DEF Attribute

\* Pruning keeps checkpoints of the sequence it is given, at most Retention.
LEMMA NewestKeeps ==
    ASSUME NEW S, NEW s \in Seq(S)
    PROVE  /\ Newest(s) \in Seq(S)
           /\ Len(Newest(s)) <= Retention
           /\ \A i \in DOMAIN Newest(s) : \E j \in DOMAIN s : Newest(s)[i] = s[j]
<1>1. CASE Len(s) > Retention
    <2> DEFINE k == Len(s) - Retention + 1
    <2>1. Len(s) \in Nat /\ DOMAIN s = 1..Len(s)
        BY LenProperties
    <2>2. k \in 1..Len(s) /\ Newest(s) = SubSeq(s, k, Len(s))
        BY <1>1, <2>1 DEF Newest
    <2>3. /\ SubSeq(s, k, Len(s)) \in Seq(S)
          /\ Len(SubSeq(s, k, Len(s))) = Retention
          /\ \A i \in 1..Retention : SubSeq(s, k, Len(s))[i] = s[k + i - 1]
        BY <2>1, <2>2, SubSeqProperties
    <2>4. DOMAIN Newest(s) = 1..Retention
        BY <2>2, <2>3, LenProperties
    <2>5. \A i \in 1..Retention : k + i - 1 \in DOMAIN s
        BY <2>1, <2>2
    <2>6. QED  BY <2>2, <2>3, <2>4, <2>5
<1>2. CASE Len(s) <= Retention
    BY <1>2, LenProperties DEF Newest
<1>3. QED  BY <1>1, <1>2, LenProperties

-----------------------------------------------------------------------------
(* Type correctness *)

LEMMA InitTyped == Init => TypeInv
<1> SUFFICES ASSUME Init PROVE TypeInv
    OBVIOUS
<1>1. NoRows \in Table
    BY DEF NoRows, Table
<1>2. rows \in Table
    BY NewRowType DEF Init, Table
<1>3. checkpoints \in Seq(Checkpoint) /\ Len(checkpoints) <= Retention
    BY EmptySeq DEF Init
<1>4. Idle \in RunRecord /\ Idle.pc = "idle"
    BY <1>1 DEF Idle, RunRecord, Phases
<1>5. QED  BY <1>2, <1>3, <1>4 DEF Init, TypeInv, TypeOK, CopiesInv

\* The steps of clients keep the types.
LEMMA ClientTyped ==
    ASSUME TypeInv, ClientStep
    PROVE  TypeInv'
<1> USE DEF TypeInv, TypeOK, CopiesInv, history
<1>1. ASSUME NEW m \in Ids, DraftWrite(m) PROVE TypeInv'
    <2>1. client' \in Operation
        BY <1>1, NewRowType DEF DraftWrite, Operation
    <2>2. Event /\ UNCHANGED <<rows, watermark, checkpoints, clock, run, undo, history>>
        BY <1>1 DEF DraftWrite
    <2>3. QED  BY <2>1, <2>2 DEF Event, Spend
<1>2. ASSUME NEW m \in Ids, ReadForUpdate(m) PROVE TypeInv'
    <2>1. rows[m] \in Row /\ events + 1 \in Nat
        BY <1>2, TableUpdates DEF ReadForUpdate
    <2>2. [rows[m] EXCEPT !.text = events + 1, !.archived = FALSE] \in Row
        BY <2>1, RowUpdates
    <2>3. client' \in Operation
        BY <1>2, <2>2 DEF ReadForUpdate, Operation
    <2>4. QED  BY <1>2, <2>3 DEF ReadForUpdate, Event, Spend
<1>3. ASSUME NEW m \in Ids, DeleteMemory(m) PROVE TypeInv'
    <2>1. rows' \in Table /\ outside' \in [1..MaxRuns -> SUBSET Ids]
        BY <1>3, TableUpdates, AttributeType DEF DeleteMemory
    <2>2. QED  BY <1>3, <2>1 DEF DeleteMemory, Event, Spend
<1>4. ASSUME CommitClient PROVE TypeInv'
    <2>1. client.row \in Row /\ client.id \in Ids
        BY <1>4 DEF CommitClient, Operation
    <2>2. rows' \in Table /\ outside' \in [1..MaxRuns -> SUBSET Ids]
        BY <1>4, <2>1, TableUpdates, AttributeType DEF CommitClient
    <2>3. QED  BY <1>4, <2>2 DEF CommitClient
<1>5. ASSUME ClientDies PROVE TypeInv'
    BY <1>5 DEF ClientDies
<1>6. QED  BY <1>1, <1>2, <1>3, <1>4, <1>5 DEF ClientStep

\* A run that only changes its own memory, and perhaps spends an event.
LEMMA RunOnlyTyped ==
    ASSUME TypeInv, RunOnly, UNCHANGED rows, NoEvent \/ Event,
           run' \in RunRecord, CopiesInv'
    PROVE  TypeInv'
BY DEF TypeInv, TypeOK, RunOnly, NoEvent, Event, Spend, history

\* A run that changes the table on its own behalf.
LEMMA RunChangesTyped ==
    ASSUME TypeInv, RunChangesRows, NoEvent \/ Event,
           rows' \in Table, run' \in RunRecord, CopiesInv'
    PROVE  TypeInv'
BY AttributeType DEF TypeInv, TypeOK, RunChangesRows, NoEvent, Event, Spend

\* The ways back out of a cluster keep the shape of the run.
LEMMA RunUpdates ==
    ASSUME run \in RunRecord
    PROVE  /\ \A c \in run.clusters :
                 /\ Done(c) \in RunRecord /\ Done(c).pc = run.pc
                 /\ Skipped(c) \in RunRecord /\ Skipped(c).pc = run.pc
           /\ BackToJudging \in RunRecord /\ BackToJudging.pc = "judging"
           /\ SkipMerge \in RunRecord /\ SkipMerge.pc = "judging"
           /\ ToPhase4 \in RunRecord /\ ToPhase4.pc = "cooling"
<1>1. ASSUME NEW c \in run.clusters
      PROVE  /\ Done(c) \in RunRecord /\ Done(c).pc = run.pc
             /\ Skipped(c) \in RunRecord /\ Skipped(c).pc = run.pc
    BY DEF Done, Skipped, RunRecord
<1>2. BackToJudging \in RunRecord /\ BackToJudging.pc = "judging"
    BY DEF BackToJudging, RunRecord, Phases
<1>3. SkipMerge \in RunRecord /\ SkipMerge.pc = "judging"
    BY <1>2 DEF SkipMerge, RunRecord
<1>4. ToPhase4 \in RunRecord /\ ToPhase4.pc = "cooling"
    BY DEF ToPhase4, RunRecord, Phases
<1>5. QED  BY <1>1, <1>2, <1>3, <1>4

\* The steps of a run that only read the table keep the types.
LEMMA ReadingTyped ==
    ASSUME TypeInv,
           \/ AbortRun \/ FindClusters \/ ListCurrent \/ JudgePairs
           \/ PlanArchive \/ ListForEnrichment
           \/ \E c \in run.clusters : JudgingFails(c) \/ Decide(c)
    PROVE  TypeInv'
<1>0. /\ run \in RunRecord /\ rows \in Table /\ Current \in SUBSET Ids
      /\ NoRows \in Table
    BY DEF TypeInv, TypeOK, Current, Listed, Present, NoRows, Table
<1>1. CASE AbortRun
    <2>1. Idle \in RunRecord /\ Idle.pc = "idle"
        BY <1>0 DEF Idle, RunRecord, Phases
    <2>2. QED  BY <1>1, <2>1, RunOnlyTyped DEF AbortRun, CopiesInv
<1>2. CASE FindClusters
    <2> DEFINE seeds == IF Listed(run.snap) = {} THEN {} ELSE Seeds(run.since)
    <2>0. seeds \in SUBSET Ids
        BY <1>0 DEF Seeds
    <2>1. PICK cs \in Clusterings(seeds) :
             run' = [run EXCEPT !.pc = "judging", !.clusters = cs, !.seen = seeds]
        BY <1>2 DEF FindClusters
    <2> HIDE DEF seeds
    <2>2. cs \in SUBSET SUBSET Ids
        BY <1>0 DEF Clusterings
    <2>3. run' \in RunRecord /\ run'.pc = "judging"
        BY <1>0, <2>0, <2>1, <2>2 DEF RunRecord, Phases
    <2>4. QED  BY <1>2, <2>3, RunOnlyTyped DEF FindClusters, CopiesInv
<1>3. CASE ListCurrent
    <2>1. run' \in RunRecord /\ run'.pc \in {"cooling", "pairing"}
        <3>1. [run EXCEPT !.pc = "pairing", !.group = Current] \in RunRecord
            BY <1>0 DEF RunRecord, Phases
        <3>2. [run EXCEPT !.pc = "pairing", !.group = Current].pc = "pairing"
            BY <1>0 DEF RunRecord
        <3>3. QED  BY <1>0, <1>3, <3>1, <3>2, RunUpdates DEF ListCurrent
    <2>2. QED  BY <1>3, <2>1, RunOnlyTyped DEF ListCurrent, CopiesInv
<1>4. CASE JudgePairs
    <2>1. PICK verdict \in SUBSET run.group :
             LET stale == ResolveStaleIds(verdict, run.group)
             IN  run' = IF stale = {} THEN ToPhase4
                        ELSE [run EXCEPT !.pc = "resolving", !.plan = stale]
        BY <1>4 DEF JudgePairs
    <2>2. ResolveStaleIds(verdict, run.group) \in SUBSET Ids
        BY <1>0 DEF ResolveStaleIds, RunRecord
    <2>3. \A p \in SUBSET Ids :
             /\ [run EXCEPT !.pc = "resolving", !.plan = p] \in RunRecord
             /\ [run EXCEPT !.pc = "resolving", !.plan = p].pc = "resolving"
        BY <1>0 DEF RunRecord, Phases
    <2>4. run' \in RunRecord /\ run'.pc \in {"cooling", "resolving"}
        BY <1>0, <2>1, <2>2, <2>3, RunUpdates
    <2>5. QED  BY <1>4, <2>4, RunOnlyTyped DEF JudgePairs, CopiesInv
<1>5. CASE PlanArchive
    <2>1. PICK cold \in SUBSET Ids :
             run' = [run EXCEPT !.pc = IF cold = {} THEN "capturing" ELSE "archiving",
                                !.plan = cold]
        BY <1>0, <1>5 DEF PlanArchive
    <2>2. run' \in RunRecord /\ run'.pc \in {"capturing", "archiving"}
        BY <1>0, <2>1 DEF RunRecord, Phases
    <2>3. QED  BY <1>5, <2>2, RunOnlyTyped DEF PlanArchive, CopiesInv
<1>6. CASE ListForEnrichment
    <2> DEFINE copies == [m \in Ids |-> IF m \in Current THEN rows[m] ELSE None]
               plan   == {m \in Current : rows[m].alias # rows[m].text}
    <2>1. copies \in Table /\ plan \in SUBSET Ids /\ \A m \in plan : copies[m] # None
        BY <1>0 DEF Table, Current, Listed, Present
    <2>2. run' = [run EXCEPT !.pc = "enriching", !.copies = copies, !.plan = plan]
        BY <1>6 DEF ListForEnrichment
    <2> HIDE DEF copies, plan
    <2>3. run' \in RunRecord /\ run'.plan = plan /\ run'.copies = copies
        BY <1>0, <2>1, <2>2 DEF RunRecord, Phases
    <2>4. CopiesInv'
        BY <2>1, <2>3 DEF CopiesInv
    <2>5. QED  BY <1>6, <2>3, <2>4, RunOnlyTyped DEF ListForEnrichment
<1>7. ASSUME NEW c \in run.clusters, JudgingFails(c)
      PROVE  TypeInv'
    BY <1>0, <1>7, RunUpdates, RunOnlyTyped DEF JudgingFails, CopiesInv
<1>8. ASSUME NEW c \in run.clusters, Decide(c)
      PROVE  TypeInv'
    <2>1. Done(c) \in RunRecord /\ Done(c).pc = "judging" /\ c \in SUBSET Ids
        BY <1>0, <1>8, RunUpdates DEF Decide, RunRecord
    <2>2. /\ [Done(c) EXCEPT !.pc = "merging", !.group = c] \in RunRecord
          /\ [Done(c) EXCEPT !.pc = "merging", !.group = c].pc = "merging"
        BY <2>1 DEF RunRecord, Phases
    <2>3. \A p \in SUBSET Ids, b \in BOOLEAN :
             /\ [Done(c) EXCEPT !.pc = "retiring", !.plan = p, !.stray = b] \in RunRecord
             /\ [Done(c) EXCEPT !.pc = "retiring", !.plan = p, !.stray = b].pc = "retiring"
        BY <2>1 DEF RunRecord, Phases
    <2>4. ASSUME NEW winner \in Ids,
                 run' = [Done(c) EXCEPT !.pc = "retiring", !.plan = c \ {winner},
                                        !.stray = @ \/ winner \notin c]
          PROVE  run' \in RunRecord /\ run'.pc = "retiring"
        <3>1. (Done(c).stray \/ winner \notin c) \in BOOLEAN /\ c \ {winner} \in SUBSET Ids
            BY <2>1
        <3>2. QED  BY <2>3, <2>4, <3>1
    <2>5. Skipped(c) \in RunRecord /\ Skipped(c).pc = "judging"
        BY <1>0, <1>8, RunUpdates DEF Decide
    <2>6. run' \in RunRecord /\ run'.pc # "enriching"
        BY <1>8, <2>1, <2>2, <2>4, <2>5 DEF Decide
    <2>7. QED  BY <1>8, <2>6, RunOnlyTyped DEF Decide, CopiesInv
<1>9. QED  BY <1>1, <1>2, <1>3, <1>4, <1>5, <1>6, <1>7, <1>8

\* The steps of a run that change the table, and enrichment, keep the types.
LEMMA WritingTyped ==
    ASSUME TypeInv,
           \/ WriteMerged
           \/ \E c \in run.clusters : Dedup(c)
           \/ \E m \in run.plan : MarkSuperseded(m) \/ Retire(m) \/ Archive(m) \/ Enrich(m)
    PROVE  TypeInv'
<1>0. /\ run \in RunRecord /\ rows \in Table /\ run.plan \in SUBSET Ids
      /\ clock \in Nat
    BY DEF TypeInv, TypeOK, RunRecord
<1>1. CASE WriteMerged
    <2>1. NewRow(FALSE) \in Row
        BY <1>0, NewRowType
    <2>2. \A n \in Ids, r \in Row : [rows EXCEPT ![n] = r] \in Table
        BY <1>0, TableUpdates
    <2>3. rows' \in Table
        <3>1. rows' = rows \/ \E n \in Fresh : rows' = [rows EXCEPT ![n] = NewRow(FALSE)]
            BY <1>1, Zenon DEF WriteMerged
        <3>2. Fresh \subseteq Ids
            BY DEF Fresh
        <3>3. CASE rows' = rows
            BY <1>0, <3>3
        <3>4. ASSUME NEW n \in Fresh, rows' = [rows EXCEPT ![n] = NewRow(FALSE)]
              PROVE  rows' \in Table
            BY <2>1, <2>2, <3>2, <3>4, Zenon
        <3>5. QED  BY <3>1, <3>3, <3>4, Zenon
    <2>4. \A n \in Ids :
             LET r == [run EXCEPT !.pc = "superseding", !.into = n, !.plan = run.group]
             IN  r \in RunRecord /\ r.pc = "superseding"
        BY <1>0 DEF RunRecord, Phases
    <2>5. run' \in RunRecord /\ run'.pc \in {"superseding", "judging"}
        BY <1>0, <1>1, <2>4, RunUpdates DEF WriteMerged, Fresh
    <2>6. QED  BY <1>1, <2>3, <2>5, RunChangesTyped DEF WriteMerged, CopiesInv
<1>2. ASSUME NEW c \in run.clusters, Dedup(c)
      PROVE  TypeInv'
    <2>1. c \in SUBSET Ids /\ run' \in RunRecord /\ run'.pc = "judging"
        BY <1>0, <1>2, RunUpdates DEF Dedup, RunRecord
    <2>2. ASSUME NEW t \in c, c \subseteq Present(rows),
                 rows' = [m \in Ids |-> IF m \in c \ {t} THEN [rows[m] EXCEPT !.by = t]
                                        ELSE rows[m]]
          PROVE  rows' \in Table
        <3>1. ASSUME NEW m \in c PROVE [rows[m] EXCEPT !.by = t] \in Row
            <4>1. rows[m] \in Row /\ t \in Ids
                BY <1>0, <2>1, <2>2, <3>1, TableUpdates DEF Present
            <4>2. QED  BY <4>1, RowUpdates
        <3>2. QED  BY <1>0, <2>2, <3>1 DEF Table
    <2>3. rows' \in Table
        BY <1>0, <1>2, <2>2 DEF Dedup
    <2>4. QED  BY <1>2, <2>1, <2>3, RunChangesTyped DEF Dedup, CopiesInv
<1>3. ASSUME NEW m \in run.plan, MarkSuperseded(m)
      PROVE  TypeInv'
    <2>1. run.into \in Ids \cup {None}
        BY <1>0 DEF RunRecord
    <2>2. rows[m] # None => [rows[m] EXCEPT !.by = run.into] \in Row
        BY <1>0, <2>1, TableUpdates DEF Row
    <2>3. \/ rows' = rows
          \/ rows[m] # None /\ rows' = [rows EXCEPT ![m] = [rows[m] EXCEPT !.by = run.into]]
        BY <1>3 DEF MarkSuperseded
    <2>4. rows' \in Table
        BY <1>0, <2>2, <2>3, TableUpdates
    <2>5. /\ [run EXCEPT !.plan = @ \ {m}] \in RunRecord
          /\ [run EXCEPT !.plan = @ \ {m}].pc = run.pc
        BY <1>0 DEF RunRecord
    <2>6. run' \in RunRecord /\ run'.pc # "enriching"
        BY <1>0, <1>3, <2>5, RunUpdates DEF MarkSuperseded
    <2>7. QED  BY <1>3, <2>4, <2>6, RunChangesTyped DEF MarkSuperseded, CopiesInv
<1>4. ASSUME NEW m \in run.plan, Retire(m)
      PROVE  TypeInv'
    <2>1. rows[m] # None => [rows[m] EXCEPT !.valid = FALSE] \in Row
        BY <1>0, TableUpdates, RowUpdates
    <2>2. \/ rows' = rows
          \/ rows[m] # None /\ rows' = [rows EXCEPT ![m] = [rows[m] EXCEPT !.valid = FALSE]]
        BY <1>4 DEF Retire
    <2>3. rows' \in Table
        <3>1. \A r \in Row : [rows EXCEPT ![m] = r] \in Table
            BY <1>0, TableUpdates
        <3>2. QED  BY <1>0, <2>1, <2>2, <3>1, Zenon
    <2>4. /\ [run EXCEPT !.plan = @ \ {m}] \in RunRecord
          /\ [run EXCEPT !.plan = @ \ {m}].pc = run.pc
        BY <1>0 DEF RunRecord
    <2>5. run' \in RunRecord /\ run'.pc # "enriching"
        BY <1>0, <1>4, <2>4, RunUpdates DEF Retire
    <2>6. QED  BY <1>4, <2>3, <2>5, RunChangesTyped DEF Retire, CopiesInv
<1>5. ASSUME NEW m \in run.plan, Archive(m)
      PROVE  TypeInv'
    <2>1. rows[m] # None => [rows[m] EXCEPT !.archived = TRUE] \in Row
        BY <1>0, TableUpdates, RowUpdates
    <2>2. \/ rows' = rows
          \/ rows[m] # None /\ rows' = [rows EXCEPT ![m] = [rows[m] EXCEPT !.archived = TRUE]]
        BY <1>5 DEF Archive
    <2>3. rows' \in Table
        <3>1. \A r \in Row : [rows EXCEPT ![m] = r] \in Table
            BY <1>0, TableUpdates
        <3>2. QED  BY <1>0, <2>1, <2>2, <3>1, Zenon
    <2>4. run' \in RunRecord /\ run'.pc \in {"capturing", "archiving"}
        BY <1>0, <1>5 DEF Archive, RunRecord, Phases
    <2>5. QED  BY <1>5, <2>3, <2>4, RunChangesTyped DEF Archive, CopiesInv
<1>6. ASSUME NEW m \in run.plan, Enrich(m)
      PROVE  TypeInv'
    <2>1. run.copies \in Table /\ run.pc = "enriching" /\ \A n \in run.plan : run.copies[n] # None
        BY <1>0, <1>6 DEF TypeInv, CopiesInv, Enrich, RunRecord
    <2>2. [run.copies[m] EXCEPT !.alias = run.copies[m].text] \in Row
        BY <1>0, <2>1, TableUpdates, RowUpdates
    <2>3. \/ rows' = rows
          \/ rows' = [rows EXCEPT ![m] = [run.copies[m] EXCEPT !.alias = run.copies[m].text]]
        BY <1>6 DEF Enrich
    <2>4. rows' \in Table
        BY <1>0, <2>2, <2>3, TableUpdates
    <2>5. [run.copies EXCEPT ![m] = None] \in Table
        BY <1>0, <2>1, TableUpdates
    <2>6. run' = [run EXCEPT !.plan = run.plan \ {m}, !.copies = [run.copies EXCEPT ![m] = None]]
        BY <1>0, <1>6 DEF Enrich, RunRecord
    <2>7. /\ run' \in RunRecord /\ run'.plan = run.plan \ {m}
          /\ run'.copies = [run.copies EXCEPT ![m] = None]
        BY <1>0, <2>5, <2>6 DEF RunRecord
    <2>8. CopiesInv'
        BY <1>0, <2>1, <2>7 DEF CopiesInv, Table
    <2>9. outside' \in [1..MaxRuns -> SUBSET Ids]
        BY <1>6, AttributeType DEF Enrich, TypeInv, TypeOK
    <2>10. NoEvent \/ Event
        BY <1>6 DEF Enrich
    <2>11. UNCHANGED <<watermark, checkpoints, clock, client, undo, removed, examined, excused>>
        BY <1>6 DEF Enrich
    <2>12. QED  BY <2>4, <2>7, <2>8, <2>9, <2>10, <2>11
                DEF TypeInv, TypeOK, NoEvent, Event, Spend
<1>7. QED  BY <1>1, <1>2, <1>3, <1>4, <1>5, <1>6

\* What a run changed is a table of old rows and a set of ids.
LEMMA DiffType ==
    ASSUME NEW pre \in Table, NEW post \in Table
    PROVE  Modified(pre, post) \in Table /\ Created(pre, post) \in SUBSET Ids
BY DEF Modified, Created, Present, Table

\* The capture of a checkpoint keeps the checkpoints in shape and in number.
LEMMA CaptureTyped ==
    ASSUME TypeInv, CaptureCheckpoint
    PROVE  TypeInv'
<1>0. /\ run \in RunRecord /\ rows \in Table /\ clock \in Nat /\ NoRows \in Table
      /\ checkpoints \in Seq(Checkpoint) /\ Len(checkpoints) <= Retention
    BY DEF TypeInv, TypeOK, NoRows, Table
<1> DEFINE entry == [run      |-> clock,
                     modified |-> Modified(run.snap, FullEnumeration),
                     created  |-> Created(run.snap, FullEnumeration),
                     active   |-> TRUE,
                     before   |-> run.before]
<1>1. entry \in Checkpoint
    BY <1>0, DiffType DEF FullEnumeration, RunRecord, Checkpoint
<1>2. checkpoints' = checkpoints \/ checkpoints' = Newest(Append(checkpoints, entry))
    BY Zenon DEF CaptureCheckpoint, create_checkpoint
<1> HIDE DEF entry
<1>3. Append(checkpoints, entry) \in Seq(Checkpoint)
    BY <1>0, <1>1, AppendProperties
<1>4. checkpoints' \in Seq(Checkpoint) /\ Len(checkpoints') <= Retention
    BY <1>0, <1>2, <1>3, NewestKeeps
<1>5. run' = [run EXCEPT !.pc = "enumerating", !.snap = NoRows, !.before = NoRows]
    BY DEF CaptureCheckpoint
<1>6. run' \in RunRecord /\ run'.pc = "enumerating"
    BY <1>0, <1>5 DEF RunRecord, Phases
<1>7. /\ NoEvent \/ Event
      /\ UNCHANGED <<rows, watermark, clock, client, undo, history>>
    BY Zenon DEF CaptureCheckpoint
<1>8. events' \in Nat
    BY <1>7 DEF TypeInv, TypeOK, NoEvent, Event, Spend
<1>9. QED  BY <1>4, <1>6, <1>7, <1>8 DEF TypeInv, TypeOK, CopiesInv, history

\* The first two steps of a run and its last one keep the types.
LEMMA EdgesTyped ==
    ASSUME TypeInv, StartRun \/ TakeSnapshot \/ AdvanceWatermark
    PROVE  TypeInv'
<1> USE DEF TypeInv, TypeOK, CopiesInv
<1>0. /\ run \in RunRecord /\ rows \in Table /\ clock \in Nat /\ NoRows \in Table
    BY DEF NoRows, Table
<1>1. Idle \in RunRecord /\ Idle.pc = "idle"
    BY <1>0 DEF Idle, RunRecord, Phases
<1>2. CASE StartRun
    <2>1. /\ [Idle EXCEPT !.pc = "listing", !.since = watermark] \in RunRecord
          /\ [Idle EXCEPT !.pc = "listing", !.since = watermark].pc = "listing"
          /\ [Idle EXCEPT !.pc = "listing"] \in RunRecord
          /\ [Idle EXCEPT !.pc = "listing"].pc = "listing"
        BY <1>1 DEF RunRecord, Phases
    <2>2. run' \in RunRecord /\ run'.pc = "listing" /\ clock' = clock + 1
        BY <1>2, <2>1 DEF StartRun
    <2>3. events' \in Nat
        BY <1>2 DEF StartRun, Spend
    <2>4. excused' \in SUBSET Ids
        BY <1>2 DEF StartRun, Operation
    <2>5. UNCHANGED <<rows, watermark, checkpoints, client, undo, removed, outside, examined>>
        BY <1>2 DEF StartRun
    <2>6. QED  BY <1>0, <2>2, <2>3, <2>4, <2>5
<1>3. CASE TakeSnapshot
    <2>1. run' \in RunRecord /\ run'.pc = "clustering"
        BY <1>0, <1>3 DEF TakeSnapshot, FullEnumeration, RunRecord, Phases
    <2>2. outside' \in [1..MaxRuns -> SUBSET Ids]
        BY <1>3 DEF TakeSnapshot
    <2>3. QED  BY <1>3, <2>1, <2>2 DEF TakeSnapshot
<1>4. CASE AdvanceWatermark
    <2>1. watermark' \in Nat /\ events' \in Nat
        BY <1>0, <1>4 DEF AdvanceWatermark, NextWatermark, NoEvent, Event, Spend
    <2>2. examined' \in SUBSET Ids
        BY <1>0, <1>4 DEF AdvanceWatermark, RunRecord
    <2>3. QED  BY <1>1, <1>4, <2>1, <2>2 DEF AdvanceWatermark
<1>5. QED  BY <1>2, <1>3, <1>4

\* The steps of a rollback keep the types.
LEMMA RollbackTyped ==
    ASSUME TypeInv, RollbackStep
    PROVE  TypeInv'
<1> USE DEF TypeInv, TypeOK, CopiesInv
<1>1. ASSUME NEW i \in DOMAIN checkpoints, LoadCheckpoint(i)
      PROVE  TypeInv'
    <2>1. checkpoints[i] \in Checkpoint
        BY ElementOfSeq, LenProperties
    <2>2. Entries(checkpoints[i]) \in SUBSET Ids
        BY <2>1 DEF Entries, Present, Checkpoint
    <2>3. undo' \in Rollback
        BY <1>1, <2>1, <2>2 DEF LoadCheckpoint, Rollback
    <2>4. QED  BY <1>1, <2>3 DEF LoadCheckpoint, UndoOnly
<1>2. ASSUME undo # None, NEW m \in undo.left, UndoEntry(m)
      PROVE  TypeInv'
    <2>1. undo \in Rollback /\ m \in Ids
        BY <1>2 DEF Rollback
    <2>2. undo.entry.modified[m] \in Row \cup {None}
        BY <2>1 DEF Rollback, Checkpoint, Table
    <2>3. \A r \in Row \cup {None} : [rows EXCEPT ![m] = r] \in Table
        BY <2>1, TableUpdates
    <2>4. \/ rows' = rows
          \/ rows' = [rows EXCEPT ![m] = None]
          \/ rows' = [rows EXCEPT ![m] = undo.entry.modified[m]]
        BY <1>2 DEF UndoEntry
    <2>5. rows' \in Table
        BY <2>2, <2>3, <2>4
    <2>6. [undo EXCEPT !.left = @ \ {m}] \in Rollback
        BY <2>1 DEF Rollback
    <2>7. undo' \in Rollback \cup {None}
        BY <1>2, <2>6 DEF UndoEntry
    <2>8. removed' \in SUBSET Ids /\ excused' \in SUBSET Ids
        BY <1>2, <2>1 DEF UndoEntry
    <2>9. outside' \in [1..MaxRuns -> SUBSET Ids]
        BY <1>2, AttributeType DEF UndoEntry
    <2>10. UNCHANGED <<watermark, clock, run, client, examined, checkpoints, events>>
        BY <1>2 DEF UndoEntry, UndoOnly
    <2>11. QED  BY <2>5, <2>7, <2>8, <2>9, <2>10
<1>3. CASE MarkRolledBack
    <2>1. \A c \in Checkpoint : [c EXCEPT !.active = FALSE] \in Checkpoint
        BY DEF Checkpoint
    <2>2. \A i \in 1..Len(checkpoints) : checkpoints[i] \in Checkpoint
        BY ElementOfSeq
    <2>3. DOMAIN checkpoints = 1..Len(checkpoints) /\ Len(checkpoints) \in Nat
        BY LenProperties
    <2>4. DOMAIN checkpoints' = 1..Len(checkpoints)
        BY <1>3, <2>3 DEF MarkRolledBack
    <2>5. \A i \in 1..Len(checkpoints) : checkpoints'[i] \in Checkpoint
        BY <1>3, <2>1, <2>2, <2>3 DEF MarkRolledBack
    <2>6. checkpoints' \in [1..Len(checkpoints) -> Checkpoint]
        BY <1>3, <2>3, <2>4, <2>5 DEF MarkRolledBack
    <2>7. checkpoints' \in Seq(Checkpoint) /\ Len(checkpoints') = Len(checkpoints)
        BY <2>3, <2>6, IsASeq, LenProperties
    <2>8. QED  BY <1>3, <2>7 DEF MarkRolledBack, UndoOnly
<1>4. CASE RollbackDies
    BY <1>4 DEF RollbackDies, UndoOnly, Event, Spend
<1>5. QED  BY <1>1, <1>2, <1>3, <1>4 DEF RollbackStep

LEMMA NextTyped ==
    ASSUME TypeInv, [Next]_vars
    PROVE  TypeInv'
<1>1. CASE ClientStep
    BY <1>1, ClientTyped
<1>2. CASE RunStep
    BY <1>2, ReadingTyped, WritingTyped, CaptureTyped, EdgesTyped DEF RunStep
<1>3. CASE RollbackStep
    BY <1>3, RollbackTyped
<1>4. CASE UNCHANGED vars
    BY <1>4 DEF vars, history, TypeInv, TypeOK, CopiesInv
<1>5. QED  BY <1>1, <1>2, <1>3, <1>4 DEF Next

\* Type correctness and the retention of checkpoints, for any vault: the table,
\* what a run, a client and a rollback remember, and never more than
\* CHECKPOINT_RETENTION checkpoints.
THEOREM TypeCorrect == Spec => []TypeOK
<1>1. TypeInv /\ [Next]_vars => TypeInv'
    BY NextTyped
<1>2. TypeInv => TypeOK
    BY DEF TypeInv
<1>3. QED  BY <1>1, <1>2, InitTyped, PTL DEF Spec
-----------------------------------------------------------------------------
(* The survivor of a merge or a dedup.  Superseding ids travel: through a  *)
(* snapshot into a checkpoint and by a rollback back into the table,       *)
(* through the copies of an enrichment, through a client's update.  The    *)
(* invariant follows them everywhere.                                      *)

Known == Present(rows) \cup removed

\* Every superseded row of the table points at a known id.
Tracked(table, known) ==
    \A m \in Ids : table[m] # None => table[m].by \in known \cup {None}

\* A rollback in progress applies tracked pre-images, and nothing else.
UndoTracked(u, known) ==
    u # None => Tracked(u.entry.modified, known) /\ u.left \subseteq Entries(u.entry)

SurvivorInv ==
    /\ Tracked(rows, Known)
    /\ Tracked(run.snap, Known)
    /\ Tracked(run.copies, Known)
    /\ client # None => client.row.by \in Known \cup {None}
    /\ \A i \in DOMAIN checkpoints : Tracked(checkpoints[i].modified, Known)
    /\ UndoTracked(undo, Known)
    /\ run.pc = "superseding" => run.into \in Known

LEMMA TrackedGrows ==
    ASSUME NEW table, NEW known, NEW larger, known \subseteq larger,
           Tracked(table, known)
    PROVE  Tracked(table, larger)
BY DEF Tracked

LEMMA NoRowsTracked == \A known : Tracked(NoRows, known)
BY DEF Tracked, NoRows

\* A table with one row changed, when the new row is tracked.
LEMMA ChangeTracked ==
    ASSUME NEW table \in Table, NEW m \in Ids, NEW row, NEW known,
           Tracked(table, known), row # None => row.by \in known \cup {None}
    PROVE  Tracked([table EXCEPT ![m] = row], known)
BY DEF Tracked, Table

\* Changing one row hides no id from Known: it is left in the table, or it
\* is removed.
LEMMA KnownGrows ==
    ASSUME rows \in Table, NEW m \in Ids,
           \/ rows' = rows
           \/ \E r : rows' = [rows EXCEPT ![m] = r] /\ (r # None \/ m \in removed'),
           removed \subseteq removed'
    PROVE  Known \subseteq Known'
BY DEF Known, Present, Table

\* It is enough to look at what a step writes.
LEMMA SurvivorFrame ==
    ASSUME SurvivorInv, Known \subseteq Known',
           Tracked(rows', Known'),
           run'.snap = run.snap \/ Tracked(run'.snap, Known'),
           run'.copies = run.copies \/ Tracked(run'.copies, Known'),
           \/ run'.pc # "superseding"
           \/ run'.pc = run.pc /\ run'.into = run.into
           \/ run'.into \in Known',
           \/ client' = client
           \/ client' # None => client'.row.by \in Known' \cup {None},
           \/ checkpoints' = checkpoints
           \/ \A i \in DOMAIN checkpoints' : Tracked(checkpoints'[i].modified, Known'),
           undo' = undo \/ UndoTracked(undo', Known')
    PROVE  SurvivorInv'
<1>1. Tracked(run'.snap, Known')
    BY TrackedGrows DEF SurvivorInv
<1>2. Tracked(run'.copies, Known')
    BY TrackedGrows DEF SurvivorInv
<1>3. client' # None => client'.row.by \in Known' \cup {None}
    BY DEF SurvivorInv
<1>4. \A i \in DOMAIN checkpoints' : Tracked(checkpoints'[i].modified, Known')
    BY TrackedGrows DEF SurvivorInv
<1>5. UndoTracked(undo', Known')
    BY TrackedGrows DEF SurvivorInv, UndoTracked
<1>6. run'.pc = "superseding" => run'.into \in Known'
    BY DEF SurvivorInv
<1>7. QED  BY <1>1, <1>2, <1>3, <1>4, <1>5, <1>6 DEF SurvivorInv

LEMMA InitSurvivor == Init => SurvivorInv
<1> SUFFICES ASSUME Init PROVE SurvivorInv
    OBVIOUS
<1>1. \A m \in Ids : rows[m] # None => rows[m].by = None
    BY NewRowType DEF Init
<1>2. run.snap = NoRows /\ run.copies = NoRows /\ run.pc = "idle"
    BY DEF Init, Idle
<1>3. client = None /\ undo = None /\ DOMAIN checkpoints = {}
    BY DEF Init
<1>4. QED  BY <1>1, <1>2, <1>3, NoRowsTracked DEF SurvivorInv, Tracked, UndoTracked

LEMMA ClientSurvivor ==
    ASSUME TypeInv, SurvivorInv, ClientStep
    PROVE  SurvivorInv'
<1>0. rows \in Table /\ Tracked(rows, Known)
    BY DEF TypeInv, TypeOK, SurvivorInv
<1>1. ASSUME NEW m \in Ids, DraftWrite(m) PROVE SurvivorInv'
    <2>1. /\ UNCHANGED <<rows, checkpoints, run, undo, history>>
          /\ client'.row = NewRow(TRUE)
        BY <1>1 DEF DraftWrite
    <2>2. Known' = Known
        BY <2>1 DEF Known, Present, history
    <2>3. client'.row.by = None
        BY <2>1 DEF NewRow
    <2>4. QED  BY <1>0, <2>1, <2>2, <2>3, SurvivorFrame
<1>2. ASSUME NEW m \in Ids, ReadForUpdate(m) PROVE SurvivorInv'
    <2>1. /\ UNCHANGED <<rows, checkpoints, run, undo, removed>>
          /\ client'.row = [rows[m] EXCEPT !.text = events + 1, !.archived = FALSE]
        BY <1>2 DEF ReadForUpdate
    <2>2. Known' = Known
        BY <2>1 DEF Known, Present
    <2>3. rows[m] \in Row /\ rows[m] # None
        BY <1>0, <1>2, TableUpdates DEF ReadForUpdate
    <2>4. client'.row.by = rows[m].by
        BY <2>1, <2>3 DEF Row
    <2>5. client'.row.by \in Known' \cup {None}
        BY <1>0, <2>2, <2>3, <2>4 DEF Tracked
    <2>6. QED  BY <1>0, <2>1, <2>2, <2>5, SurvivorFrame
<1>3. ASSUME NEW m \in Ids, DeleteMemory(m) PROVE SurvivorInv'
    <2>1. /\ rows' = [rows EXCEPT ![m] = None] /\ removed' = removed \cup {m}
          /\ UNCHANGED <<checkpoints, run, client, undo>>
        BY <1>3 DEF DeleteMemory
    <2>2. Known \subseteq Known'
        BY <1>0, <2>1, KnownGrows
    <2>3. Tracked(rows, Known')
        BY <1>0, <2>2, TrackedGrows
    <2>4. Tracked(rows', Known')
        BY <1>0, <2>1, <2>3, ChangeTracked
    <2>5. QED  BY <2>1, <2>2, <2>4, SurvivorFrame
<1>4. ASSUME CommitClient PROVE SurvivorInv'
    <2>1. /\ rows' = rows \/ rows' = [rows EXCEPT ![client.id] = client.row]
          /\ client # None /\ client' = None
          /\ UNCHANGED <<checkpoints, run, undo, removed>>
        BY <1>4 DEF CommitClient
    <2>2. client.row \in Row /\ client.id \in Ids
        BY <2>1 DEF TypeInv, TypeOK, Operation
    <2>3. Known \subseteq Known'
        BY <1>0, <2>1, <2>2, KnownGrows
    <2>4. Tracked(rows, Known')
        BY <1>0, <2>3, TrackedGrows
    <2>5. client.row.by \in Known' \cup {None}
        BY <2>1, <2>3 DEF SurvivorInv
    <2>6. Tracked(rows', Known')
        BY <1>0, <2>1, <2>2, <2>4, <2>5, ChangeTracked
    <2>7. QED  BY <2>1, <2>3, <2>6, SurvivorFrame
<1>5. ASSUME ClientDies PROVE SurvivorInv'
    <2>1. client' = None /\ UNCHANGED <<rows, checkpoints, run, undo, history>>
        BY <1>5 DEF ClientDies
    <2>2. Known' = Known
        BY <2>1 DEF Known, Present, history
    <2>3. QED  BY <1>0, <2>1, <2>2, SurvivorFrame
<1>6. QED  BY <1>1, <1>2, <1>3, <1>4, <1>5 DEF ClientStep

LEMMA RollbackSurvivor ==
    ASSUME TypeInv, SurvivorInv, RollbackStep
    PROVE  SurvivorInv'
<1>0. rows \in Table /\ Tracked(rows, Known) /\ undo \in Rollback \cup {None}
    BY DEF TypeInv, TypeOK, SurvivorInv
<1>1. ASSUME NEW i \in DOMAIN checkpoints, LoadCheckpoint(i)
      PROVE  SurvivorInv'
    <2>1. /\ UNCHANGED <<rows, checkpoints, run, client, removed>>
          /\ undo'.entry = checkpoints[i] /\ undo'.left = Entries(checkpoints[i])
        BY <1>1 DEF LoadCheckpoint, UndoOnly
    <2>2. Known' = Known
        BY <2>1 DEF Known, Present
    <2>3. UndoTracked(undo', Known')
        BY <2>1, <2>2 DEF SurvivorInv, UndoTracked
    <2>4. QED  BY <1>0, <2>1, <2>2, <2>3, SurvivorFrame
<1>2. ASSUME undo # None, NEW m \in undo.left, UndoEntry(m)
      PROVE  SurvivorInv'
    <2>1. m \in Ids
        BY <1>0, <1>2 DEF Rollback
    <2>2. UNCHANGED <<checkpoints, run, client>>
        BY <1>2 DEF UndoEntry, UndoOnly
    <2>3. undo' = [undo EXCEPT !.left = undo.left \ {m}] \/ undo' = None
        BY <1>2 DEF UndoEntry
    <2>4. undo' # None => undo'.entry = undo.entry /\ undo'.left \subseteq undo.left
        BY <1>0, <1>2, <2>3 DEF Rollback
    <2>5. \/ rows' = [rows EXCEPT ![m] = None] /\ removed' = removed \cup {m}
          \/ /\ rows[m] # None /\ removed' = removed /\ m \notin undo.entry.created
             /\ rows' = [rows EXCEPT ![m] = undo.entry.modified[m]]
          \/ rows' = rows /\ removed' = removed
        BY <1>2 DEF UndoEntry
    <2>6. m \notin undo.entry.created => undo.entry.modified[m] # None
        BY <1>2 DEF SurvivorInv, UndoTracked, Entries, Present
    <2>7. Known \subseteq Known'
        BY <1>0, <2>1, <2>5, <2>6, KnownGrows
    <2>8. Tracked(rows, Known') /\ Tracked(undo.entry.modified, Known')
        BY <1>0, <1>2, <2>7, TrackedGrows DEF SurvivorInv, UndoTracked
    <2>9. Tracked(rows', Known')
        <3>1. undo.entry.modified[m] # None =>
                 undo.entry.modified[m].by \in Known' \cup {None}
            BY <2>1, <2>8 DEF Tracked
        <3>2. QED  BY <1>0, <2>1, <2>5, <2>8, <3>1, ChangeTracked
    <2>10. UndoTracked(undo', Known')
        BY <1>2, <2>4, <2>8 DEF SurvivorInv, UndoTracked
    <2>11. QED  BY <2>2, <2>7, <2>9, <2>10, SurvivorFrame
<1>3. CASE MarkRolledBack
    <2>1. UNCHANGED <<rows, run, client, removed>> /\ undo' = None
        BY <1>3 DEF MarkRolledBack, UndoOnly
    <2>2. Known' = Known
        BY <2>1 DEF Known, Present
    <2>3. checkpoints \in Seq(Checkpoint)
        BY DEF TypeInv, TypeOK
    <2>4. \A i \in DOMAIN checkpoints : checkpoints[i] \in Checkpoint
        BY <2>3, ElementOfSeq, LenProperties
    <2>5. \A c \in Checkpoint : [c EXCEPT !.active = FALSE].modified = c.modified
        BY DEF Checkpoint
    <2>6. /\ DOMAIN checkpoints' = DOMAIN checkpoints
          /\ \A i \in DOMAIN checkpoints :
                checkpoints'[i] \in {checkpoints[i], [checkpoints[i] EXCEPT !.active = FALSE]}
        BY <1>3 DEF MarkRolledBack
    <2>7. \A i \in DOMAIN checkpoints : checkpoints'[i].modified = checkpoints[i].modified
        BY <2>4, <2>5, <2>6
    <2>8. \A i \in DOMAIN checkpoints' : Tracked(checkpoints'[i].modified, Known')
        BY <2>2, <2>6, <2>7 DEF SurvivorInv
    <2>9. QED  BY <1>0, <2>1, <2>2, <2>8, SurvivorFrame DEF UndoTracked
<1>4. CASE RollbackDies
    <2>1. UNCHANGED <<rows, checkpoints, run, client, removed>> /\ undo' = None
        BY <1>4 DEF RollbackDies, UndoOnly
    <2>2. Known' = Known
        BY <2>1 DEF Known, Present
    <2>3. QED  BY <1>0, <2>1, <2>2, SurvivorFrame DEF UndoTracked
<1>5. QED  BY <1>1, <1>2, <1>3, <1>4 DEF RollbackStep

\* The ways back out of a cluster, and the next phases, keep the tables of the
\* run and do not name a survivor.
LEMMA RunKeeps ==
    ASSUME run \in RunRecord
    PROVE  /\ \A c : /\ Done(c).snap = run.snap /\ Done(c).copies = run.copies
                     /\ Done(c).pc = run.pc
                     /\ Skipped(c).snap = run.snap /\ Skipped(c).copies = run.copies
                     /\ Skipped(c).pc = run.pc
           /\ BackToJudging.snap = run.snap /\ BackToJudging.copies = run.copies
           /\ BackToJudging.pc = "judging"
           /\ SkipMerge.snap = run.snap /\ SkipMerge.copies = run.copies
           /\ SkipMerge.pc = "judging"
           /\ ToPhase4.snap = run.snap /\ ToPhase4.copies = run.copies
           /\ ToPhase4.pc = "cooling"
<1>1. \A c : /\ Done(c).snap = run.snap /\ Done(c).copies = run.copies
             /\ Done(c).pc = run.pc
             /\ Skipped(c).snap = run.snap /\ Skipped(c).copies = run.copies
             /\ Skipped(c).pc = run.pc
    BY DEF Done, Skipped, RunRecord
<1>2. /\ BackToJudging.snap = run.snap /\ BackToJudging.copies = run.copies
      /\ BackToJudging.pc = "judging"
    BY DEF BackToJudging, RunRecord
<1>3. /\ SkipMerge.snap = BackToJudging.snap /\ SkipMerge.copies = BackToJudging.copies
      /\ SkipMerge.pc = BackToJudging.pc
    BY DEF SkipMerge, BackToJudging, RunRecord
<1>4. /\ ToPhase4.snap = run.snap /\ ToPhase4.copies = run.copies
      /\ ToPhase4.pc = "cooling"
    BY DEF ToPhase4, RunRecord
<1>5. QED  BY <1>1, <1>2, <1>3, <1>4

\* A step that leaves the table, the checkpoints and the rollback alone.
LEMMA ReadOnlySurvivor ==
    ASSUME SurvivorInv, UNCHANGED <<rows, removed, checkpoints, client, undo>>,
           run'.snap \in {run.snap, NoRows, rows},
           run'.copies = run.copies \/ Tracked(run'.copies, Known),
           run'.pc # "superseding"
    PROVE  SurvivorInv'
<1>1. Known' = Known
    BY DEF Known, Present
<1>2. Tracked(rows', Known')
    BY <1>1 DEF SurvivorInv
<1>3. run'.snap = run.snap \/ Tracked(run'.snap, Known')
    BY <1>1, NoRowsTracked DEF SurvivorInv
<1>4. QED  BY <1>1, <1>2, <1>3, SurvivorFrame

LEMMA ReadingSurvivor ==
    ASSUME TypeInv, SurvivorInv,
           \/ StartRun \/ AbortRun \/ TakeSnapshot \/ AdvanceWatermark
           \/ FindClusters \/ ListCurrent \/ JudgePairs
           \/ PlanArchive \/ ListForEnrichment
           \/ \E c \in run.clusters : JudgingFails(c) \/ Decide(c)
    PROVE  SurvivorInv'
<1>0. run \in RunRecord
    BY DEF TypeInv, TypeOK
<1> DEFINE Kept == /\ run'.snap = run.snap /\ run'.copies = run.copies
                   /\ run'.pc # "superseding"
<1>a. ASSUME Kept, UNCHANGED <<rows, removed, checkpoints, client, undo>>
      PROVE  SurvivorInv'
    BY <1>a, ReadOnlySurvivor
<1> HIDE DEF Kept
<1> USE DEF RunOnly, history
<1>1. CASE StartRun
    <2>1. run'.snap = NoRows /\ run'.copies = NoRows /\ run'.pc = "listing"
        BY <1>1 DEF StartRun, Idle
    <2>2. QED  BY <1>1, <2>1, NoRowsTracked, ReadOnlySurvivor DEF StartRun
<1>2. CASE AbortRun
    <2>1. run'.snap = NoRows /\ run'.copies = NoRows /\ run'.pc = "idle"
        BY <1>2 DEF AbortRun, Idle
    <2>2. QED  BY <1>2, <2>1, NoRowsTracked, ReadOnlySurvivor DEF AbortRun
<1>3. CASE TakeSnapshot
    <2>1. run'.snap = rows /\ run'.copies = run.copies /\ run'.pc = "clustering"
        BY <1>0, <1>3 DEF TakeSnapshot, FullEnumeration, RunRecord
    <2>2. QED  BY <1>3, <2>1, ReadOnlySurvivor DEF TakeSnapshot
<1>4. CASE AdvanceWatermark
    <2>1. run'.snap = NoRows /\ run'.copies = NoRows /\ run'.pc = "idle"
        BY <1>4 DEF AdvanceWatermark, Idle
    <2>2. QED  BY <1>4, <2>1, NoRowsTracked, ReadOnlySurvivor DEF AdvanceWatermark
<1>5. CASE FindClusters
    <2>1. PICK cs, seeds :
             run' = [run EXCEPT !.pc = "judging", !.clusters = cs, !.seen = seeds]
        BY <1>5 DEF FindClusters
    <2>2. Kept
        BY <1>0, <2>1 DEF Kept, RunRecord
    <2>3. QED  BY <1>5, <1>a, <2>2 DEF FindClusters
<1>6. CASE ListCurrent
    <2>1. \/ run' = ToPhase4
          \/ run' = [run EXCEPT !.pc = "pairing", !.group = Current]
        BY <1>6 DEF ListCurrent
    <2>2. Kept
        BY <1>0, <2>1, RunKeeps DEF Kept, RunRecord
    <2>3. QED  BY <1>6, <1>a, <2>2 DEF ListCurrent
<1>7. CASE JudgePairs
    <2>1. \/ run' = ToPhase4
          \/ \E p : run' = [run EXCEPT !.pc = "resolving", !.plan = p]
        BY <1>7 DEF JudgePairs
    <2>2. Kept
        BY <1>0, <2>1, RunKeeps DEF Kept, RunRecord
    <2>3. QED  BY <1>7, <1>a, <2>2 DEF JudgePairs
<1>8. CASE PlanArchive
    <2>1. PICK cold :
             run' = [run EXCEPT !.pc = IF cold = {} THEN "capturing" ELSE "archiving",
                                !.plan = cold]
        BY <1>8 DEF PlanArchive
    <2>2. Kept
        BY <1>0, <2>1 DEF Kept, RunRecord
    <2>3. QED  BY <1>8, <1>a, <2>2 DEF PlanArchive
<1>9. CASE ListForEnrichment
    <2> DEFINE copies == [m \in Ids |-> IF m \in Current THEN rows[m] ELSE None]
               plan   == {m \in Current : rows[m].alias # rows[m].text}
    <2>1. run' = [run EXCEPT !.pc = "enriching", !.copies = copies, !.plan = plan]
        BY <1>9 DEF ListForEnrichment
    <2>2. Tracked(copies, Known)
        BY DEF SurvivorInv, Tracked
    <2> HIDE DEF copies, plan
    <2>3. run'.snap = run.snap /\ run'.copies = copies /\ run'.pc = "enriching"
        BY <1>0, <2>1 DEF RunRecord
    <2>4. QED  BY <1>9, <2>2, <2>3, ReadOnlySurvivor DEF ListForEnrichment
<1>10. ASSUME NEW c \in run.clusters, JudgingFails(c)
       PROVE  SurvivorInv'
    <2>1. Kept
        BY <1>0, <1>10, RunKeeps DEF JudgingFails, Kept
    <2>2. QED  BY <1>10, <1>a, <2>1 DEF JudgingFails
<1>11. ASSUME NEW c \in run.clusters, Decide(c)
       PROVE  SurvivorInv'
    <2>1. run.pc = "judging" /\ Done(c) \in RunRecord
        BY <1>0, <1>11, RunUpdates DEF Decide
    <2>2. \/ run' = Done(c) \/ run' = Skipped(c)
          \/ run' = [Done(c) EXCEPT !.pc = "merging", !.group = c]
          \/ \E p, b : run' = [Done(c) EXCEPT !.pc = "retiring", !.plan = p, !.stray = b]
        BY <1>11, Zenon DEF Decide
    <2>3. \A p, b :
             LET r == [Done(c) EXCEPT !.pc = "retiring", !.plan = p, !.stray = b]
             IN  r.snap = run.snap /\ r.copies = run.copies /\ r.pc = "retiring"
        BY <1>0, <2>1, RunKeeps DEF RunRecord
    <2>4. LET r == [Done(c) EXCEPT !.pc = "merging", !.group = c]
          IN  r.snap = run.snap /\ r.copies = run.copies /\ r.pc = "merging"
        BY <1>0, <2>1, RunKeeps DEF RunRecord
    <2>5. Kept
        <3>1. CASE run' = Done(c) \/ run' = Skipped(c)
            BY <1>0, <2>1, <3>1, RunKeeps DEF Kept
        <3>2. CASE run' = [Done(c) EXCEPT !.pc = "merging", !.group = c]
            BY <2>4, <3>2 DEF Kept
        <3>3. ASSUME NEW p, NEW b,
                     run' = [Done(c) EXCEPT !.pc = "retiring", !.plan = p, !.stray = b]
              PROVE  Kept
            BY <2>3, <3>3 DEF Kept
        <3>4. QED  BY <2>2, <3>1, <3>2, <3>3
    <2>6. QED  BY <1>11, <1>a, <2>5 DEF Decide
<1>12. QED  BY <1>1, <1>2, <1>3, <1>4, <1>5, <1>6, <1>7, <1>8, <1>9, <1>10, <1>11

\* A step of a run that changes one row, or none, and removes nothing.
LEMMA OneRowSurvivor ==
    ASSUME TypeInv, SurvivorInv, UNCHANGED <<removed, checkpoints, client, undo>>,
           NEW m \in Ids, NEW row \in Row,
           row.by \in Known \cup {None},
           rows' = rows \/ rows' = [rows EXCEPT ![m] = row],
           run'.snap = run.snap,
           run'.copies = run.copies \/ run'.copies = [run.copies EXCEPT ![m] = None],
           \/ run'.pc # "superseding"
           \/ run'.pc = run.pc /\ run'.into = run.into
           \/ run'.into = m /\ rows' = [rows EXCEPT ![m] = row]
    PROVE  SurvivorInv'
<1>1. rows \in Table /\ run.copies \in Table /\ row # None
    BY DEF TypeInv, TypeOK, RunRecord
<1>2. Known \subseteq Known'
    BY <1>1, KnownGrows
<1>3. Tracked(rows, Known') /\ Tracked(run.copies, Known')
    BY <1>2, TrackedGrows DEF SurvivorInv
<1>4. rows' = [rows EXCEPT ![m] = row] => m \in Known'
    BY <1>1 DEF Known, Present, Table
<1>5. Tracked(rows', Known')
    BY <1>1, <1>2, <1>3, <1>4, ChangeTracked
<1>6. run'.copies = run.copies \/ Tracked(run'.copies, Known')
    BY <1>1, <1>3, ChangeTracked
<1>7. QED  BY <1>2, <1>4, <1>5, <1>6, SurvivorFrame

LEMMA WritingSurvivor ==
    ASSUME TypeInv, SurvivorInv,
           \/ WriteMerged
           \/ \E c \in run.clusters : Dedup(c)
           \/ \E m \in run.plan : MarkSuperseded(m) \/ Retire(m) \/ Archive(m) \/ Enrich(m)
    PROVE  SurvivorInv'
<1>0. /\ run \in RunRecord /\ rows \in Table /\ run.plan \in SUBSET Ids
      /\ clock \in Nat /\ run.copies \in Table
      /\ Tracked(rows, Known) /\ Tracked(run.copies, Known)
    BY DEF TypeInv, TypeOK, RunRecord, SurvivorInv
<1> USE DEF RunChangesRows
<1>1. CASE WriteMerged
    <2>1. NewRow(FALSE) \in Row /\ NewRow(FALSE).by = None
        BY <1>0, NewRowType
    <2>2. UNCHANGED <<removed, checkpoints, client, undo>>
        BY <1>1 DEF WriteMerged
    <2>3. ASSUME NEW n \in Fresh, rows' = [rows EXCEPT ![n] = NewRow(FALSE)],
                 run' = [run EXCEPT !.pc = "superseding", !.into = n, !.plan = run.group]
          PROVE  SurvivorInv'
        <3>1. run'.snap = run.snap /\ run'.copies = run.copies /\ run'.into = n
            BY <1>0, <2>3 DEF RunRecord
        <3>2. n \in Ids
            BY DEF Fresh
        <3> DEFINE row == NewRow(FALSE)
        <3>3. row \in Row /\ row.by = None /\ rows' = [rows EXCEPT ![n] = row]
            BY <2>1, <2>3
        <3> HIDE DEF row
        <3>4. None \notin Ids
            OBVIOUS
        <3>5. QED  BY <2>2, <3>1, <3>2, <3>3, <3>4, OneRowSurvivor
    <2>4. CASE rows' = rows /\ run' = SkipMerge
        <3>1. run'.snap = run.snap /\ run'.copies = run.copies /\ run'.pc = "judging"
            BY <1>0, <2>4, RunKeeps
        <3>2. QED  BY <2>2, <2>4, <3>1, ReadOnlySurvivor
    <2>5. \/ rows' = rows /\ run' = SkipMerge
          \/ \E n \in Fresh :
               /\ rows' = [rows EXCEPT ![n] = NewRow(FALSE)]
               /\ run' = [run EXCEPT !.pc = "superseding", !.into = n, !.plan = run.group]
        BY <1>1, Zenon DEF WriteMerged
    <2>6. QED  BY <2>3, <2>4, <2>5, Zenon
<1>2. ASSUME NEW c \in run.clusters, Dedup(c)
      PROVE  SurvivorInv'
    <2>1. /\ run'.snap = run.snap /\ run'.copies = run.copies /\ run'.pc = "judging"
          /\ UNCHANGED <<removed, checkpoints, client, undo>>
        BY <1>0, <1>2, RunKeeps DEF Dedup
    <2>2. \/ rows' = rows
          \/ /\ c \subseteq Present(rows)
             /\ \E t \in c :
                  rows' = [m \in Ids |-> IF m \in c \ {t} THEN [rows[m] EXCEPT !.by = t]
                                         ELSE rows[m]]
        BY <1>2, Zenon DEF Dedup
    <2>3. ASSUME NEW t \in c, c \subseteq Present(rows),
                 rows' = [m \in Ids |-> IF m \in c \ {t} THEN [rows[m] EXCEPT !.by = t]
                                        ELSE rows[m]]
          PROVE  SurvivorInv'
        <3>1. \A m \in c : rows[m] \in Row /\ rows[m] # None
            BY <1>0, <2>3, TableUpdates DEF Present
        <3>2. t \in Ids /\ t \in Known
            BY <2>3 DEF Known, Present
        <3>3. \A m \in c : /\ [rows[m] EXCEPT !.by = t] # None
                           /\ [rows[m] EXCEPT !.by = t].by = t
            BY <3>1, <3>2, RowKeepsBy
        <3>4. \A m \in Ids : rows'[m] = IF m \in c \ {t} THEN [rows[m] EXCEPT !.by = t]
                                        ELSE rows[m]
            BY <2>3
        <3>5. \A m \in Ids : (rows'[m] # None) = (rows[m] # None)
            BY <3>1, <3>3, <3>4
        <3>6. Known' = Known
            BY <2>1, <3>5 DEF Known, Present
        <3>7. ASSUME NEW m \in Ids, rows'[m] # None
              PROVE  rows'[m].by \in Known' \cup {None}
            <4>1. CASE m \in c \ {t}
                BY <3>2, <3>3, <3>4, <3>6, <4>1
            <4>2. CASE m \notin c \ {t}
                BY <1>0, <3>4, <3>6, <3>7, <4>2 DEF Tracked
            <4>3. QED  BY <4>1, <4>2
        <3>8. Tracked(rows', Known')
            BY <3>7 DEF Tracked
        <3>9. QED  BY <2>1, <3>6, <3>8, SurvivorFrame
    <2>4. CASE rows' = rows
        BY <2>1, <2>4, ReadOnlySurvivor
    <2>5. QED  BY <2>2, <2>3, <2>4
<1>3. ASSUME NEW m \in run.plan, MarkSuperseded(m)
      PROVE  SurvivorInv'
    <2>1. m \in Ids /\ run.pc = "superseding" /\ run.into \in Known \cup {None}
        BY <1>0, <1>3 DEF MarkSuperseded, SurvivorInv
    <2>2. UNCHANGED <<removed, checkpoints, client, undo>>
        BY <1>3 DEF MarkSuperseded
    <2>3. [run EXCEPT !.plan = run.plan \ {m}].snap = run.snap
          /\ [run EXCEPT !.plan = run.plan \ {m}].copies = run.copies
          /\ [run EXCEPT !.plan = run.plan \ {m}].pc = run.pc
          /\ [run EXCEPT !.plan = run.plan \ {m}].into = run.into
        BY <1>0 DEF RunRecord
    <2>4. run' \in {BackToJudging, SkipMerge, [run EXCEPT !.plan = run.plan \ {m}]}
        BY <1>3 DEF MarkSuperseded
    <2>5. /\ run'.snap = run.snap /\ run'.copies = run.copies
          /\ run'.pc # "superseding" \/ (run'.pc = run.pc /\ run'.into = run.into)
        BY <1>0, <2>3, <2>4, RunKeeps
    <2>6. \/ rows' = rows
          \/ rows[m] # None /\ rows' = [rows EXCEPT ![m] = [rows[m] EXCEPT !.by = run.into]]
        BY <1>3 DEF MarkSuperseded
    <2>7. Tracked(rows', Known) /\ Known \subseteq Known'
        <3> DEFINE row == [rows[m] EXCEPT !.by = run.into]
        <3>1. rows[m] # None => row # None /\ row.by = run.into
            BY <1>0, <2>1, TableUpdates, RowKeepsBy DEF RunRecord
        <3>2. rows' = rows \/ (row # None /\ row.by = run.into /\ rows' = [rows EXCEPT ![m] = row])
            BY <2>6, <3>1
        <3> HIDE DEF row
        <3>3. Known \subseteq Known'
            BY <1>0, <2>1, <2>2, <3>2, KnownGrows
        <3>4. QED  BY <1>0, <2>1, <3>2, <3>3, ChangeTracked
    <2>8. Tracked(rows', Known')
        BY <2>7, TrackedGrows
    <2>9. QED  BY <2>2, <2>5, <2>7, <2>8, SurvivorFrame
<1>4. ASSUME NEW m \in run.plan, Retire(m)
      PROVE  SurvivorInv'
    <2>1. m \in Ids /\ UNCHANGED <<removed, checkpoints, client, undo>>
        BY <1>0, <1>4 DEF Retire
    <2>2. run' \in {BackToJudging, ToPhase4, [run EXCEPT !.plan = run.plan \ {m}]}
        BY <1>4 DEF Retire
    <2>3. run.pc # "superseding"
        BY <1>4 DEF Retire
    <2>4. run'.snap = run.snap /\ run'.copies = run.copies /\ run'.pc # "superseding"
        BY <1>0, <2>2, <2>3, RunKeeps DEF RunRecord
    <2>5. \/ rows' = rows
          \/ rows[m] # None /\ rows' = [rows EXCEPT ![m] = [rows[m] EXCEPT !.valid = FALSE]]
        BY <1>4 DEF Retire
    <2>6. ASSUME rows[m] # None
          PROVE  /\ [rows[m] EXCEPT !.valid = FALSE] \in Row
                 /\ [rows[m] EXCEPT !.valid = FALSE].by = rows[m].by
                 /\ rows[m].by \in Known \cup {None}
        BY <1>0, <2>1, <2>6, TableUpdates, RowUpdates, RowKeepsBy DEF Tracked
    <2> DEFINE row == [rows[m] EXCEPT !.valid = FALSE]
    <2> HIDE DEF row
    <2>7. CASE rows' = rows
        BY <2>1, <2>4, <2>7, ReadOnlySurvivor
    <2>8. CASE rows[m] # None /\ rows' = [rows EXCEPT ![m] = row]
        <3>1. row \in Row /\ row.by \in Known \cup {None}
            BY <2>6, <2>8 DEF row
        <3>2. QED  BY <2>1, <2>4, <2>8, <3>1, OneRowSurvivor
    <2>9. QED  BY <2>5, <2>7, <2>8 DEF row
<1>5. ASSUME NEW m \in run.plan, Archive(m)
      PROVE  SurvivorInv'
    <2>1. m \in Ids /\ UNCHANGED <<removed, checkpoints, client, undo>>
        BY <1>0, <1>5 DEF Archive
    <2>2. PICK pc \in {"capturing", "archiving"} :
             run' = [run EXCEPT !.pc = pc, !.plan = run.plan \ {m}]
        BY <1>0, <1>5 DEF Archive, RunRecord
    <2>3. run'.snap = run.snap /\ run'.copies = run.copies /\ run'.pc # "superseding"
        BY <1>0, <2>2 DEF RunRecord
    <2>4. \/ rows' = rows
          \/ rows[m] # None /\ rows' = [rows EXCEPT ![m] = [rows[m] EXCEPT !.archived = TRUE]]
        BY <1>5 DEF Archive
    <2>5. ASSUME rows[m] # None
          PROVE  /\ [rows[m] EXCEPT !.archived = TRUE] \in Row
                 /\ [rows[m] EXCEPT !.archived = TRUE].by = rows[m].by
                 /\ rows[m].by \in Known \cup {None}
        BY <1>0, <2>1, <2>5, TableUpdates, RowUpdates, RowKeepsBy DEF Tracked
    <2> DEFINE row == [rows[m] EXCEPT !.archived = TRUE]
    <2> HIDE DEF row
    <2>6. CASE rows' = rows
        BY <2>1, <2>3, <2>6, ReadOnlySurvivor
    <2>7. CASE rows[m] # None /\ rows' = [rows EXCEPT ![m] = row]
        <3>1. row \in Row /\ row.by \in Known \cup {None}
            BY <2>5, <2>7 DEF row
        <3>2. QED  BY <2>1, <2>3, <2>7, <3>1, OneRowSurvivor
    <2>8. QED  BY <2>4, <2>6, <2>7 DEF row
<1>6. ASSUME NEW m \in run.plan, Enrich(m)
      PROVE  SurvivorInv'
    <2>1. m \in Ids /\ UNCHANGED <<removed, checkpoints, client, undo>>
        BY <1>0, <1>6 DEF Enrich
    <2>2. run.pc = "enriching" /\ run.copies[m] # None
        BY <1>6 DEF Enrich, TypeInv, CopiesInv
    <2>3. run' = [run EXCEPT !.plan = run.plan \ {m}, !.copies = [run.copies EXCEPT ![m] = None]]
        BY <1>0, <1>6 DEF Enrich, RunRecord
    <2>4. /\ run'.snap = run.snap /\ run'.copies = [run.copies EXCEPT ![m] = None]
          /\ run'.pc # "superseding"
        BY <1>0, <2>2, <2>3 DEF RunRecord
    <2> DEFINE row == [run.copies[m] EXCEPT !.alias = run.copies[m].text]
    <2>5. row \in Row /\ row.by = run.copies[m].by
        BY <1>0, <2>1, <2>2, TableUpdates, RowUpdates, RowKeepsBy
    <2>6. row.by \in Known \cup {None}
        BY <1>0, <2>1, <2>2, <2>5 DEF Tracked
    <2>7. rows' = rows \/ rows' = [rows EXCEPT ![m] = row]
        BY <1>6 DEF Enrich
    <2> HIDE DEF row
    <2>8. QED  BY <2>1, <2>4, <2>5, <2>6, <2>7, OneRowSurvivor
<1>7. QED  BY <1>1, <1>2, <1>3, <1>4, <1>5, <1>6

\* A checkpoint takes its pre-images from the snapshot.
LEMMA CaptureSurvivor ==
    ASSUME TypeInv, SurvivorInv, CaptureCheckpoint
    PROVE  SurvivorInv'
<1>0. /\ run \in RunRecord /\ rows \in Table /\ clock \in Nat
      /\ checkpoints \in Seq(Checkpoint)
      /\ Tracked(rows, Known) /\ Tracked(run.snap, Known)
    BY DEF TypeInv, TypeOK, SurvivorInv
<1> DEFINE entry == [run      |-> clock,
                     modified |-> Modified(run.snap, FullEnumeration),
                     created  |-> Created(run.snap, FullEnumeration),
                     active   |-> TRUE,
                     before   |-> run.before]
<1>1. entry \in Checkpoint
    BY <1>0, DiffType DEF FullEnumeration, RunRecord, Checkpoint
<1>2. Tracked(entry.modified, Known)
    BY <1>0 DEF Tracked, Modified
<1>3. checkpoints' = checkpoints \/ checkpoints' = Newest(Append(checkpoints, entry))
    BY Zenon DEF CaptureCheckpoint, create_checkpoint
<1>4. UNCHANGED <<rows, client, undo, history>>
    BY DEF CaptureCheckpoint
<1>5. run' = [run EXCEPT !.pc = "enumerating", !.snap = NoRows, !.before = NoRows]
    BY DEF CaptureCheckpoint
<1> HIDE DEF entry
<1>6. run'.snap = NoRows /\ run'.copies = run.copies /\ run'.pc = "enumerating"
    BY <1>0, <1>5 DEF RunRecord
<1>7. Known' = Known
    BY <1>4 DEF Known, Present, history
<1>8. \A i \in DOMAIN Append(checkpoints, entry) :
         Tracked(Append(checkpoints, entry)[i].modified, Known)
    <2>1. \A i \in DOMAIN checkpoints : Tracked(checkpoints[i].modified, Known)
        BY DEF SurvivorInv
    <2>2. QED  BY <1>0, <1>1, <1>2, <2>1, AppendProperties, LenProperties
<1>9. Append(checkpoints, entry) \in Seq(Checkpoint)
    BY <1>0, <1>1, AppendProperties
<1>10. \A i \in DOMAIN Newest(Append(checkpoints, entry)) :
          Tracked(Newest(Append(checkpoints, entry))[i].modified, Known)
    <2>1. \A i \in DOMAIN Newest(Append(checkpoints, entry)) :
             \E j \in DOMAIN Append(checkpoints, entry) :
                Newest(Append(checkpoints, entry))[i] = Append(checkpoints, entry)[j]
        BY <1>9, NewestKeeps
    <2>2. QED  BY <1>8, <2>1
<1>11. \/ checkpoints' = checkpoints
       \/ \A i \in DOMAIN checkpoints' : Tracked(checkpoints'[i].modified, Known')
    BY <1>3, <1>7, <1>10
<1>12. QED  BY <1>0, <1>4, <1>6, <1>7, <1>11, NoRowsTracked, SurvivorFrame

LEMMA NextSurvivor ==
    ASSUME TypeInv, SurvivorInv, [Next]_vars
    PROVE  TypeInv' /\ SurvivorInv'
<1>1. TypeInv'
    BY NextTyped
<1>2. CASE ClientStep
    BY <1>1, <1>2, ClientSurvivor
<1>3. CASE RunStep
    BY <1>1, <1>3, ReadingSurvivor, WritingSurvivor, CaptureSurvivor DEF RunStep
<1>4. CASE RollbackStep
    BY <1>1, <1>4, RollbackSurvivor
<1>5. CASE UNCHANGED vars
    <2>1. Known' = Known
        BY <1>5 DEF Known, Present, vars, history
    <2>2. Tracked(rows', Known')
        BY <1>5, <2>1 DEF vars, SurvivorInv
    <2>3. UNCHANGED <<run, client, checkpoints, undo>>
        BY <1>5 DEF vars
    <2>4. QED  BY <1>1, <2>1, <2>2, <2>3, SurvivorFrame
<1>6. QED  BY <1>2, <1>3, <1>4, <1>5 DEF Next

\* What a superseded memory points at is in the table or was deleted by name,
\* whatever runs, crashes, skipped clusters, clients and rollbacks do.
THEOREM SurvivorsExisted == Spec => []SurvivorExisted
<1>1. TypeInv /\ SurvivorInv /\ [Next]_vars => TypeInv' /\ SurvivorInv'
    BY NextSurvivor
<1>2. SurvivorInv => SurvivorExisted
    BY DEF SurvivorInv, SurvivorExisted, Tracked, Known, Present
<1>3. QED  BY <1>1, <1>2, InitTyped, InitSurvivor, PTL DEF Spec
=============================================================================
