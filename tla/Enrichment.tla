----------------------------- MODULE Enrichment -----------------------------
(***************************************************************************)
(* The nightly decay and enrichment passes beside the client operations    *)
(* they share the rows with, and what these leave in the derived stores:   *)
(* the keyword index (in RAM, rebuilt at start) and the knowledge graph    *)
(* (in RAM, persisted as one sealed snapshot at the end of a pass).        *)
(*                                                                         *)
(* enrich_facts reads all active rows, asks the model for one after the    *)
(* other and writes back the whole row it read; Adapter::update also reads *)
(* a row, embeds, and writes the row back.  Neither holds a lock between.  *)
(* A content is a number, fp is the content the stored fingerprint was     *)
(* computed from (0: none), and a fact's edges are the contents they were  *)
(* extracted from.                                                         *)
(***************************************************************************)
EXTENDS Naturals, FiniteSets

CONSTANTS
  EFacts,       \* memory ids
  EClients,     \* requests in flight through the adapter
  EMaxContent,  \* bound: contents ever written
  EMaxCrash     \* bound: process restarts

ASSUME EnrichAssumption == EMaxContent \in Nat \ {0} /\ EMaxCrash \in Nat

VARIABLES
  row,          \* [EFacts -> [c, fp, st]]: the memories table
  kw,           \* [EFacts -> content in the keyword index, 0 if none]
  edges,        \* [EFacts -> contents with live edges in the graph in memory]
  sealed,       \* [EFacts -> the same in the snapshot on disk]
  phase,        \* "idle", "decay", "facts", "reconcile", "flush"
  seen,         \* [EFacts -> the row the pass read]
  todo,         \* facts the pass has still to visit
  req,          \* [EClients -> request: op, fact, row it read, step]
  written,      \* contents handed out so far
  restarts,
  \* history
  lost,         \* facts whose extraction is marked done while the graph holds another
  stale,        \* facts indexed out of order, or whose row the pass put back
  settled       \* no row changed since the last complete pass began

enrichVars == <<row, kw, edges, sealed, phase, seen, todo, req, written,
                restarts, lost, stale, settled>>

Contents == 1..EMaxContent
Standings == {"absent", "active", "retired", "archived", "deleted"}
NoReq == [op |-> "none"]
Rows == [c : 0..EMaxContent, fp : 0..EMaxContent, st : Standings]
Exists(f) == row[f].st \notin {"absent", "deleted"}
Active == {f \in EFacts : row[f].st = "active"}

EnrichTypeOK ==
  /\ row \in [EFacts -> Rows]
  /\ kw \in [EFacts -> 0..EMaxContent]
  /\ edges \in [EFacts -> SUBSET Contents]
  /\ sealed \in [EFacts -> SUBSET Contents]
  /\ phase \in {"idle", "decay", "facts", "reconcile", "flush"}
  /\ seen \in [EFacts -> Rows]
  /\ todo \subseteq EFacts
  /\ req \in [EClients -> {NoReq} \cup
                [op : {"update", "index", "unindex"}, f : EFacts, saw : Rows]]
  /\ written \in 0..EMaxContent
  /\ restarts \in 0..EMaxCrash
  /\ lost \subseteq EFacts
  /\ stale \subseteq EFacts
  /\ settled \in BOOLEAN

NoRow == [c |-> 0, fp |-> 0, st |-> "absent"]

\* A new vault, or the first start after the upgrade that seals the graph: the
\* plaintext graph has been imported into memory and its file removed.
EnrichInit ==
  /\ \/ row = [f \in EFacts |-> NoRow] /\ edges = [f \in EFacts |-> {}] /\ written = 0
     \/ \E g \in EFacts :
          /\ row = [f \in EFacts |->
                      IF f = g THEN [c |-> 1, fp |-> 1, st |-> "active"] ELSE NoRow]
          /\ edges = [f \in EFacts |-> IF f = g THEN {1} ELSE {}]
          /\ written = 1
  /\ kw = [f \in EFacts |-> row[f].c]
  /\ sealed = [f \in EFacts |-> {}]
  /\ phase = "idle"
  /\ seen = [f \in EFacts |-> NoRow]
  /\ todo = {}
  /\ req = [k \in EClients |-> NoReq]
  /\ restarts = 0
  /\ lost = {} /\ stale = {} /\ settled = FALSE

passVars  == <<phase, seen, todo>>
graphMem  == <<edges, sealed>>
bounds    == <<written, restarts>>

-----------------------------------------------------------------------------
\* Client operations (adapter.rs).

\* Adapter::write: the row, then (a later step) the keyword index.
ClientWrite(k, f) ==
  /\ req[k] = NoReq /\ row[f].st = "absent" /\ written < EMaxContent
  /\ written' = written + 1
  /\ row' = [row EXCEPT ![f] = [c |-> written', fp |-> 0, st |-> "active"]]
  /\ req' = [req EXCEPT ![k] = [op |-> "index", f |-> f, saw |-> row'[f]]]
  /\ settled' = FALSE
  /\ UNCHANGED <<kw, graphMem, passVars, restarts, lost, stale>>

\* Adapter::update, first half: read the row that exists.
ClientRead(k, f) ==
  /\ req[k] = NoReq /\ Exists(f) /\ written < EMaxContent
  /\ req' = [req EXCEPT ![k] = [op |-> "update", f |-> f, saw |-> row[f]]]
  /\ UNCHANGED <<row, kw, graphMem, passVars, bounds, lost, stale, settled>>

\* Second half: the new content with the preserved fields of the row read; the
\* archive marker is not among them.  A row deleted meanwhile is NotFound.
Patched(saw, content) ==
  [c |-> content, fp |-> saw.fp, st |-> IF saw.st = "archived" THEN "active" ELSE saw.st]

\* Mutant: the update leaves the keyword index alone.
ClientUpdateUnindexed(k) ==
  /\ req[k].op = "update" /\ written < EMaxContent
  /\ written' = written + 1
  /\ row' = [row EXCEPT ![req[k].f] = IF Exists(req[k].f)
                                     THEN Patched(req[k].saw, written') ELSE @]
  /\ req' = [req EXCEPT ![k] = NoReq]
  /\ settled' = FALSE
  /\ UNCHANGED <<kw, graphMem, passVars, restarts, lost, stale>>

ClientUpdate(k) ==
  /\ req[k].op = "update"
  /\ LET f == req[k].f
     IN  IF Exists(f)
         THEN /\ written < EMaxContent
              /\ written' = written + 1
              /\ row' = [row EXCEPT ![f] = Patched(req[k].saw, written')]
              /\ req' = [req EXCEPT ![k] = [op |-> "index", f |-> f, saw |-> row'[f]]]
              /\ settled' = FALSE
         ELSE req' = [req EXCEPT ![k] = NoReq] /\ UNCHANGED <<row, written, settled>>
  /\ UNCHANGED <<kw, graphMem, passVars, restarts, lost, stale>>

ClientDelete(k, f) ==
  /\ req[k] = NoReq /\ Exists(f)
  /\ row' = [row EXCEPT ![f] = [c |-> 0, fp |-> 0, st |-> "deleted"]]
  /\ req' = [req EXCEPT ![k] = [op |-> "unindex", f |-> f, saw |-> NoRow]]
  /\ settled' = FALSE
  /\ UNCHANGED <<kw, graphMem, passVars, bounds, lost, stale>>

\* maintain_keyword_index_upsert / _delete, after the row is committed; another
\* request may have written the row since.
Index(k) ==
  /\ req[k].op \in {"index", "unindex"}
  /\ LET f == req[k].f
     IN  /\ kw' = [kw EXCEPT ![f] = req[k].saw.c]
         /\ stale' = IF row[f].c = req[k].saw.c THEN stale \ {f} ELSE stale \cup {f}
  /\ req' = [req EXCEPT ![k] = NoReq]
  /\ UNCHANGED <<row, graphMem, passVars, bounds, lost, settled>>

\* Earlier phases of the run retire a fact (merge, contradiction) or archive it.
Leave(f, st) ==
  /\ phase = "idle" /\ row[f].st = "active" /\ st \in {"retired", "archived"}
  /\ row' = [row EXCEPT ![f].st = st]
  /\ settled' = FALSE
  /\ UNCHANGED <<kw, graphMem, passVars, req, bounds, lost, stale>>

\* decay_memories lists the rows and plans for those long untouched.
DecayBegin(plan) ==
  /\ phase = "idle" /\ plan # {} /\ plan \subseteq Active
  /\ phase' = "decay"
  /\ seen' = row
  /\ todo' = plan
  /\ UNCHANGED <<row, kw, graphMem, req, bounds, lost, stale, settled>>

\* apply_decay takes the row of the moment, NotFound when it is gone, and gives it the
\* metadata that were listed, the fingerprint among them.  A failure is logged.
DecayFact(f, ok) ==
  /\ phase = "decay" /\ f \in todo
  /\ todo' = todo \ {f}
  /\ row' = IF ok /\ Exists(f) THEN [row EXCEPT ![f].fp = seen[f].fp] ELSE row
  /\ UNCHANGED <<kw, graphMem, phase, seen, req, bounds, lost, stale, settled>>

DecayEnds ==
  /\ phase = "decay" /\ todo = {}
  /\ phase' = "idle"
  /\ seen' = [f \in EFacts |-> NoRow]
  /\ UNCHANGED <<row, kw, graphMem, todo, req, bounds, lost, stale, settled>>

-----------------------------------------------------------------------------
\* The pass (enrich_facts).

PassBegin ==
  /\ phase = "idle"
  /\ phase' = "facts"
  /\ seen' = row
  /\ todo' = Active
  /\ settled' = TRUE
  /\ UNCHANGED <<row, kw, graphMem, req, bounds, lost, stale>>

Current(r) == r.fp = r.c

\* enrich_one returns None, or the model or the embedder fails: nothing written.
EnrichNothing(f) ==
  /\ phase = "facts" /\ f \in todo
  /\ todo' = todo \ {f}
  /\ settled' = (settled /\ Current(seen[f]))
  /\ UNCHANGED <<row, kw, graphMem, phase, seen, req, bounds, lost, stale>>

\* What the graph holds of a fact after its old edges were retired and those just
\* extracted written; either may fail, and the other is done all the same.
Extracted(f, fails) ==
  (IF fails = "retire" THEN edges[f] ELSE {}) \cup (IF fails = "write" THEN {} ELSE {seen[f].c})

Regraph(f, fails) ==
  /\ edges' = [edges EXCEPT ![f] = Extracted(f, fails)]
  /\ lost' = IF edges'[f] = {seen[f].c} THEN lost \ {f} ELSE lost \cup {f}

\* Mutant: the row is written whether it is still there or not.
EnrichUpsert(f, fails) ==
  /\ phase = "facts" /\ f \in todo /\ ~ Current(seen[f])
  /\ todo' = todo \ {f}
  /\ row' = [row EXCEPT ![f] = [seen[f] EXCEPT !.fp = seen[f].c]]
  /\ Regraph(f, fails)
  /\ stale' = IF row[f] # seen[f] THEN stale \cup {f} ELSE stale
  /\ UNCHANGED <<kw, sealed, phase, seen, req, bounds, settled>>

\* update_memory with the row read at the start of the pass (NotFound when it is
\* gone), then the graph.
EnrichStore(f, fails) ==
  /\ phase = "facts" /\ f \in todo /\ ~ Current(seen[f])
  /\ todo' = todo \ {f}
  /\ IF Exists(f)
     THEN /\ row' = [row EXCEPT ![f] = [seen[f] EXCEPT !.fp = seen[f].c]]
          /\ Regraph(f, fails)
          /\ stale' = IF row[f] # seen[f] THEN stale \cup {f} ELSE stale
          /\ settled' = settled
     ELSE /\ UNCHANGED <<row, edges, lost, stale>>
          /\ settled' = FALSE
  /\ UNCHANGED <<kw, sealed, phase, seen, req, bounds>>

FactsDone ==
  /\ phase = "facts" /\ todo = {}
  /\ phase' = "reconcile"
  /\ UNCHANGED <<row, kw, graphMem, seen, todo, req, bounds, lost, stale, settled>>

\* Mutant: facts no longer in force keep their edges.
ReconcileNothing ==
  /\ phase = "reconcile"
  /\ phase' = "flush"
  /\ UNCHANGED <<row, kw, graphMem, seen, todo, req, bounds, lost, stale, settled>>

\* Every row of the table that was not active when the pass began sheds its
\* edges; a deleted fact has no row and is not visited.
Reconcile ==
  /\ phase = "reconcile"
  /\ edges' = [f \in EFacts |->
                 IF Exists(f) /\ seen[f].st # "active" THEN {} ELSE edges[f]]
  /\ phase' = "flush"
  /\ UNCHANGED <<row, kw, sealed, seen, todo, req, bounds, lost, stale, settled>>

\* flush: dump, seal, write a temporary file, rename.  A failure is logged.
Flush(ok) ==
  /\ phase = "flush"
  /\ sealed' = IF ok THEN edges ELSE sealed
  /\ phase' = "idle"
  /\ seen' = [f \in EFacts |-> NoRow]
  /\ UNCHANGED <<row, kw, edges, todo, req, bounds, lost, stale, settled>>

-----------------------------------------------------------------------------
\* The process ends and the vault is opened again: the graph is what was
\* sealed, the keyword index is loaded from the rows in force.
Restart ==
  /\ restarts < EMaxCrash
  /\ restarts' = restarts + 1
  /\ edges' = sealed
  /\ lost' = lost \cup {f \in EFacts : sealed[f] # edges[f]}
  /\ kw' = [f \in EFacts |-> IF row[f].st \in {"active", "retired"} THEN row[f].c ELSE 0]
  /\ stale' = {}
  /\ phase' = "idle" /\ todo' = {} /\ seen' = [f \in EFacts |-> NoRow]
  /\ req' = [k \in EClients |-> NoReq]
  /\ settled' = FALSE
  /\ UNCHANGED <<row, sealed, written>>

ClientNext ==
  \E k \in EClients :
    \/ \E f \in EFacts : ClientWrite(k, f) \/ ClientRead(k, f) \/ ClientDelete(k, f)
    \/ ClientUpdate(k)
    \/ Index(k)

PassNext ==
  \/ \E plan \in SUBSET EFacts : DecayBegin(plan)
  \/ \E f \in EFacts, ok \in BOOLEAN : DecayFact(f, ok)
  \/ DecayEnds
  \/ PassBegin
  \/ \E f \in EFacts : EnrichNothing(f)
  \/ \E f \in EFacts, fails \in {"no", "retire", "write"} : EnrichStore(f, fails)
  \/ FactsDone
  \/ Reconcile
  \/ \E ok \in BOOLEAN : Flush(ok)

EnrichNext ==
  \/ ClientNext
  \/ PassNext
  \/ \E f \in EFacts, st \in {"retired", "archived"} : Leave(f, st)
  \/ Restart

EnrichSpec == EnrichInit /\ [][EnrichNext]_enrichVars

-----------------------------------------------------------------------------
\* Properties.

\* After a pass that met no concurrent write and no model failure, the live
\* edges are exactly those of the current content of each fact in force.  Two
\* kinds of fact are out of the pass's reach, and only those: one deleted, and
\* one whose extraction was recorded as done while the graph holds something else
\* (`lost': a failed graph write, or a restart before the snapshot was written).
GraphFollowsFacts ==
  phase = "idle" /\ settled =>
    \A f \in EFacts \ lost :
      row[f].st # "deleted" =>
        edges[f] = IF row[f].st = "active" THEN {row[f].c} ELSE {}

\* With no request in flight the keyword index serves the stored text of every
\* fact in force, except where two requests for one fact reached the index in
\* the other order than the table, or the pass put back an older row (it writes
\* the row but not the index); a start repairs both.
IndexFollowsRows ==
  (\A k \in EClients : req[k] = NoReq) =>
    \A f \in EFacts \ stale : row[f].st \in {"active", "deleted"} => kw[f] = row[f].c

\* A row never comes back once deleted, and a row leaves "retired" for "active"
\* only by a write that had read it before it was retired: the enrichment, never
\* the decay, or an update still in flight.
DeletedStaysDeleted ==
  [][\A f \in EFacts :
       /\ row[f].st = "deleted" => row'[f].st \in {"deleted"}
       /\ row[f].st = "retired" /\ row'[f].st = "active" =>
            \/ phase = "facts" /\ f \in todo /\ seen[f].st = "active"
            \/ \E k \in EClients : req[k].op = "update" /\ req[k].f = f
                                   /\ req[k].saw.st \in {"active", "archived"}]_enrichVars
=============================================================================
