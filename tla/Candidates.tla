----------------------------- MODULE Candidates -----------------------------
(***************************************************************************)
(* How a consolidation run finds the facts it compares, in one boundary:   *)
(* the clusters of phase 1 (phases/cluster.rs) and the pairs phase 2b      *)
(* judges (phases/candidates.rs, phases/contradiction.rs).  Rows are in    *)
(* SQLite and vectors in LanceDB; the pass reads the rows once and asks    *)
(* the vector store seed by seed, with an embedding before each search,    *)
(* while clients write, retire and delete and the cascade brings the       *)
(* vectors after.                                                          *)
(*                                                                         *)
(* A fact is a number, its place a point on a line, and two facts are near *)
(* when their cosine would clear the threshold.                            *)
(***************************************************************************)
EXTENDS Naturals, FiniteSets, FiniteSetsExt

CONSTANTS
  CFacts,          \* ids, in their order
  CVaults,         \* their embeddings' places, valid_from, and which are recent
  CNear,           \* 1 - threshold
  CTopK,           \* TOP_K_NEIGHBORS, CONTRADICTION_NN_TOP_K
  CMaxChanges      \* bound: changes beside the pass

ASSUME CandidatesAssumption ==
  /\ CFacts \subseteq Nat \ {0} /\ IsFiniteSet(CFacts)
  /\ CVaults \subseteq [CFacts -> [place : Nat, from : Nat, new : BOOLEAN]]
  /\ CNear \in Nat /\ CTopK \in Nat /\ CMaxChanges \in Nat

VARIABLES
  fact,            \* fact -> place, valid_from, created since the watermark
  rowOf,           \* fact -> "none", "active" or "retired"
  vectorOf,        \* the facts with a vector
  pass,            \* the phase under way
  parentOf,        \* the disjoint-set forest
  cchanges,
  \* history
  indexed,         \* facts with a vector at some moment of the pass
  constant         \* facts in force, with their vector, all the time of the pass

candVars == <<fact, rowOf, vectorOf, pass, parentOf, cchanges, indexed, constant>>

NoPass == [at |-> "idle", phase |-> "merge", full |-> FALSE, seeds |-> {}, active |-> {},
           todo |-> {}, edges |-> {}, left |-> {}, groups |-> {}, clashes |-> {}, stale |-> {}]

Pairs == {{a, b} : a, b \in CFacts}

CandTypeOK ==
  /\ fact \in CVaults
  /\ rowOf \in [CFacts -> {"none", "active", "retired"}]
  /\ vectorOf \subseteq CFacts
  /\ pass \in [at : {"idle", "seeds", "active", "search", "join", "judge", "done"},
               phase : {"merge", "contradict"}, full : BOOLEAN,
               seeds : SUBSET CFacts, active : SUBSET CFacts, todo : SUBSET CFacts,
               edges : SUBSET Pairs, left : SUBSET Pairs, groups : SUBSET (SUBSET CFacts),
               clashes : SUBSET Pairs, stale : SUBSET CFacts]
  /\ parentOf \in [CFacts -> CFacts]
  /\ cchanges \in 0..CMaxChanges
  /\ indexed \subseteq CFacts /\ constant \subseteq CFacts

ActiveFacts == {m \in CFacts : rowOf[m] = "active"}
SeedFacts   == {m \in ActiveFacts : pass.full \/ fact[m].new}

Apart(a, b) == IF fact[a].place > fact[b].place THEN fact[a].place - fact[b].place
               ELSE fact[b].place - fact[a].place
Near(a, b) == Apart(a, b) <= CNear

\* Any vault; a retired or deleted fact may still have its vector.
CandInit ==
  /\ fact \in CVaults
  /\ rowOf \in [CFacts -> {"none", "active", "retired"}]
  /\ vectorOf \in {V \in SUBSET CFacts : \A m \in CFacts \ V : rowOf[m] = "none"}
  /\ pass = NoPass
  /\ parentOf = [m \in CFacts |-> m]
  /\ cchanges = 0
  /\ indexed = {} /\ constant = {}

-----------------------------------------------------------------------------
\* Clients and the cascade.

Beside(m, row, vectors) ==
  /\ cchanges < CMaxChanges
  /\ cchanges' = cchanges + 1
  /\ rowOf' = [rowOf EXCEPT ![m] = row]
  /\ vectorOf' = vectors
  /\ indexed' = indexed \cup vectors
  /\ constant' = constant \ {n \in CFacts : rowOf'[n] # "active" \/ n \notin vectors}
  /\ UNCHANGED <<fact, pass, parentOf>>

\* The vector follows the row, and lingers when the row is retired or deleted.
Write(m)         == rowOf[m] = "none" /\ m \notin vectorOf /\ fact[m].new
                    /\ Beside(m, "active", vectorOf)
VectorArrives(m) == rowOf[m] = "active" /\ m \notin vectorOf
                    /\ Beside(m, "active", vectorOf \cup {m})
RetireRow(m)     == rowOf[m] = "active" /\ Beside(m, "retired", vectorOf)
Delete(m)        == rowOf[m] # "none" /\ Beside(m, "none", vectorOf)
VectorLeaves(m)  == rowOf[m] = "none" /\ m \in vectorOf /\ Beside(m, "none", vectorOf \ {m})

-----------------------------------------------------------------------------
\* The pass.

Proceeds(new) == /\ pass' = new
                 /\ UNCHANGED <<fact, rowOf, vectorOf, cchanges, indexed, constant>>

\* Phase 1 lists the seeds first, phase 2b what is active.
Begin(phase, full) ==
  /\ pass.at = "idle"
  /\ pass' = [NoPass EXCEPT !.phase = phase, !.full = full,
                            !.at = IF phase = "merge" THEN "seeds" ELSE "active"]
  /\ indexed' = vectorOf
  /\ constant' = ActiveFacts \cap vectorOf
  /\ UNCHANGED <<fact, rowOf, vectorOf, parentOf, cchanges>>

\* A full sweep takes the active facts as its seeds without reading again.
ListSeeds ==
  /\ pass.at = "seeds"
  /\ LET merge == pass.phase = "merge"
         seeds == IF ~ merge /\ pass.full THEN pass.active ELSE SeedFacts
     IN Proceeds(
          IF seeds = {} THEN [pass EXCEPT !.at = "done"]
          ELSE [pass EXCEPT !.seeds = seeds, !.todo = seeds,
                            !.active = IF merge /\ pass.full THEN seeds ELSE pass.active,
                            !.at = IF ~ merge THEN "search"
                                   ELSE IF ~ pass.full THEN "active"
                                   ELSE IF Cardinality(seeds) < 2 THEN "done" ELSE "search"])
  /\ UNCHANGED parentOf

ListActive ==
  /\ pass.at = "active"
  /\ Proceeds(
       IF Cardinality(ActiveFacts) < 2 THEN [pass EXCEPT !.at = "done"]
       ELSE [pass EXCEPT !.active = ActiveFacts,
                         !.at = IF pass.phase = "merge" THEN "search" ELSE "seeds"])
  /\ UNCHANGED parentOf

\* The n of them nearest to s; which ones among equals is not determined.
NearestOf(s, n, among) ==
  {H \in SUBSET among :
     /\ Cardinality(H) = IF Cardinality(among) < n THEN Cardinality(among) ELSE n
     /\ \A h \in H, v \in among \ H : Apart(s, h) <= Apart(s, v)}

\* Mutant: the place the fact itself takes is forgotten.
HitsWithoutSelf(s) == NearestOf(s, CTopK, vectorOf)

\* One more than wanted, for the fact itself.  A full sweep of phase 2b compares the
\* rows it listed and does not ask the vector store.
Hits(s) ==
  IF pass.phase = "contradict" /\ pass.full THEN NearestOf(s, CTopK, pass.active \ {s})
  ELSE NearestOf(s, CTopK + 1, vectorOf)

\* What is not active any more, or was not when it was listed, is dropped; phase 2b
\* also needs the seed among the rows it listed.
SearchSeed(s) ==
  /\ pass.at = "search" /\ s \in pass.todo
  /\ \E hits \in Hits(s) :
       LET kept  == {h \in hits \ {s} : Near(s, h) /\ h \in pass.active}
           found == IF pass.phase = "contradict" /\ s \notin pass.active THEN {}
                    ELSE {{s, h} : h \in kept}
           edges == pass.edges \cup found
       IN  Proceeds([pass EXCEPT
             !.todo = @ \ {s}, !.edges = edges,
             !.left = IF pass.todo = {s} THEN edges ELSE {},
             !.at = IF pass.todo # {s} THEN "search"
                    ELSE IF pass.phase = "merge" THEN "join" ELSE "judge"])
  /\ UNCHANGED parentOf

-----------------------------------------------------------------------------
\* Phase 1: union_find_components.  Nothing is awaited; the edges come in any order.

\* find: the way up, the smallest set with m and the parents of its members; its end.
Ascent(parent, m) ==
  {n \in CFacts : \A C \in SUBSET CFacts :
                    m \in C /\ (\A c \in C : parent[c] \in C) => n \in C}
RootOf(parent, m) == CHOOSE r \in Ascent(parent, m) : parent[r] = r

\* The path is compressed.
Compressed(parent, m) ==
  [n \in CFacts |-> IF n \in Ascent(parent, m) THEN RootOf(parent, m) ELSE parent[n]]

\* Mutant: the facts are linked, not their roots.
LinkEnds(parent, a, b) == [parent EXCEPT ![Max({a, b})] = Min({a, b})]

\* The smaller root becomes the root.
Link(parent, a, b) ==
  LET flat == Compressed(Compressed(parent, a), b)
      ra   == RootOf(parent, a)
      rb   == RootOf(parent, b)
  IN  [flat EXCEPT ![Max({ra, rb})] = Min({ra, rb})]

JoinEdge(a, b) ==
  /\ pass.at = "join" /\ {a, b} \in pass.left
  /\ parentOf' = Link(parentOf, a, b)
  /\ Proceeds([pass EXCEPT !.left = @ \ {{a, b}}])

\* The facts by their root, those alone dropped.
Group ==
  /\ pass.at = "join" /\ pass.left = {}
  /\ LET nodes == pass.seeds \cup UNION pass.edges
         Of(r) == {m \in nodes : RootOf(parentOf, m) = r}
     IN  Proceeds([pass EXCEPT !.groups = {Of(r) : r \in {x \in CFacts : Cardinality(Of(x)) > 1}},
                               !.at = "done"])
  /\ UNCHANGED parentOf

-----------------------------------------------------------------------------
\* Phase 2b: judge_candidate_pairs.

\* Mutant: the side the model names, as it was once done.
StaleAsNamed(a, b) == {a, b}

\* stale_by_recency; of two equally recent facts neither.
StaleSide(a, b) == IF fact[a].from < fact[b].from THEN {a}
                   ELSE IF fact[a].from > fact[b].from THEN {b} ELSE {}

\* The model finds no contradiction, names no shared attribute, or fails.
JudgeApart(a, b) ==
  /\ pass.at = "judge" /\ {a, b} \in pass.left
  /\ Proceeds([pass EXCEPT !.left = @ \ {{a, b}}])
  /\ UNCHANGED parentOf

JudgeClash(a, b) ==
  /\ pass.at = "judge" /\ {a, b} \in pass.left
  /\ \/ \E m \in StaleSide(a, b) :
          Proceeds([pass EXCEPT !.left = @ \ {{a, b}}, !.clashes = @ \cup {{a, b}},
                                !.stale = @ \cup {m}])
     \/ /\ StaleSide(a, b) = {}
        /\ Proceeds([pass EXCEPT !.left = @ \ {{a, b}}])
  /\ UNCHANGED parentOf

Judged ==
  /\ pass.at = "judge" /\ pass.left = {}
  /\ Proceeds([pass EXCEPT !.at = "done"])
  /\ UNCHANGED parentOf

CandNext ==
  \/ \E m \in CFacts :
       Write(m) \/ VectorArrives(m) \/ RetireRow(m) \/ Delete(m) \/ VectorLeaves(m)
  \/ \E phase \in {"merge", "contradict"}, full \in BOOLEAN : Begin(phase, full)
  \/ ListSeeds \/ ListActive
  \/ \E s \in pass.todo : SearchSeed(s)
  \/ \E a, b \in CFacts : JoinEdge(a, b) \/ JudgeApart(a, b) \/ JudgeClash(a, b)
  \/ Group \/ Judged

CandSpec == CandInit /\ [][CandNext]_candVars

-----------------------------------------------------------------------------
\* Properties.

\* Reference for the groups: what edges connect to m, the smallest set with it that no
\* edge leaves.
ConnectedBy(edges, m) ==
  {n \in CFacts : \A C \in SUBSET CFacts :
                    m \in C /\ (\A e \in edges : e \cap C # {} => e \subseteq C) => n \in C}
Connected(m) == ConnectedBy(pass.edges, m)

\* More than the search may return lie as near to s as m does, s itself counted; some
\* perhaps are vectors of facts long retired or deleted.
Searched == IF pass.phase = "contradict" /\ pass.full THEN pass.active ELSE indexed
CrowdedOut(s, m) ==
  Cardinality({v \in Searched \ {m} : Apart(s, v) <= Apart(s, m)}) > CTopK

\* "[A] NEW fact still surfaces an OLD same-subject neighbour" (candidates.rs; the
\* cross-corpus invariant of ADR-082 §D4), with what the promise leaves out: a seed and
\* a near fact that were both in force throughout end in one cluster, or in a pair that
\* is judged, unless more than K vectors lie as near.  Vectors that outlived their fact
\* take places in the search and are dropped only after it.  And the clusters are the
\* connected components of the edges that were found, in whatever order they came.
SeedsMeetNeighbours ==
  pass.at = "done" =>
    /\ pass.phase = "merge" =>
         pass.groups = {Connected(m) : m \in UNION pass.edges}
    /\ \A s \in pass.seeds \cap constant, m \in constant :
         s # m /\ Near(s, m) /\ ~ CrowdedOut(s, m) =>
           IF pass.phase = "merge" THEN \E g \in pass.groups : {s, m} \subseteq g
           ELSE {s, m} \in pass.edges

\* Whatever the model answers, and however many pairs contradict one another, a fact
\* is found stale only against a newer one, and going from stale fact to newer fact
\* ends at one that is kept: a knowledge update is never inverted, and never are both
\* sides retired.
NewestStays ==
  \A m \in pass.stale :
    /\ \E n \in CFacts : {m, n} \in pass.clashes /\ fact[n].from > fact[m].from
    /\ \E k \in pass.active \ pass.stale : fact[k].from > fact[m].from
=============================================================================
