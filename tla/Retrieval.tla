------------------------------ MODULE Retrieval ------------------------------
(***************************************************************************)
(* One query through the read side: memory_search (RerankedRetriever, or   *)
(* the raw hybrid without a reranking model) and memory_read               *)
(* (StructuredReadPipeline).  The channels are asked one after the other   *)
(* and each reads an index first and the rows later, with awaits between,  *)
(* while other requests retire, archive and delete.                        *)
(*                                                                         *)
(* A memory is a number: its place in the order of distances to the query. *)
(* BM25's order, the graph's offer and the memory the reranker likes best  *)
(* are chosen when the query is asked.  Scores are compared, not computed, *)
(* except those of the fusion.                                             *)
(***************************************************************************)
EXTENDS Naturals, Sequences, FiniteSets, SequencesExt

CONSTANTS
  RMems,           \* 1..n
  RAuth,           \* those in a boundary the query may read
  RFanout,         \* SEARCH_CANDIDATE_FANOUT, DEFAULT_MAX_CANDIDATES
  RTop,            \* HybridConfig::top_n_each
  RScale,          \* common denominator of the fusion's reciprocal ranks
  RLimits,         \* bound: answers an agent may ask for
  RKeywordOrders,  \* bound: orders in which BM25 may score
  ROffers,         \* bound: sets of memories behind the graph's edges
  RMaxChanges      \* bound: changes beside the query

ASSUME RetrievalAssumption ==
  /\ RMems \subseteq Nat \ {0} /\ IsFiniteSet(RMems) /\ RAuth \subseteq RMems
  /\ RFanout \in Nat \ {0} /\ RTop \in Nat \ {0} /\ RLimits \subseteq Nat \ {0}
  /\ RScale \in Nat /\ \A i \in 1..RTop : RScale % (60 + i) = 0
  /\ \A o \in RKeywordOrders : /\ o \in Seq(RMems)
                               /\ \A i, j \in DOMAIN o : o[i] = o[j] => i = j

RerankCap == 2 * RFanout

VARIABLES
  rstand,          \* [RMems -> "active", "retired", "archived", "gone"]
  q,               \* the query
  rchanges,
  \* history
  valid,           \* memories in force at some moment since the query was asked
  steady           \* memories in force all that time

readVars == <<rstand, q, rchanges, valid, steady>>

InForce == {m \in RMems : rstand[m] = "active"}

\* bm25: the keyword index's order; offer: memories behind the graph's edges;
\* best: what the reranker scores highest; near: the nearest cosine clears the
\* floor.  sem, kw: the two lists of the hybrid, first the hits of the index,
\* then the rows; base, graph, recall: the channels' results.
NoQuery == [at |-> "idle", kind |-> "search", model |-> TRUE, limit |-> 1,
            picky |-> FALSE, near |-> TRUE, best |-> 0, bm25 |-> <<>>, offer |-> {},
            sem |-> <<>>, kw |-> <<>>, base |-> <<>>, graph |-> <<>>,
            recall |-> <<>>, scored |-> <<>>, answer |-> <<>>, how |-> "none"]

QuerySteps == {"idle", "sem", "semrows", "kw", "kwrows", "fuse", "graph", "recall",
               "recallrows", "gate", "gaterows", "rank", "done"}

ReadTypeOK ==
  /\ rstand \in [RMems -> {"active", "retired", "archived", "gone"}]
  /\ q.at \in QuerySteps /\ q.kind \in {"search", "read"}
  /\ \A f \in {"bm25", "sem", "kw", "base", "graph", "recall", "scored", "answer"} :
       q[f] \in Seq(RMems)
  /\ q.how \in {"none", "ranked", "degraded", "plain", "gated", "failed"}
  /\ rchanges \in 0..RMaxChanges
  /\ valid \subseteq RMems /\ steady \subseteq RMems

ReadInit ==
  /\ rstand \in {[m \in RMems |-> "active"]} \cup
                {[m \in RMems |-> IF m = o THEN "retired" ELSE "active"] : o \in RMems}
  /\ q = NoQuery
  /\ rchanges = 0
  /\ valid = {} /\ steady = {}

-----------------------------------------------------------------------------
\* The other requests, and the nightly run.

Change(m) ==
  /\ rchanges < RMaxChanges
  /\ rchanges' = rchanges + 1
  /\ \/ rstand[m] = "active" /\ rstand' = [rstand EXCEPT ![m] = "retired"]
     \/ rstand[m] = "active" /\ rstand' = [rstand EXCEPT ![m] = "archived"]
     \/ rstand[m] # "gone" /\ rstand' = [rstand EXCEPT ![m] = "gone"]
  /\ valid' = valid
  /\ steady' = steady \ {m}
  /\ UNCHANGED q

-----------------------------------------------------------------------------
\* Lists.

\* The elements of S, each after as many as R puts before it.
Listed(S, R) ==
  [k \in 1..Cardinality(S) |->
     CHOOSE m \in S : Cardinality({n \in S : <<n, m>> \in R}) = k - 1]

ByDistance(S) == Listed(S, {r \in S \X S : r[1] < r[2]})

\* What is left of a list keeps its order.
Keep(s, S) == LET at == ByDistance({i \in DOMAIN s : s[i] \in S})
              IN  [k \in DOMAIN at |-> s[at[k]]]
Without(s, t) == Keep(s, RMems \ ToSet(t))
Cut(s, n) == SubSeq(s, 1, IF Len(s) < n THEN Len(s) ELSE n)

\* Nearest vectors of the authorized boundaries; the vector of a memory no longer
\* in force stays until it is deleted, and a while longer.
VectorSearch(n) == Cut(ByDistance(RAuth), n)

\* Mutant: the rows are not checked again.
SemanticRowsAll(hits) == Keep(hits, {m \in RMems : rstand[m] # "gone"})

\* get_memories_batch, then the filter on what is in force.
SemanticRows(hits) == Keep(hits, InForce)

\* Without a reranker a search's threshold is one on the cosine.
Nearest == IF q.near THEN ToSet(Cut(q.sem, 1)) ELSE {}
HybridRows == IF q.kind = "search" /\ ~ q.model /\ q.picky
              THEN Keep(SemanticRows(q.sem), Nearest) ELSE SemanticRows(q.sem)

\* The keyword index has no boundaries, and archived rows pass.
KeywordRows(hits) == Keep(hits, {m \in RAuth : rstand[m] \in {"active", "archived"}})

\* Reciprocal rank fusion, k = 60.
Share(s, m) == IF m \in ToSet(s) THEN RScale \div (60 + CHOOSE i \in DOMAIN s : s[i] = m) ELSE 0
Rrf(m) == Share(q.sem, m) + Share(q.kw, m)

\* Ties fall to the memory created last; here the one with the larger number.
Fused == LET S == ToSet(q.sem) \cup ToSet(q.kw)
         IN  Listed(S, {r \in S \X S : \/ Rrf(r[1]) > Rrf(r[2])
                                       \/ Rrf(r[1]) = Rrf(r[2]) /\ r[1] > r[2]})

-----------------------------------------------------------------------------
\* The query.

\* Without authorized boundaries or with an invalid limit the answer is at hand.
Ask(kind, model, limit, picky, near, best, bm25, offer) ==
  /\ q.at = "idle" /\ RAuth # {}
  /\ q' = [NoQuery EXCEPT !.kind = kind, !.model = model, !.limit = limit,
                          !.picky = picky, !.near = near, !.best = best,
                          !.bm25 = bm25, !.offer = offer,
                          !.at = IF kind = "read" /\ ~ model THEN "gate" ELSE "sem"]
  /\ valid' = InForce /\ steady' = InForce
  /\ UNCHANGED <<rstand, rchanges>>

\* Bound: what a query does not look at has one value.
Distinguished(kind, model, limit, picky, near, best, offer) ==
  /\ kind = "read" => ~ picky /\ limit = 1 /\ offer = {}
  /\ ~ model => best = 1 /\ offer = {}
  /\ near \/ picky \/ (kind = "read" /\ ~ model)

Step(from, new) == /\ q.at = from
                   /\ q' = new
                   /\ UNCHANGED <<rstand, rchanges, valid, steady>>

\* The gate of a read without a model: the nearest vector, if it is in force.
GateSearch == Step("gate", [q EXCEPT !.sem = VectorSearch(1), !.at = "gaterows"])
GateFetch  == Step("gaterows",
                IF SemanticRows(q.sem) # <<>> /\ q.near
                THEN [q EXCEPT !.sem = <<>>, !.at = "sem"]
                ELSE [q EXCEPT !.sem = <<>>, !.how = "gated", !.at = "done"])

\* The hybrid joins both channels; the keyword channel's two reads are shown
\* after the semantic channel's, and nothing of one depends on the other.
SemanticSearch == Step("sem", [q EXCEPT !.sem = VectorSearch(RTop), !.at = "semrows"])
SemanticFetch  == Step("semrows", [q EXCEPT !.sem = HybridRows, !.at = "kw"])
KeywordSearch  == Step("kw", [q EXCEPT !.kw = Cut(q.bm25, RTop), !.at = "kwrows"])
KeywordFetch   == Step("kwrows", [q EXCEPT !.kw = KeywordRows(q.kw), !.at = "fuse"])

Limit == IF q.kind = "search" /\ ~ q.model THEN q.limit ELSE RFanout

Fuse ==
  Step("fuse", [q EXCEPT !.base = Cut(Fused, Limit), !.sem = <<>>, !.kw = <<>>,
                         !.at = IF ~ q.model THEN "rank"
                                ELSE IF q.kind = "search" THEN "graph" ELSE "recall"])

\* The graph channel reads its rows last; most recent first.
GraphRecall ==
  Step("graph", [q EXCEPT !.graph = Cut(Reverse(ByDistance(q.offer \cap InForce \cap RAuth)),
                                          RFanout),
                          !.at = "recall"])

RecallSearch == Step("recall", [q EXCEPT !.recall = VectorSearch(RFanout), !.at = "recallrows"])
RecallFetch  == Step("recallrows", [q EXCEPT !.recall = SemanticRows(q.recall), !.at = "rank"])

\* Mutant: the channels are appended to the hybrid's results.
PoolBaseFirst ==
  LET p == q.base \o Without(q.recall, q.base) IN p \o Without(q.graph, p)

\* Recall channels first in a search, the hybrid first in a read.
Pool ==
  IF q.kind = "read" THEN q.base \o Without(q.recall, q.base)
  ELSE LET p == q.graph \o Without(q.recall, q.graph) IN p \o Without(q.base, p)

Batch == Cut(Pool, RerankCap)

\* The reranker's order; equal scores keep theirs.
Ranked == Keep(Batch, {q.best}) \o Without(Batch, <<q.best>>)

\* The memories whose score clears a threshold the agent named: on the reranker's
\* scale the best; without a reranker, where only the hits of the semantic channel
\* carry a cosine, the nearest.
Clears(ranked) == IF ranked THEN {q.best}
                  ELSE IF q.near THEN ToSet(Cut(q.recall, 1)) \ ToSet(q.graph) ELSE {}

\* Mutant: the floor of the earlier design, "nothing found" below it.
ReplyAboveFloor(list, ranked) == IF ranked THEN Cut(Keep(list, {q.best}), q.limit) ELSE list

\* A search drops what is below the threshold and cuts to what the agent asked
\* for; a read keeps everything.
Reply(list, ranked) ==
  IF q.kind = "read" THEN list
  ELSE Cut(IF q.picky THEN Keep(list, Clears(ranked)) ELSE list, q.limit)

\* "scores"; "unavailable", the model is not downloaded; or any other error.  With
\* nothing to rank the reranker is not asked.
Rank(outcome) ==
  Step("rank",
    CASE ~ q.model ->
           [q EXCEPT !.answer = q.base, !.how = "plain", !.at = "done"]
      [] q.model /\ (outcome = "scores" \/ Pool = <<>>) ->
           [q EXCEPT !.scored = Batch, !.answer = Reply(Ranked, TRUE),
                     !.how = "ranked", !.at = "done"]
      [] q.model /\ outcome = "unavailable" /\ Pool # <<>> ->
           [q EXCEPT !.answer = Reply(Pool, FALSE), !.how = "degraded", !.at = "done"]
      [] OTHER ->
           [q EXCEPT !.how = "failed", !.at = "done"])

Answered == /\ q.at = "done"
            /\ q' = NoQuery
            /\ valid' = {} /\ steady' = {}
            /\ UNCHANGED <<rstand, rchanges>>

ReadNext ==
  \/ \E m \in RMems : Change(m)
  \/ \E kind \in {"search", "read"}, model, picky, near \in BOOLEAN,
        limit \in RLimits, best \in RMems, bm25 \in RKeywordOrders, offer \in ROffers :
       /\ Distinguished(kind, model, limit, picky, near, best, offer)
       /\ Ask(kind, model, limit, picky, near, best, bm25, offer)
  \/ GateSearch \/ GateFetch
  \/ SemanticSearch \/ SemanticFetch \/ KeywordSearch \/ KeywordFetch
  \/ Fuse \/ GraphRecall \/ RecallSearch \/ RecallFetch
  \/ \E outcome \in {"scores", "unavailable", "error"} : Rank(outcome)
  \/ Answered

ReadSpec == ReadInit /\ [][ReadNext]_readVars

-----------------------------------------------------------------------------
\* Properties.

\* Whatever changes while the channels are asked, the answer holds each memory at
\* most once, only from boundaries the query may read, and none that was out of
\* force all the time: except an archived one, which the keyword channel lets
\* through.
AnswerOnceInForce ==
  /\ ToSet(q.answer) \subseteq RAuth
  /\ \A i, j \in DOMAIN q.answer : q.answer[i] = q.answer[j] => i = j
  /\ q.at = "done" =>
       \A m \in ToSet(q.answer) \ valid :
         rstand[m] \in {"archived", "gone"} /\ m \in ToSet(q.bm25)

\* "[T]he cap trims the base hybrid's weak lexical tail, never the recall hits it
\* exists to protect" (reranked_retriever.rs): what graph and vectors found is
\* scored, however full the pool, and in a read nothing found is dropped at all.
RecallHitsScored ==
  q.how = "ranked" =>
    /\ ToSet(q.graph) \cup ToSet(q.recall) \subseteq ToSet(q.scored)
    /\ q.kind = "read" => ToSet(q.base) \subseteq ToSet(q.answer)

\* Never a false empty (ADR-071, ADR-073): a query that did not fail finds something
\* when a memory in force throughout was among the nearest RTop, unless the agent
\* named a threshold.  A read without a model gates on the single nearest vector,
\* and there one left by a memory no longer in force hides all others.
NeverFalseEmpty ==
  q.at = "done" /\ q.answer = <<>> =>
    \/ q.how = "failed" \/ q.picky
    \/ steady \cap ToSet(VectorSearch(RTop)) = {}
    \/ q.how = "gated" /\ (~ q.near \/ ~ ToSet(VectorSearch(1)) \subseteq steady)
=============================================================================
