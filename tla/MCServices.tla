----------------------------- MODULE MCServices -----------------------------
(***************************************************************************)
(* Fourteen parts of the vault that share no state, in one instance: a     *)
(* behaviour picks a part and runs it, with the others at rest.  This is   *)
(* one run of TLC in the place of fourteen; nothing is composed here.      *)
(***************************************************************************)
EXTENDS GraphStore, Enrichment, Lifecycle, Maintenance, ConsolidatorLock,
        KeyCustody, Retrieval, ModelFiles, Triage, ToolCalls, Candidates, Reports,
        Migrations, Agents

CONSTANTS a1, a2, a3, b1, works, alias, m1, m2, p1

\* Three entities in one boundary and one in another; relationships within, aliases
\* across, some without a source memory, and a cycle.
MCKey == [e \in GEntities |-> e]
MCBnd == [e \in GEntities |-> IF e = b1 THEN "B" ELSE "A"]
Proposal(f, t, ty, s) == [from |-> f, to |-> t, type |-> ty, src |-> s]
MCProps ==
  { Proposal(a1, a2, works, m1), Proposal(a2, a3, works, m2), Proposal(a3, a1, works, m1),
    Proposal(a1, b1, alias, GNoMemory), Proposal(b1, a3, alias, GNoMemory),
    Proposal(a2, b1, works, m1) }

\* Memory 4 is nearest by words and in another boundary.
MCOrders == { <<4, 3, 2>>, <<2, 3, 1>> }
MCOffers == { {}, {3, 4} }

\* Four facts on a line, or two in one place; the older ones may say the newer thing.
MCVaults ==
  { [m \in CFacts |-> [place |-> p[m], from |-> f[m], new |-> m \in {3, 4}]] :
      p \in {<<0, 1, 2, 3>>, <<1, 0, 2, 1>>}, f \in {<<1, 2, 3, 1>>, <<2, 1, 2, 2>>} }

\* One binary is a version behind; the second migration has an ALTER TABLE.
MCKnows == [p \in Openers |-> IF p = p1 THEN 2 ELSE 3]

\* A chain of three and one apart, and what may be left of them.
MCPlaces   == {<<0, 1, 2, 9>>}
MCListings == {1..4, {2, 4}, {}}

VARIABLE part
serviceVars == <<part, graphVars, enrichVars, lifeVars, mtVars, vars, keyVars,
                 readVars, fileVars, triageVars, callVars, candVars, reportVars,
                 schemaVars, agentVars>>

graphRest  == UNCHANGED graphVars
enrichRest == UNCHANGED enrichVars
lifeRest   == UNCHANGED lifeVars
mtRest     == UNCHANGED mtVars
lockRest   == UNCHANGED vars
keyRest    == UNCHANGED keyVars
readRest   == UNCHANGED readVars
fileRest   == UNCHANGED fileVars
triageRest == UNCHANGED triageVars
callRest   == UNCHANGED callVars
candRest   == UNCHANGED candVars
reportRest == UNCHANGED reportVars
schemaRest == UNCHANGED schemaVars
agentRest  == UNCHANGED agentVars

\* A part at rest has one initial state; the query starts with all memories in
\* force, or all but the nearest.
ServicesInit ==
  /\ part \in {"graph", "enrich", "life", "mt", "lock", "keys", "read", "files",
               "triage", "calls", "candidates", "reports", "schema", "agents"}
  /\ GraphInit
  /\ EnrichInit /\ (part # "enrich" => written = 0)
  /\ LifeInit   /\ (part # "life" => host = "serve")
  /\ MtInit     /\ (part # "mt" => platform = "windows")
  /\ Init       /\ (part # "lock" => ~ windows)
  /\ KeyInit    /\ (part # "keys" => db = NoKey)
  /\ ReadInit   /\ \A m \in RMems : rstand[m] = "active" \/ (part = "read" /\ m = 1)
  /\ FileInit   /\ (part # "files" => placed = NoFile)
  /\ TriageInit /\ CallInit
  /\ CandInit   /\ Cardinality(CFacts \ ActiveFacts) < 2
                /\ (part # "candidates" => /\ fact = CHOOSE v \in CVaults : TRUE
                                           /\ ActiveFacts = CFacts)
  /\ SchemaInit /\ AgentInit
  /\ ReportInit /\ (part # "reports" => \A e \in DOMAIN plain : plain[e] = "none")

ServicesNext ==
  /\ UNCHANGED part
  /\ \/ /\ part = "graph" /\ GraphNext
        /\ enrichRest /\ lifeRest /\ mtRest /\ lockRest /\ keyRest /\ readRest
        /\ fileRest /\ triageRest /\ callRest /\ candRest /\ reportRest /\ schemaRest /\ agentRest
     \/ /\ part = "enrich" /\ EnrichNext
        /\ graphRest /\ lifeRest /\ mtRest /\ lockRest /\ keyRest /\ readRest
        /\ fileRest /\ triageRest /\ callRest /\ candRest /\ reportRest /\ schemaRest /\ agentRest
     \/ /\ part = "life" /\ LifeNext
        /\ graphRest /\ enrichRest /\ mtRest /\ lockRest /\ keyRest /\ readRest
        /\ fileRest /\ triageRest /\ callRest /\ candRest /\ reportRest /\ schemaRest /\ agentRest
     \/ /\ part = "mt" /\ MtNext
        /\ graphRest /\ enrichRest /\ lifeRest /\ lockRest /\ keyRest /\ readRest
        /\ fileRest /\ triageRest /\ callRest /\ candRest /\ reportRest /\ schemaRest /\ agentRest
     \/ /\ part = "lock" /\ Next
        /\ graphRest /\ enrichRest /\ lifeRest /\ mtRest /\ keyRest /\ readRest
        /\ fileRest /\ triageRest /\ callRest /\ candRest /\ reportRest /\ schemaRest /\ agentRest
     \/ /\ part = "keys" /\ KeyNext
        /\ graphRest /\ enrichRest /\ lifeRest /\ mtRest /\ lockRest /\ readRest
        /\ fileRest /\ triageRest /\ callRest /\ candRest /\ reportRest /\ schemaRest /\ agentRest
     \/ /\ part = "read" /\ ReadNext
        /\ graphRest /\ enrichRest /\ lifeRest /\ mtRest /\ lockRest /\ keyRest
        /\ fileRest /\ triageRest /\ callRest /\ candRest /\ reportRest /\ schemaRest /\ agentRest
     \/ /\ part = "files" /\ FileNext
        /\ graphRest /\ enrichRest /\ lifeRest /\ mtRest /\ lockRest /\ keyRest
        /\ readRest /\ triageRest /\ callRest /\ candRest /\ reportRest /\ schemaRest /\ agentRest
     \/ /\ part = "triage" /\ TriageNext
        /\ graphRest /\ enrichRest /\ lifeRest /\ mtRest /\ lockRest /\ keyRest
        /\ readRest /\ fileRest /\ callRest /\ candRest /\ reportRest /\ schemaRest /\ agentRest
     \/ /\ part = "calls" /\ CallNext
        /\ graphRest /\ enrichRest /\ lifeRest /\ mtRest /\ lockRest /\ keyRest
        /\ readRest /\ fileRest /\ triageRest /\ candRest /\ reportRest /\ schemaRest /\ agentRest
     \/ /\ part = "candidates" /\ CandNext
        /\ graphRest /\ enrichRest /\ lifeRest /\ mtRest /\ lockRest /\ keyRest
        /\ readRest /\ fileRest /\ triageRest /\ callRest /\ reportRest /\ schemaRest /\ agentRest
     \/ /\ part = "reports" /\ ReportNext
        /\ graphRest /\ enrichRest /\ lifeRest /\ mtRest /\ lockRest /\ keyRest
        /\ readRest /\ fileRest /\ triageRest /\ callRest /\ candRest /\ schemaRest /\ agentRest
     \/ /\ part = "schema" /\ SchemaNext
        /\ graphRest /\ enrichRest /\ lifeRest /\ mtRest /\ lockRest /\ keyRest /\ readRest
        /\ fileRest /\ triageRest /\ callRest /\ candRest /\ reportRest /\ agentRest
     \/ /\ part = "agents" /\ AgentNext
        /\ graphRest /\ enrichRest /\ lifeRest /\ mtRest /\ lockRest /\ keyRest /\ readRest
        /\ fileRest /\ triageRest /\ callRest /\ candRest /\ reportRest /\ schemaRest

\* The fairness of Lifecycle and of ConsolidatorLock, each while its part runs.
ServicesFairness ==
  /\ LifeFairness
  /\ \A p \in Processes :
       /\ WF_vars(part = "lock" /\ TryStep(p) /\ UNCHANGED windows)
       /\ WF_vars(part = "lock" /\ (CloseHandle(p) \/ RemoveOwn(p)) /\ UNCHANGED windows)

ServicesSpec == ServicesInit /\ [][ServicesNext]_serviceVars /\ ServicesFairness
=============================================================================
