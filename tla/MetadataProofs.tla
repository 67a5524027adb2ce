--------------------------- MODULE MetadataProofs ---------------------------
(***************************************************************************)
(* What holds of the tables of the metadata store, for any number of       *)
(* processes, versions, agents and calls: the schema is migrated once and  *)
(* in order, a request runs with the scope its token has meant since the   *)
(* request was sent, the audit chain tells what changed, and no failed     *)
(* operation is lost on its way through the dead letters.                  *)
(***************************************************************************)
EXTENDS Migrations, Agents, ToolCalls, Triage, SequenceTheorems, TLAPS

-----------------------------------------------------------------------------
\* The schema.

\* What was read outside the transactions can only lag behind.
VersionLags ==
  \A p \in Openers : /\ opener[p].version <= Len(commits)
                     /\ Stands(p, "ready") => Knows[p] <= opener[p].version
SchemaInv == SchemaTypeOK /\ MigratedOnce /\ VersionLags

OpenerRecs == [at : OpenerSteps, version : Nat, snap : Nat]

LEMMA OpenerFacts ==
  ASSUME SchemaTypeOK, NEW p \in Openers
  PROVE  /\ opener[p] \in OpenerRecs /\ opener[p].version \in Nat
         /\ Knows[p] \in Nat /\ Len(commits) \in Nat /\ DOMAIN commits = 1..Len(commits)
BY MigrationsAssumption DEF SchemaTypeOK, OpenerRecs

LEMMA OpenerUpdate ==
  ASSUME SchemaTypeOK, NEW p \in Openers, NEW r, opener' = [opener EXCEPT ![p] = r]
  PROVE  opener'[p] = r /\ \A q \in Openers \ {p} : opener'[q] = opener[q]
BY DEF SchemaTypeOK

\* The rows of schema_migrations are the numbers of the commits.
LEMMA VersionsAre ==
  ASSUME SchemaInv
  PROVE  Versions = 1..Len(commits) /\ Ran = 1..Len(commits)
<1>1. commits \in Seq(CommitSet) /\ \A k \in DOMAIN commits : commits[k] = [does |-> {k}, rows |-> {k}]
  BY DEF SchemaInv, SchemaTypeOK, MigratedOnce
<1>2. DOMAIN commits = 1..Len(commits)
  BY <1>1
<1> QED BY <1>1, <1>2 DEF Versions, Ran

\* One opener moves, the commits stay, and what it knows of them lags at most.
LEMMA OpenerMoves ==
  ASSUME SchemaInv, NEW p \in Openers,
         NEW r \in OpenerRecs,
         opener' = [opener EXCEPT ![p] = r], commits' = commits,
         writer' \in SUBSET Openers, opens' \in Nat,
         r.version <= Len(commits), r.at = "ready" => Knows[p] <= r.version
  PROVE  SchemaInv'
<1>0. SchemaTypeOK /\ VersionLags /\ MigratedOnce
  BY DEF SchemaInv
<1>1. SchemaTypeOK'
  BY <1>0 DEF SchemaTypeOK, OpenerRecs
<1>2. opener'[p] = r /\ \A q \in Openers \ {p} : opener'[q] = opener[q]
  BY <1>0, OpenerUpdate
<1>3. VersionLags'
  BY <1>0, <1>2 DEF VersionLags, Stands
<1>4. MigratedOnce'
  <2>1. ASSUME NEW q \in Openers, Stands(q, "ready")' PROVE Knows[q] <= Len(commits)
    <3>1. opener'[q].version \in Nat /\ Knows[q] \in Nat /\ Len(commits) \in Nat
      BY <1>0, <1>1, MigrationsAssumption DEF SchemaTypeOK
    <3>2. Knows[q] <= opener'[q].version /\ opener'[q].version <= Len(commits)
      BY <1>3, <2>1 DEF VersionLags
    <3> QED BY <3>1, <3>2
  <2> QED BY <1>0, <2>1 DEF MigratedOnce
<1> QED BY <1>1, <1>3, <1>4 DEF SchemaInv

\* Only the next migration can be committed: the primary key refuses an earlier one.
LEMMA CommitKeeps ==
  ASSUME SchemaInv, NEW p \in Openers, CommitMigration(p)
  PROVE  SchemaInv'
<1> DEFINE v == Pending(p)
           r == [opener[p] EXCEPT !.at = "migrating", !.version = v]
           e == [does |-> {v} \ Ran, rows |-> {v}]
<1>1. SchemaTypeOK /\ VersionLags
  BY DEF SchemaInv
<1>2. v \in Nat /\ v = Len(commits) + 1 /\ v \notin Ran
  BY <1>1, OpenerFacts, VersionsAre DEF CommitMigration, Pending, VersionLags
<1>3. commits' = Append(commits, e) /\ opener' = [opener EXCEPT ![p] = r]
      /\ writer' = {} /\ opens' = opens
  BY DEF CommitMigration
<1>4. e = [does |-> {v}, rows |-> {v}] /\ e \in CommitSet
  BY <1>2 DEF CommitSet
<1>5. r \in OpenerRecs /\ r.at = "migrating" /\ r.version = v
  BY <1>1, <1>2, OpenerFacts DEF OpenerRecs, OpenerSteps
<1> HIDE DEF v, r, e
<1>6. SchemaTypeOK'
  BY <1>1, <1>3, <1>4, <1>5 DEF SchemaTypeOK, OpenerRecs
<1>7. /\ Len(commits') = Len(commits) + 1
      /\ \A k \in 1..Len(commits') : commits'[k] = IF k = Len(commits) + 1 THEN e ELSE commits[k]
  BY <1>1, <1>3, <1>4 DEF SchemaTypeOK
<1>8. opener'[p] = r /\ \A q \in Openers \ {p} : opener'[q] = opener[q]
  BY <1>1, <1>3, OpenerUpdate
<1>9. VersionLags'
  BY <1>1, <1>2, <1>5, <1>7, <1>8, OpenerFacts DEF VersionLags, Stands
<1>10. \A k \in DOMAIN commits' : commits'[k] = [does |-> {k}, rows |-> {k}]
  BY <1>2, <1>4, <1>6, <1>7, <1>1 DEF SchemaTypeOK, SchemaInv, MigratedOnce
<1>11. MigratedOnce'
  BY <1>6, <1>7, <1>9, <1>10, MigrationsAssumption DEF SchemaTypeOK, MigratedOnce, VersionLags
<1> QED BY <1>6, <1>9, <1>11 DEF SchemaInv

\* A prefix of the commits is a schema of an earlier time, and nobody has it open.
LEMMA PowerLossKeeps ==
  ASSUME SchemaInv, PowerLoss
  PROVE  SchemaInv'
<1>1. PICK k \in 0..Len(commits) : commits' = SubSeq(commits, 1, k)
  BY DEF PowerLoss
<1>2. commits \in Seq(CommitSet) /\ Len(commits) \in Nat /\ k \in Nat
  BY DEF SchemaInv, SchemaTypeOK
<1>3. commits' \in Seq(CommitSet) /\ Len(commits') = k /\ \A i \in 1..k : commits'[i] = commits[i]
  BY <1>1, <1>2
<1>4. \A q \in Openers : opener'[q] = Closed
  BY DEF PowerLoss
<1>5. SchemaTypeOK'
  BY <1>3 DEF PowerLoss, SchemaInv, SchemaTypeOK, Closed, OpenerSteps
<1>6. MigratedOnce'
  BY <1>2, <1>3, <1>4 DEF SchemaInv, MigratedOnce, Stands, Closed
<1>7. VersionLags'
  BY <1>3, <1>4 DEF VersionLags, Stands, Closed
<1> QED BY <1>5, <1>6, <1>7 DEF SchemaInv

LEMMA SchemaInitInv ==
  SchemaInit => SchemaInv
<1> SUFFICES ASSUME SchemaInit PROVE SchemaInv
  OBVIOUS
<1>1. \A p \in Openers : opener[p] = Closed
  BY DEF SchemaInit
<1> QED BY <1>1 DEF SchemaInit, SchemaInv, SchemaTypeOK, MigratedOnce, VersionLags,
                    Stands, Closed, OpenerSteps

LEMMA SchemaStep ==
  SchemaInv /\ [SchemaNext]_schemaVars => SchemaInv'
<1> SUFFICES ASSUME SchemaInv, [SchemaNext]_schemaVars PROVE SchemaInv'
  OBVIOUS
<1>0. SchemaTypeOK /\ VersionLags
  BY DEF SchemaInv
<1>1. ASSUME NEW p \in Openers, OpenStore(p) PROVE SchemaInv'
  <2> DEFINE r == [opener[p] EXCEPT !.at = "opening"]
  <2>1. r \in OpenerRecs /\ r.version <= Len(commits) /\ r.at = "opening"
    BY <1>0, OpenerFacts DEF OpenerRecs, OpenerSteps, VersionLags
  <2>2. opener' = [opener EXCEPT ![p] = r] /\ commits' = commits /\ writer' = writer
        /\ opens' = opens + 1
    BY <1>1 DEF OpenStore, GoesTo
  <2> HIDE DEF r
  <2>3. writer' \in SUBSET Openers /\ opens' \in Nat
    BY <1>0, <2>2 DEF SchemaTypeOK
  <2> QED BY <2>1, <2>2, <2>3, OpenerMoves
<1>2. ASSUME NEW p \in Openers, ReadVersion(p) PROVE SchemaInv'
  <2>1. PICK v \in Versions \cup {0} :
          opener' = [opener EXCEPT ![p] = [@ EXCEPT !.at = "migrating", !.version = v]]
    BY <1>2 DEF ReadVersion
  <2> DEFINE r == [opener[p] EXCEPT !.at = "migrating", !.version = v]
  <2>2. v \in Nat /\ v <= Len(commits)
    BY <1>0, VersionsAre, OpenerFacts
  <2>3. r \in OpenerRecs /\ r.version <= Len(commits) /\ r.at = "migrating"
    BY <1>0, <2>2, OpenerFacts DEF OpenerRecs, OpenerSteps
  <2> QED BY <1>0, <1>2, <2>1, <2>3, OpenerMoves DEF ReadVersion, SchemaTypeOK
<1>3. ASSUME NEW p \in Openers, UpToDate(p) PROVE SchemaInv'
  <2> DEFINE r == [opener[p] EXCEPT !.at = "ready"]
  <2>1. r \in OpenerRecs /\ r.version <= Len(commits) /\ Knows[p] <= r.version
    BY <1>0, <1>3, OpenerFacts DEF OpenerRecs, OpenerSteps, VersionLags, UpToDate
  <2> QED BY <1>0, <1>3, <2>1, OpenerMoves DEF UpToDate, GoesTo, SchemaTypeOK
<1>4. ASSUME NEW p \in Openers, BeginMigration(p) PROVE SchemaInv'
  <2> DEFINE r == [opener[p] EXCEPT !.at = "begun", !.snap = Len(commits)]
  <2>1. r \in OpenerRecs /\ r.version <= Len(commits) /\ r.at = "begun"
    BY <1>0, OpenerFacts DEF OpenerRecs, OpenerSteps, VersionLags
  <2> QED BY <1>0, <1>4, <2>1, OpenerMoves DEF BeginMigration, SchemaTypeOK
<1>5. ASSUME NEW p \in Openers, LockSchema(p) PROVE SchemaInv'
  <2> DEFINE r == [opener[p] EXCEPT !.at = "locked"]
  <2>1. r \in OpenerRecs /\ r.version <= Len(commits) /\ r.at = "locked"
    BY <1>0, OpenerFacts DEF OpenerRecs, OpenerSteps, VersionLags
  <2> QED BY <1>0, <1>5, <2>1, OpenerMoves DEF LockSchema, GoesTo, SchemaTypeOK
<1>6. ASSUME NEW p \in Openers, ApplyMigration(p) PROVE SchemaInv'
  <2> DEFINE r == [opener[p] EXCEPT !.at = "applied"]
  <2>1. r \in OpenerRecs /\ r.version <= Len(commits) /\ r.at = "applied"
    BY <1>0, OpenerFacts DEF OpenerRecs, OpenerSteps, VersionLags
  <2> QED BY <1>0, <1>6, <2>1, OpenerMoves DEF ApplyMigration, GoesTo, SchemaTypeOK
<1>7. ASSUME NEW p \in Openers, OpenEnds(p) PROVE SchemaInv'
  <2>1. Closed \in OpenerRecs /\ Closed.version <= Len(commits) /\ Closed.at = "off"
    BY <1>0, OpenerFacts DEF Closed, OpenerRecs, OpenerSteps
  <2> QED BY <1>0, <1>7, <2>1, OpenerMoves DEF OpenEnds, Closes, SchemaTypeOK
<1>8. CASE UNCHANGED schemaVars
  BY <1>8 DEF schemaVars, SchemaInv, SchemaTypeOK, MigratedOnce, VersionLags, Stands
<1> QED BY <1>1, <1>2, <1>3, <1>4, <1>5, <1>6, <1>7, <1>8, CommitKeeps, PowerLossKeeps DEF SchemaNext

\* Any number of processes, of binaries of any age, may open the store at once, die and
\* lose power: each migration has run once, in order, together with its row.
THEOREM SchemaMigratedOnce ==
  SchemaSpec => []MigratedOnce
<1>1. SchemaSpec => []SchemaInv
  BY SchemaInitInv, SchemaStep, PTL DEF SchemaSpec
<1>2. SchemaInv => MigratedOnce
  BY DEF SchemaInv
<1> QED BY <1>1, <1>2, PTL

-----------------------------------------------------------------------------
\* Agents.

\* A request that waits has its token's present meaning among those since it was sent.
MeaningNoted ==
  \A c \in Connections : \A m \in Meanings :
    request[c].at = "sent" /\ Resolves(agent, request[c].token, m) => m \in since[c]
AgentInv == AgentTypeOK /\ MeaningNoted /\ ScopeIsCurrent

\* An operator's statement.
LEMMA WritesKeeps ==
  ASSUME AgentInv, NEW rows, Writes(rows), AgentTypeOK'
  PROVE  AgentInv'
<1>1. /\ agent' = rows /\ request' = request
      /\ \A c \in Connections :
           since'[c] = IF request[c].at = "sent"
                       THEN since[c] \cup {m \in Meanings : Resolves(rows, request[c].token, m)}
                       ELSE since[c]
  BY DEF Writes
<1>2. MeaningNoted'
  BY <1>1 DEF MeaningNoted, Meanings, Resolves, Unrevoked
<1>3. ScopeIsCurrent'
  BY <1>1 DEF AgentInv, ScopeIsCurrent
<1> QED BY <1>2, <1>3 DEF AgentInv

RequestRecs == [at : {"idle", "sent", "running"}, token : Tokens, scope : Meanings]
AgentRecs   == [token : Tokens, scope : Meanings, revoked : BOOLEAN]

\* One connection's request changes, the agents stay.
LEMMA RequestMoves ==
  ASSUME AgentInv, NEW c \in Connections, NEW r \in RequestRecs,
         request' = [request EXCEPT ![c] = r],
         UNCHANGED <<agent, minted, shown, requests, since>>,
         r.at # "sent",
         r.at = "running" => r.scope \in since[c] \ {Denied}
  PROVE  AgentInv'
<1>1. /\ request'[c] = r /\ \A d \in Connections \ {c} : request'[d] = request[d]
      /\ AgentTypeOK'
  BY DEF AgentInv, AgentTypeOK, RequestRecs
<1>2. MeaningNoted'
  BY <1>1 DEF AgentInv, MeaningNoted, Resolves, Unrevoked
<1>3. ScopeIsCurrent'
  BY <1>1 DEF AgentInv, ScopeIsCurrent
<1> QED BY <1>1, <1>2, <1>3 DEF AgentInv

\* A request that was sent has noted what its token means at that time.
LEMMA SendKeeps ==
  ASSUME AgentInv, NEW c \in Connections, NEW t \in shown \cup {NoToken}, Send(c, t)
  PROVE  AgentInv'
<1> DEFINE r == [request[c] EXCEPT !.at = "sent", !.token = t]
           M == {m \in Meanings : Resolves(agent, t, m)}
<1>1. AgentTypeOK
  BY DEF AgentInv
<1>2. t \in Tokens /\ request[c] \in RequestRecs
  BY <1>1, AgentsAssumption DEF AgentTypeOK, Tokens, NoToken, RequestRecs
<1>3. r \in RequestRecs /\ r.at = "sent" /\ r.token = t
  BY <1>2 DEF RequestRecs
<1>4. /\ request' = [request EXCEPT ![c] = r] /\ since' = [since EXCEPT ![c] = M]
      /\ requests' = requests + 1 /\ requests < AMaxRequests
      /\ UNCHANGED <<agent, minted, shown>>
  BY DEF Send
<1>5. M \in SUBSET Meanings /\ \A m \in Meanings : Resolves(agent, t, m) => m \in M
  OBVIOUS
<1> HIDE DEF r, M
<1>6. /\ request'[c] = r /\ \A d \in Connections \ {c} : request'[d] = request[d]
      /\ since'[c] = M /\ \A d \in Connections \ {c} : since'[d] = since[d]
  BY <1>1, <1>4 DEF AgentTypeOK
<1>7. requests' \in 0..AMaxRequests
  BY <1>1, <1>4, AgentsAssumption DEF AgentTypeOK
<1>8. /\ request' \in [Connections -> RequestRecs]
      /\ since' \in [Connections -> SUBSET Meanings]
  BY <1>1, <1>3, <1>4, <1>5 DEF AgentTypeOK, RequestRecs
<1>9. AgentTypeOK'
  BY <1>1, <1>4, <1>7, <1>8 DEF AgentTypeOK, RequestRecs, Meanings, Tokens
<1>10. MeaningNoted'
  <2>1. ASSUME NEW d \in Connections, NEW m \in Meanings,
               request'[d].at = "sent", Resolves(agent, request'[d].token, m)
        PROVE  m \in since'[d]
    BY <1>3, <1>5, <1>6, <2>1 DEF AgentInv, MeaningNoted
  <2> QED BY <1>4, <2>1 DEF MeaningNoted, Meanings, Resolves, Unrevoked
<1>11. ScopeIsCurrent'
  BY <1>3, <1>6 DEF AgentInv, ScopeIsCurrent
<1> QED BY <1>9, <1>10, <1>11 DEF AgentInv

\* What the lookup returns is among the meanings noted.
LEMMA AuthorizeKeeps ==
  ASSUME AgentInv, NEW c \in Connections, Authorize(c)
  PROVE  AgentInv'
<1>1. PICK m \in Meanings :
        /\ Resolves(agent, request[c].token, m)
        /\ request' = [request EXCEPT ![c] =
             [@ EXCEPT !.at = IF m = Denied THEN "idle" ELSE "running", !.scope = m]]
  BY DEF Authorize
<1> DEFINE r == [request[c] EXCEPT !.at = IF m = Denied THEN "idle" ELSE "running", !.scope = m]
<1>2. request[c] \in RequestRecs
  BY DEF AgentInv, AgentTypeOK, RequestRecs
<1>3. /\ r \in RequestRecs /\ r.at # "sent" /\ r.scope = m
      /\ r.at = "running" => m # Denied
  BY <1>2 DEF RequestRecs
<1>4. request' = [request EXCEPT ![c] = r]
  BY <1>1
<1> HIDE DEF r
<1>5. m \in since[c]
  BY <1>1 DEF Authorize, AgentInv, MeaningNoted
<1> QED BY <1>3, <1>4, <1>5, RequestMoves DEF Authorize

LEMMA RequestEndsKeeps ==
  ASSUME AgentInv, NEW c \in Connections, RequestEnds(c)
  PROVE  AgentInv'
<1> DEFINE r == [request[c] EXCEPT !.at = "idle"]
<1>1. request[c] \in RequestRecs
  BY DEF AgentInv, AgentTypeOK, RequestRecs
<1>2. r \in RequestRecs /\ r.at = "idle"
  BY <1>1 DEF RequestRecs
<1>3. request' = [request EXCEPT ![c] = r]
  BY DEF RequestEnds
<1> HIDE DEF r
<1> QED BY <1>2, <1>3, RequestMoves DEF RequestEnds

\* A statement that leaves rows where there were rows leaves a state.
LEMMA RowsTyped ==
  ASSUME AgentInv, NEW rows \in [Names -> AgentRecs], Writes(rows),
         minted' \in Tokens, shown' \subseteq Tokens
  PROVE  AgentInv'
<1>1. AgentTypeOK'
  BY DEF AgentInv, AgentTypeOK, AgentRecs, Writes, Meanings, Tokens
<1> QED BY <1>1, WritesKeeps

LEMMA OperatorKeeps ==
  ASSUME AgentInv, NEW n \in Names,
         \/ \E s \in Scopes : \/ \E prints \in BOOLEAN : AddAgent(n, s, prints)
                              \/ SetBoundaries(n, s)
         \/ RevokeAgent(n)
  PROVE  AgentInv'
<1>1. AgentTypeOK /\ agent \in [Names -> AgentRecs]
  BY DEF AgentInv, AgentTypeOK, AgentRecs
<1>2. ASSUME NEW s \in Scopes, NEW prints \in BOOLEAN, AddAgent(n, s, prints) PROVE AgentInv'
  <2>1. minted + 1 \in Tokens
    BY <1>1, <1>2, AgentsAssumption DEF AddAgent, AgentTypeOK, Tokens
  <2>2. [agent EXCEPT ![n] = [token |-> minted + 1, scope |-> s, revoked |-> FALSE]]
          \in [Names -> AgentRecs]
    BY <1>1, <2>1 DEF AgentRecs, Meanings
  <2>3. minted' \in Tokens /\ shown' \subseteq Tokens
    BY <1>1, <1>2, <2>1 DEF AddAgent, AgentTypeOK
  <2> QED BY <1>2, <2>2, <2>3, RowsTyped DEF AddAgent
<1>3. ASSUME NEW s \in Scopes, SetBoundaries(n, s) PROVE AgentInv'
  <2>1. [agent EXCEPT ![n].scope = s] \in [Names -> AgentRecs]
    BY <1>1 DEF AgentRecs, Meanings
  <2> QED BY <1>1, <1>3, <2>1, RowsTyped DEF SetBoundaries, AgentTypeOK
<1>4. ASSUME RevokeAgent(n) PROVE AgentInv'
  <2>1. [agent EXCEPT ![n].revoked = TRUE] \in [Names -> AgentRecs]
    BY <1>1 DEF AgentRecs
  <2> QED BY <1>1, <1>4, <2>1, RowsTyped DEF RevokeAgent, AgentTypeOK
<1> QED BY <1>2, <1>3, <1>4

LEMMA AgentInitInv ==
  AgentInit => AgentInv
BY AgentsAssumption DEF AgentInit, AgentInv, AgentTypeOK, MeaningNoted, ScopeIsCurrent,
                        Tokens, NoToken, Meanings

LEMMA AgentStep ==
  AgentInv /\ [AgentNext]_agentVars => AgentInv'
<1> SUFFICES ASSUME AgentInv, [AgentNext]_agentVars PROVE AgentInv'
  OBVIOUS
<1>1. CASE UNCHANGED agentVars
  BY <1>1 DEF agentVars, AgentInv, AgentTypeOK, MeaningNoted, ScopeIsCurrent, Tokens,
              Meanings, Resolves, Unrevoked
<1> QED BY <1>1, OperatorKeeps, SendKeeps, AuthorizeKeeps, RequestEndsKeeps DEF AgentNext

\* However many agents, operators and connections there are, and however their steps
\* interleave, no request runs with a scope its token had lost before it was sent.
THEOREM ScopesCurrent ==
  AgentSpec => []ScopeIsCurrent
<1>1. AgentSpec => []AgentInv
  BY AgentInitInv, AgentStep, PTL DEF AgentSpec
<1>2. AgentInv => ScopeIsCurrent
  BY DEF AgentInv
<1> QED BY <1>1, <1>2, PTL

-----------------------------------------------------------------------------
(***************************************************************************)
(* Tool calls: ChangesOnRecord for any set of calls. However many          *)
(* connections append at once, the chain does not fork, and it tells       *)
(* exactly what changed.                                                   *)
(*                                                                         *)
(* The argument is the write lock: whoever is past its INSERT holds it, so *)
(* while a call is "linked" nobody else can commit, and the tip it read is *)
(* still the tip when it commits.                                          *)
(***************************************************************************)

Writing(c) == call[c].at \in {"changed", "linked"}

\* The holder of the write lock is the one call past its INSERT.
LockHeld == \A c \in Calls : Writing(c) <=> lockedBy = {c}

\* What a call is about to link to is the end of the chain.
TipKept == \A c \in Calls : call[c].at = "linked" => call[c].snap = Len(chain)

CallInv == CallTypeOK /\ LockHeld /\ TipKept /\ ChangesOnRecord

\* A new vault has an empty chain, a free lock and no call.
LEMMA CallStarts == CallInit => CallInv
  BY DEF CallInit, CallInv, CallTypeOK, CallSteps, Fresh, LockHeld, Writing, TipKept,
         ChangesOnRecord, VerifyChain, OnChain

\* A step that leaves chain and lock alone and takes one call from a place outside
\* its INSERT to another, with its effect as it was and no new success.
LEMMA Quiet ==
  ASSUME CallInv, CallTypeOK', UNCHANGED <<chain, lockedBy>>,
         NEW c \in Calls, ~ Writing(c), ~ Writing(c)',
         call'[c].effect = call[c].effect, call'[c].answer \in {call[c].answer, "error"},
         \A d \in Calls \ {c} : call'[d] = call[d]
  PROVE  CallInv'
  BY DEF CallInv, LockHeld, Writing, TipKept, ChangesOnRecord, VerifyChain, OnChain

\* A step that takes one call out of its INSERT, or past it, without a commit.
LEMMA GivesUp ==
  ASSUME CallInv, CallTypeOK', UNCHANGED chain,
         NEW c \in Calls, Release(c), ~ Writing(c)',
         call'[c].effect = call[c].effect,
         call'[c].answer = "ok" /\ c \notin Desktop => call[c].answer = "ok",
         \A d \in Calls \ {c} : call'[d] = call[d]
  PROVE  CallInv'
<1>1. LockHeld'
  <2> SUFFICES ASSUME NEW d \in Calls PROVE Writing(d)' <=> lockedBy' = {d}
    BY DEF LockHeld
  <2>1. CASE d = c
    BY <2>1 DEF Release, CallInv, LockHeld
  <2>2. CASE d # c
    <3>1. Writing(d)' <=> Writing(d)
      BY <2>2 DEF Writing
    <3>2. lockedBy' = {d} <=> lockedBy = {d}
      BY <2>2 DEF Release, CallInv, CallTypeOK
    <3> QED BY <3>1, <3>2 DEF CallInv, LockHeld
  <2> QED BY <2>1, <2>2
<1>2. TipKept'
  BY DEF CallInv, TipKept, Writing
<1>3. ChangesOnRecord'
  BY DEF CallInv, ChangesOnRecord, VerifyChain, OnChain
<1> QED BY <1>1, <1>2, <1>3 DEF CallInv

\* A commit: the holder of the lock appends one event that links to the tip.
LEMMA Commits ==
  ASSUME CallInv, CallTypeOK', NEW c \in Calls, Writing(c), ~ Writing(c)', Release(c),
         NEW kind \in {"memory", "tool"}, Links(c, Len(chain), kind),
         call'[c].effect = (call[c].effect \/ kind = "memory"),
         call'[c].answer = "ok" => call[c].answer = "ok" \/ kind = "tool",
         \A d \in Calls \ {c} : call'[d] = call[d]
  PROVE  CallInv'
<1>0. lockedBy = {c} /\ lockedBy' = {}
  BY DEF CallInv, LockHeld, Release
<1>1. \A d \in Calls : ~ Writing(d)'
  BY <1>0 DEF CallInv, LockHeld, Writing
<1>2. LockHeld' /\ TipKept'
  BY <1>0, <1>1 DEF LockHeld, TipKept, Writing
<1>3. /\ Len(chain') = Len(chain) + 1
      /\ chain'[Len(chain) + 1] = [prev |-> Len(chain), by |-> c, kind |-> kind]
      /\ \A i \in 1..Len(chain) : chain'[i] = chain[i]
      /\ DOMAIN chain = 1..Len(chain) /\ DOMAIN chain' = 1..(Len(chain) + 1)
      /\ Len(chain) \in Nat
  BY DEF CallInv, CallTypeOK, Links
<1>4. VerifyChain(chain)'
  <2> SUFFICES ASSUME NEW i \in 1..(Len(chain) + 1) PROVE chain'[i].prev = i - 1
    BY <1>3 DEF VerifyChain
  <2>1. CASE i \in 1..Len(chain)
    BY <1>3, <2>1 DEF CallInv, ChangesOnRecord, VerifyChain
  <2>2. CASE i = Len(chain) + 1
    BY <1>3, <2>2
  <2> QED BY <1>3, <2>1, <2>2
<1>5. ASSUME NEW d \in Calls, NEW k \in {"memory", "tool"}
      PROVE  OnChain(d, k)' <=> OnChain(d, k) \/ (d = c /\ k = kind)
  BY <1>3 DEF OnChain
<1>6. ASSUME NEW d \in Calls
      PROVE  /\ call'[d].effect <=> OnChain(d, "memory")'
             /\ call'[d].answer = "ok" /\ d \notin Desktop => OnChain(d, "tool")'
  <2>1. CASE d = c
    BY <1>5, <2>1 DEF CallInv, ChangesOnRecord
  <2>2. CASE d # c
    BY <1>5, <2>2 DEF CallInv, ChangesOnRecord
  <2> QED BY <2>1, <2>2
<1> QED BY <1>2, <1>4, <1>6 DEF CallInv, ChangesOnRecord

\* Every step keeps the types.
CallRecord == [at : CallSteps, tool : {"write", "delete"}, snap : Nat,
               result : {"none", "ok", "error"}, effect : BOOLEAN,
               answer : {"none", "ok", "error"}]
Events == [prev : Nat, by : Calls, kind : {"memory", "tool"}]
Owners == {{}} \cup {{c} : c \in Calls}

\* One call's record changes.
LEMMA OneCall ==
  ASSUME CallTypeOK, NEW c \in Calls, NEW r \in CallRecord, call' = [call EXCEPT ![c] = r]
  PROVE  call' \in [Calls -> CallRecord]
  BY DEF CallTypeOK, CallRecord

\* A released lock is still free or somebody's.
LEMMA Released ==
  ASSUME CallTypeOK, NEW c \in Calls, Release(c)
  PROVE  lockedBy' \in Owners
  BY DEF CallTypeOK, Owners, Release

LEMMA CallTyped ==
  ASSUME CallTypeOK, [CallNext]_callVars
  PROVE  CallTypeOK'
<1>0. /\ chain \in Seq(Events) /\ lockedBy \in Owners
      /\ call \in [Calls -> CallRecord]
  BY DEF CallTypeOK, Events, Owners, CallRecord
<1> SUFFICES chain' \in Seq(Events) /\ lockedBy' \in Owners /\ call' \in [Calls -> CallRecord]
  BY DEF CallTypeOK, Events, Owners, CallRecord
<1>t. ASSUME NEW c \in Calls PROVE call[c] \in CallRecord
  BY <1>0
<1>1. CASE UNCHANGED callVars
  BY <1>0, <1>1 DEF callVars
<1>2. ASSUME NEW c \in Calls, NEW tool \in {"write", "delete"}, Accept(c, tool)
      PROVE  chain' \in Seq(Events) /\ lockedBy' \in Owners /\ call' \in [Calls -> CallRecord]
  <2>1. [call[c] EXCEPT !.at = IF tool = "delete" THEN "looking" ELSE "changing", !.tool = tool]
           \in CallRecord
    BY <1>t DEF CallRecord, CallSteps
  <2> QED BY <1>0, <1>2, <2>1, OneCall DEF Accept
<1>3. ASSUME NEW c \in Calls, NEW r \in {"ok", "error"}, Results(c, r)
      PROVE  call' \in [Calls -> CallRecord]
  <2>1. [call[c] EXCEPT !.at = "auditing", !.result = r] \in CallRecord
    BY <1>t DEF CallRecord, CallSteps
  <2> QED BY <1>3, <2>1, OneCall DEF Results
<1>4. ASSUME NEW c \in Calls, NEW where \in {"changing", "linking"},
             call' = [call EXCEPT ![c] = [@ EXCEPT !.at = where, !.snap = Tip]]
      PROVE  call' \in [Calls -> CallRecord]
  <2>1. [call[c] EXCEPT !.at = where, !.snap = Tip] \in CallRecord
    <3>1. Tip \in Nat
      BY <1>0 DEF Tip
    <3> QED BY <1>t, <3>1 DEF CallRecord, CallSteps
  <2> QED BY <1>4, <2>1, OneCall
<1>5. ASSUME NEW c \in Calls, NEW where \in CallSteps, Moves(c, where)
      PROVE  call' \in [Calls -> CallRecord]
  <2>1. [call[c] EXCEPT !.at = where] \in CallRecord
    BY <1>t DEF CallRecord
  <2> QED BY <1>5, <2>1, OneCall DEF Moves
<1>6. ASSUME NEW c \in Calls, NEW a \in {"none", "ok", "error"}, Answers(c, a)
      PROVE  call' \in [Calls -> CallRecord]
  <2>1. [call[c] EXCEPT !.at = "over", !.answer = a] \in CallRecord
    BY <1>t DEF CallRecord, CallSteps
  <2> QED BY <1>6, <2>1, OneCall DEF Answers
<1>7. ASSUME NEW c \in Calls, NEW p \in Nat, NEW kind \in {"memory", "tool"}, Links(c, p, kind)
      PROVE  chain' \in Seq(Events)
  <2>1. [prev |-> p, by |-> c, kind |-> kind] \in Events
    BY DEF Events
  <2> QED BY <1>0, <1>7, <2>1 DEF Links
<1>8. ASSUME NEW c \in Calls, lockedBy' = {c} PROVE lockedBy' \in Owners
  BY <1>8 DEF Owners
<1>9. ASSUME NEW c \in Calls, Look(c) \/ Refuse(c) \/ ChangeFails(c)
      PROVE  chain' \in Seq(Events) /\ lockedBy' \in Owners /\ call' \in [Calls -> CallRecord]
  BY <1>0, <1>3, <1>6, <1>9, Released DEF Look, Refuse, ChangeFails
<1>10. ASSUME NEW c \in Calls, DeleteReads(c) \/ ReadTip(c)
       PROVE  chain' \in Seq(Events) /\ lockedBy' \in Owners /\ call' \in [Calls -> CallRecord]
  BY <1>0, <1>4, <1>10 DEF DeleteReads, ReadTip
<1>11. ASSUME NEW c \in Calls, ChangeLocks(c) \/ RowLocks(c)
       PROVE  chain' \in Seq(Events) /\ lockedBy' \in Owners /\ call' \in [Calls -> CallRecord]
  BY <1>0, <1>5, <1>8, <1>11 DEF ChangeLocks, RowLocks, CallSteps
<1>12. ASSUME NEW c \in Calls, ChangeCommits(c)
       PROVE  chain' \in Seq(Events) /\ lockedBy' \in Owners /\ call' \in [Calls -> CallRecord]
  <2>1. [call[c] EXCEPT !.at = "auditing", !.result = "ok", !.effect = TRUE] \in CallRecord
    BY <1>t DEF CallRecord, CallSteps
  <2>2. Tip \in Nat
    BY <1>0 DEF Tip
  <2>3. Links(c, Tip, "memory")
    BY <1>12 DEF ChangeCommits
  <2> QED BY <1>7, <1>12, <2>1, <2>2, <2>3, OneCall, Released DEF ChangeCommits
<1>13. ASSUME NEW c \in Calls, RowCommits(c)
       PROVE  chain' \in Seq(Events) /\ lockedBy' \in Owners /\ call' \in [Calls -> CallRecord]
  <2>1. call[c].snap \in Nat /\ call[c].result \in {"none", "ok", "error"}
    BY <1>t DEF CallRecord
  <2> QED BY <1>6, <1>7, <1>13, <2>1, Released DEF RowCommits
<1>14. ASSUME NEW c \in Calls, AuditFails(c) \/ CallerDies(c)
       PROVE  chain' \in Seq(Events) /\ lockedBy' \in Owners /\ call' \in [Calls -> CallRecord]
  <2>1. (IF c \in Desktop THEN call[c].result ELSE "error") \in {"none", "ok", "error"}
    BY <1>t DEF CallRecord
  <2>2. CASE AuditFails(c)
    BY <1>0, <1>6, <2>1, <2>2, Released DEF AuditFails
  <2>3. CASE CallerDies(c)
    BY <1>0, <1>5, <2>3, Released DEF CallerDies, CallSteps
  <2> QED BY <1>14, <2>2, <2>3
<1> QED
  BY <1>1, <1>2, <1>9, <1>10, <1>11, <1>12, <1>13, <1>14 DEF CallNext

\* An INSERT that gets the lock: nobody else is past one.
LEMMA Locks ==
  ASSUME CallInv, CallTypeOK', NEW c \in Calls, lockedBy = {}, lockedBy' = {c}, UNCHANGED chain,
         Writing(c)', call'[c].at = "linked" => call'[c].snap = Len(chain),
         call'[c].effect = call[c].effect, call'[c].answer = call[c].answer,
         \A d \in Calls \ {c} : call'[d] = call[d]
  PROVE  CallInv'
<1>1. \A d \in Calls : ~ Writing(d)
  BY DEF CallInv, LockHeld
<1>2. LockHeld' /\ TipKept'
  BY <1>1 DEF LockHeld, TipKept, Writing
<1>3. ChangesOnRecord'
  BY DEF CallInv, ChangesOnRecord, VerifyChain, OnChain
<1> QED BY <1>2, <1>3 DEF CallInv

LEMMA CallKeeps == CallInv /\ [CallNext]_callVars => CallInv'
<1> SUFFICES ASSUME CallInv, [CallNext]_callVars PROVE CallInv'
  OBVIOUS
<1>0. CallTypeOK /\ CallTypeOK'
  BY CallTyped DEF CallInv
<1>t. ASSUME NEW c \in Calls
      PROVE  call[c] \in [at : CallSteps, tool : {"write", "delete"}, snap : Nat,
                          result : {"none", "ok", "error"}, effect : BOOLEAN,
                          answer : {"none", "ok", "error"}]
             /\ DOMAIN call = Calls
  BY <1>0 DEF CallTypeOK
<1>1. CASE UNCHANGED callVars
  BY <1>0, <1>1 DEF callVars, CallInv, LockHeld, Writing, TipKept, ChangesOnRecord, VerifyChain, OnChain
<1>2. ASSUME NEW c \in Calls, NEW tool \in {"write", "delete"}, Accept(c, tool) PROVE CallInv'
  BY <1>0, <1>2, <1>t, Quiet DEF Accept, Writing
<1>3. ASSUME NEW c \in Calls, Look(c) \/ Refuse(c) PROVE CallInv'
  <2>1. CASE Look(c)
    BY <1>0, <2>1, <1>t, Quiet DEF Look, Results, Answers, Writing
  <2>2. CASE Refuse(c)
    <3>1. ~ Writing(c) /\ UNCHANGED <<chain, lockedBy>>
      BY <2>2 DEF Refuse, Writing
    <3>2. /\ ~ Writing(c)' /\ call'[c].effect = call[c].effect
          /\ call'[c].answer \in {call[c].answer, "error"}
          /\ \A d \in Calls \ {c} : call'[d] = call[d]
      <4>1. PICK r \in {[call[c] EXCEPT !.at = "auditing", !.result = "error"],
                         [call[c] EXCEPT !.at = "auditing", !.result = "ok"],
                         [call[c] EXCEPT !.at = "over", !.answer = "error"]} :
              call' = [call EXCEPT ![c] = r]
        BY <2>2 DEF Refuse, Results, Answers
      <4>2. /\ r.at \in {"auditing", "over"} /\ r.effect = call[c].effect
            /\ r.answer \in {call[c].answer, "error"}
        BY <1>t, <4>1
      <4>3. call'[c] = r /\ \A d \in Calls \ {c} : call'[d] = call[d]
        BY <1>0, <1>t, <4>1
      <4> QED BY <4>2, <4>3 DEF Writing
    <3> QED BY <1>0, <1>t, <3>1, <3>2, Quiet
  <2> QED BY <1>3, <2>1, <2>2
<1>4. ASSUME NEW c \in Calls, DeleteReads(c) \/ ReadTip(c) PROVE CallInv'
  BY <1>0, <1>4, <1>t, Quiet DEF DeleteReads, ReadTip, Writing
<1>5. ASSUME NEW c \in Calls, ChangeLocks(c) \/ RowLocks(c) PROVE CallInv'
  BY <1>0, <1>5, <1>t, Locks DEF ChangeLocks, RowLocks, Moves, Writing, Tip
<1>6. ASSUME NEW c \in Calls, ChangeCommits(c) PROVE CallInv'
  BY <1>0, <1>6, <1>t, Commits DEF ChangeCommits, Writing, Tip
<1>7. ASSUME NEW c \in Calls, ChangeFails(c) PROVE CallInv'
  BY <1>0, <1>7, <1>t, GivesUp DEF ChangeFails, Results, Writing
<1>8. ASSUME NEW c \in Calls, RowCommits(c) PROVE CallInv'
  <2>1. call[c].snap = Len(chain)
    BY <1>8 DEF RowCommits, CallInv, TipKept
  <2> QED BY <1>0, <1>8, <1>t, <2>1, Commits DEF RowCommits, Answers, Writing
<1>9. ASSUME NEW c \in Calls, AuditFails(c) \/ CallerDies(c) PROVE CallInv'
  <2>1. CASE AuditFails(c)
    BY <1>0, <2>1, <1>t, GivesUp DEF AuditFails, Answers, Moves, Writing
  <2>2. CASE CallerDies(c)
    BY <1>0, <2>2, <1>t, GivesUp DEF CallerDies, Answers, Moves, Writing
  <2> QED BY <1>9, <2>1, <2>2
<1> QED
  BY <1>1, <1>2, <1>3, <1>4, <1>5, <1>6, <1>7, <1>8, <1>9 DEF CallNext

\* The lock is held by the one call past its INSERT, and what that call will link
\* to is the end of the chain: no two connections link to the same event.
THEOREM NoFork == CallSpec => [](LockHeld /\ TipKept)
<1>1. CallInv => LockHeld /\ TipKept
  BY DEF CallInv
<1> QED BY <1>1, CallStarts, CallKeeps, PTL DEF CallSpec

\* The audit chain is one chain and tells exactly the committed changes; an agent's
\* call that answered success is on it.
THEOREM AuditComplete == CallSpec => []ChangesOnRecord
<1>1. CallInv => ChangesOnRecord
  BY DEF CallInv
<1> QED BY <1>1, CallStarts, CallKeeps, PTL DEF CallSpec

-----------------------------------------------------------------------------
(***************************************************************************)
(* Dead letters: LagExplained for any number of operators and operations.  *)
(*                                                                         *)
(* The strengthening: as long as nothing was applied out of order, every   *)
(* operation is still queued, or not later than what the vector store      *)
(* holds, or has its failure on record; and an operator about to record a  *)
(* success has applied the entry.                                          *)
(***************************************************************************)

Made == 1..Len(ops)

\* What is queued, dead or in an operator's hands was committed by a client.
OnlyMade ==
  /\ vec \in Made \cup {0}
  /\ queued \subseteq Made
  /\ \A i \in OpIds : dead[i] # "none" => i \in Made
  /\ \A o \in Operators : operator[o].at # "away" => operator[o].entry \in Made

\* No operation goes missing.
Accounted == ~ overtaken => \A i \in Made : i \in queued \/ i <= vec \/ Unapplied(i)

\* A success that is about to be recorded is one.
SuccessMeant ==
  ~ overtaken => \A o \in Operators :
    operator[o].at = "retried_succeeded" => operator[o].entry <= vec

TriageInv == TriageTypeOK /\ Len(ops) \in 0..TMaxOps /\ OnlyMade /\ Accounted /\ SuccessMeant

LEMMA TriageStarts == TriageInit => TriageInv
<1> SUFFICES ASSUME TriageInit PROVE TriageInv
  OBVIOUS
<1>1. Len(ops) = 0 /\ ops \in [1..0 -> {"write", "delete"}] /\ 0 \in 0..TMaxOps
  BY TriageAssumption DEF TriageInit, TriageAssumption
<1>2. TriageTypeOK
  BY <1>1 DEF TriageInit, TriageTypeOK, Away, OpIds
<1> QED
  BY <1>1, <1>2 DEF TriageInit, TriageInv, OnlyMade, Made, Accounted, SuccessMeant, Away

\* The operations as a sequence of some length.
LEMMA OpsShape ==
  ASSUME TriageInv
  PROVE  /\ Len(ops) \in Nat /\ Len(ops) <= TMaxOps
         /\ ops \in [1..Len(ops) -> {"write", "delete"}]
         /\ Made \subseteq OpIds
  BY TriageAssumption DEF TriageInv, TriageTypeOK, TriageAssumption, Made, OpIds

LEMMA TriageTyped ==
  ASSUME TriageInv, TriageNext
  PROVE  TriageTypeOK' /\ Len(ops') \in 0..TMaxOps
<1> USE DEF TriageTypeOK
<1>0. TriageTypeOK /\ Len(ops) \in 0..TMaxOps
  BY DEF TriageInv
<1>1. CASE ClientChanges
  <2> PICK kind \in {"write", "delete"} : ops' = Append(ops, kind)
    BY <1>1 DEF ClientChanges
  <2>a. ops \in Seq({"write", "delete"}) /\ Len(ops) \in Nat /\ Len(ops) < TMaxOps
    BY <1>1, OpsShape DEF ClientChanges
  <2>b. ops' \in Seq({"write", "delete"}) /\ Len(ops') = Len(ops) + 1
    BY <2>a
  <2>1. Len(ops) + 1 \in OpIds /\ Len(ops) + 1 \in 0..TMaxOps
    BY <2>a, TriageAssumption DEF OpIds, TriageAssumption
  <2>2. ops' \in [1..(Len(ops) + 1) -> {"write", "delete"}]
    BY <2>b, LenProperties
  <2>3. ops' \in UNION {[1..n -> {"write", "delete"}] : n \in 0..TMaxOps}
    BY <2>1, <2>2
  <2> QED BY <1>0, <1>1, <2>b, <2>1, <2>3 DEF ClientChanges
<1>2. ASSUME NEW i \in OpIds, WorkerApplies(i) PROVE TriageTypeOK' /\ Len(ops') \in 0..TMaxOps
  BY <1>0, <1>2 DEF WorkerApplies, Applies, OpIds
<1>3. ASSUME NEW i \in OpIds, WorkerGivesUp(i) \/ WorkerBuries(i)
      PROVE  TriageTypeOK' /\ Len(ops') \in 0..TMaxOps
  BY <1>0, <1>3 DEF WorkerGivesUp, WorkerBuries, OpIds
<1>4. ASSUME NEW o \in Operators, NEW i \in OpIds, OpenEntry(o, i)
      PROVE  TriageTypeOK' /\ Len(ops') \in 0..TMaxOps
  BY <1>0, <1>4 DEF OpenEntry, Resolutions, OpIds
<1>5. ASSUME NEW o \in Operators, RetryApplies(o) PROVE TriageTypeOK' /\ Len(ops') \in 0..TMaxOps
  BY <1>0, <1>5 DEF RetryApplies, Applies, Reaches, Resolutions
<1>6. ASSUME NEW o \in Operators, RetryFails(o) PROVE TriageTypeOK' /\ Len(ops') \in 0..TMaxOps
  BY <1>0, <1>6 DEF RetryFails, Reaches, Resolutions
<1>7. ASSUME NEW o \in Operators, Resolve(o) PROVE TriageTypeOK' /\ Len(ops') \in 0..TMaxOps
  <2> DEFINE i == operator[o].entry
             V == {"none", "cut", "pending"} \cup Resolutions
             A == [at : {"away", "retrying"} \cup Resolutions, entry : 0..TMaxOps]
  <2>1. dead \in [OpIds -> V] /\ operator \in [Operators -> A] /\ operator[o].at \in V
    BY <1>0, <1>7 DEF Resolve
  <2>2. dead' \in [OpIds -> V]
    <3> HIDE DEF i, V
    <3>1. dead' = [dead EXCEPT ![i] = IF dead[i] = "pending" THEN operator[o].at ELSE dead[i]]
      BY <1>7 DEF Resolve, i
    <3> QED BY <2>1, <3>1
  <2>3. Away \in A
    BY TriageAssumption DEF Away, TriageAssumption
  <2>4. operator' \in [Operators -> A]
    <3> HIDE DEF A
    <3> QED BY <1>7, <2>1, <2>3 DEF Resolve
  <2> QED BY <1>0, <1>7, <2>2, <2>4 DEF Resolve
<1>8. ASSUME NEW o \in Operators, OperatorLeaves(o) PROVE TriageTypeOK' /\ Len(ops') \in 0..TMaxOps
  BY <1>0, <1>8, TriageAssumption DEF OperatorLeaves, Away, TriageAssumption
<1> QED BY <1>1, <1>2, <1>3, <1>4, <1>5, <1>6, <1>7, <1>8 DEF TriageNext

LEMMA TriageKeeps ==
  ASSUME TriageInv, [TriageNext]_triageVars
  PROVE  TriageInv'
<1>1. CASE UNCHANGED triageVars
  BY <1>1 DEF triageVars, TriageInv, TriageTypeOK, OnlyMade, Made, Accounted, SuccessMeant, Unapplied
<1>2. CASE TriageNext
  <2>0. TriageTypeOK /\ TriageTypeOK' /\ Len(ops') \in 0..TMaxOps
    BY <1>2, TriageTyped DEF TriageInv
  <2>t. /\ vec \in Nat /\ overtaken \in BOOLEAN /\ DOMAIN dead = OpIds /\ DOMAIN operator = Operators
        /\ \A o \in Operators : operator[o].entry \in Nat
        /\ \A o \in Operators : operator[o] = [at |-> operator[o].at, entry |-> operator[o].entry]
    BY <2>0, TriageAssumption DEF TriageTypeOK, TriageAssumption
  <2>s. Len(ops) \in Nat /\ Made \subseteq OpIds /\ OpIds \subseteq Nat /\ Made \subseteq Nat
    BY OpsShape, TriageAssumption DEF OpIds, TriageAssumption
  <2> USE DEF TriageInv, OnlyMade, Accounted, SuccessMeant, Unapplied
  <2>1. CASE ClientChanges
    <3>1. Len(ops') = Len(ops) + 1 /\ Made' = Made \cup {Len(ops) + 1}
      BY <2>1, OpsShape DEF ClientChanges, Made
    <3> QED BY <2>0, <2>1, <2>t, <2>s, <3>1 DEF ClientChanges
  <2>2. ASSUME NEW i \in OpIds, WorkerApplies(i) PROVE TriageInv'
    <3>1. Made' = Made /\ vec' = i /\ i \in Made
      BY <2>2 DEF WorkerApplies, Applies, Made
    <3>a. overtaken' = (overtaken \/ i < vec)
      BY <2>2 DEF WorkerApplies, Applies
    <3>b. ~ overtaken' => ~ overtaken /\ ~ (i < vec)
      BY <3>a, Zenon
    <3>2. ~ overtaken' => ~ overtaken /\ vec <= i
      BY <2>t, <2>s, <3>1, <3>b
    <3>3. OnlyMade'
      BY <2>2, <3>1 DEF WorkerApplies
    <3>4. Accounted'
      BY <2>2, <2>t, <2>s, <3>1, <3>2 DEF WorkerApplies
    <3>5. SuccessMeant'
      BY <2>2, <2>t, <2>s, <3>1, <3>2 DEF WorkerApplies
    <3> QED BY <2>0, <3>3, <3>4, <3>5
  <2>3. ASSUME NEW i \in OpIds, WorkerGivesUp(i) \/ WorkerBuries(i) PROVE TriageInv'
    <3>1. Made' = Made /\ i \in Made
      BY <2>3 DEF WorkerGivesUp, WorkerBuries, Made
    <3>2. /\ dead' \in {[dead EXCEPT ![i] = "cut"], [dead EXCEPT ![i] = "pending"]}
          /\ queued' \subseteq queued /\ queued \ {i} \subseteq queued'
          /\ UNCHANGED <<vec, operator, overtaken, ops>>
      BY <2>3 DEF WorkerGivesUp, WorkerBuries
    <3>3. /\ dead'[i] \in {"cut", "pending"}
          /\ \A j \in OpIds \ {i} : dead'[j] = dead[j]
      BY <2>t, <3>2
    <3>4. OnlyMade'
      BY <3>1, <3>2, <3>3
    <3>5. Accounted'
      BY <2>s, <3>1, <3>2, <3>3
    <3>6. SuccessMeant'
      BY <3>1, <3>2
    <3> QED BY <2>0, <3>4, <3>5, <3>6
  <2>4. ASSUME NEW o \in Operators, NEW i \in OpIds, OpenEntry(o, i) PROVE TriageInv'
    <3>1. Made' = Made /\ i \in Made
      BY <2>4 DEF OpenEntry, Made
    <3> QED BY <2>0, <2>4, <2>t, <3>1 DEF OpenEntry
  <2>5. ASSUME NEW o \in Operators, RetryApplies(o) PROVE TriageInv'
    <3> DEFINE i == operator[o].entry
    <3>1. Made' = Made /\ vec' = i /\ i \in Made
      BY <2>5 DEF RetryApplies, Applies, Made
    <3>a. overtaken' = (overtaken \/ i < vec)
      BY <2>5 DEF RetryApplies, Applies
    <3>b. ~ overtaken' => ~ overtaken /\ ~ (i < vec)
      BY <3>a, Zenon
    <3>2. ~ overtaken' => ~ overtaken /\ vec <= i
      BY <2>t, <2>s, <3>1, <3>b
    <3>3. operator'[o].entry = i /\ \A q \in Operators \ {o} : operator'[q] = operator[q]
      BY <2>5, <2>t DEF RetryApplies, Reaches
    <3>3a. \A q \in Operators : operator'[q].entry = operator[q].entry
      BY <3>3
    <3>4. OnlyMade'
      BY <2>5, <3>1, <3>3 DEF RetryApplies
    <3>5. Accounted'
      BY <2>5, <2>t, <2>s, <3>1, <3>2 DEF RetryApplies
    <3>6. SuccessMeant'
      BY <2>5, <2>t, <2>s, <3>1, <3>2, <3>3 DEF RetryApplies
    <3> QED BY <2>0, <3>4, <3>5, <3>6
  <2>6. ASSUME NEW o \in Operators, RetryFails(o) PROVE TriageInv'
    <3>1. Made' = Made
      BY <2>6 DEF RetryFails, Made
    <3>2. operator'[o] = [at |-> "retried_failed", entry |-> operator[o].entry]
          /\ \A q \in Operators \ {o} : operator'[q] = operator[q]
      BY <2>6, <2>t DEF RetryFails, Reaches
    <3> QED BY <2>0, <2>6, <2>t, <3>1, <3>2 DEF RetryFails
  <2>7. ASSUME NEW o \in Operators, Resolve(o) PROVE TriageInv'
    <3> DEFINE i == operator[o].entry
    <3>1. Made' = Made /\ i \in Made /\ operator[o].at # "away"
      BY <2>7 DEF Resolve, Resolutions, Made
    <3>2. operator'[o].at = "away" /\ \A q \in Operators \ {o} : operator'[q] = operator[q]
      BY <2>7, <2>t DEF Resolve, Away
    <3>3. ~ overtaken /\ operator[o].at = "retried_succeeded" => i <= vec
      OBVIOUS
    <3>4. dead'[i] = IF dead[i] = "pending" THEN operator[o].at ELSE dead[i]
      BY <2>7, <2>t, <2>s, <3>1 DEF Resolve
    <3>4a. \A j \in OpIds : j # i => dead'[j] = dead[j]
      BY <2>7, <2>t DEF Resolve
    <3>5. OnlyMade'
      BY <2>7, <2>s, <3>1, <3>2, <3>4, <3>4a DEF Resolve
    <3>6. Accounted'
      BY <2>7, <2>t, <2>s, <3>1, <3>3, <3>4, <3>4a DEF Resolve, Resolutions
    <3>7. SuccessMeant'
      BY <2>7, <3>1, <3>2 DEF Resolve
    <3> QED BY <2>0, <3>5, <3>6, <3>7
  <2>8. ASSUME NEW o \in Operators, OperatorLeaves(o) PROVE TriageInv'
    <3>1. Made' = Made
      BY <2>8 DEF OperatorLeaves, Made
    <3>2. operator'[o].at = "away" /\ \A q \in Operators \ {o} : operator'[q] = operator[q]
      BY <2>8, <2>t DEF OperatorLeaves, Away
    <3> QED BY <2>0, <2>8, <3>1, <3>2 DEF OperatorLeaves
  <2> QED BY <1>2, <2>1, <2>2, <2>3, <2>4, <2>5, <2>6, <2>7, <2>8 DEF TriageNext
<1> QED BY <1>1, <1>2

LEMMA TriageInvariant == TriageSpec => []TriageInv
<1>1. TriageInv /\ [TriageNext]_triageVars => TriageInv'
  BY TriageKeeps
<1> QED BY <1>1, TriageStarts, PTL DEF TriageSpec

\* A success an operator is about to record is one: the payload of the entry was
\* applied and nothing older has come over it since, unless the order was broken.
THEOREM SuccessIsApplied == TriageSpec => []SuccessMeant
<1>1. TriageInv => SuccessMeant
  BY DEF TriageInv
<1> QED BY <1>1, TriageInvariant, PTL

\* A vector that is not the row's has its reason among the dead letters.
THEOREM LagOnRecord == TriageSpec => []LagExplained
<1>1. TriageInv => LagExplained
  <2> SUFFICES ASSUME TriageInv, queued = {}, ~ overtaken, Leaves(vec) # Leaves(Len(ops))
              PROVE  \E i \in 1..Len(ops) : i > vec /\ Unapplied(i)
    BY DEF LagExplained
  <2>1. Len(ops) \in Nat /\ vec \in 0..Len(ops) /\ vec # Len(ops)
    BY OpsShape DEF TriageInv, OnlyMade, Made
  <2>2. Len(ops) \in Made /\ Len(ops) > vec
    BY <2>1 DEF Made
  <2>3. Unapplied(Len(ops))
    BY <2>1, <2>2 DEF TriageInv, Accounted
  <2> QED BY <2>2, <2>3 DEF Made
<1> QED BY <1>1, TriageInvariant, PTL
=============================================================================
