------------------------------- MODULE Agents -------------------------------
(***************************************************************************)
(* Agents and what they may reach (vault-storage/agent_token_store.rs):    *)
(* the rows of agent_tokens, the operators who add, re-scope and revoke    *)
(* agents with vault-cli or the desktop app, and the daemon, which         *)
(* resolves the token of each request.                                     *)
(*                                                                         *)
(* A token is the number of its minting, and stands for its hash.  The     *)
(* processes share the database: a command may fall between any two steps  *)
(* of a request.                                                           *)
(***************************************************************************)
EXTENDS Naturals

CONSTANTS
  Names,           \* agent names
  Scopes,          \* sets of boundaries an operator grants
  Denied,          \* no active agent has the token
  Connections,     \* each makes one request at a time
  AMaxTokens,      \* bound: tokens minted
  AMaxRequests     \* bound: requests made

ASSUME AgentsAssumption ==
  /\ AMaxTokens \in Nat /\ AMaxRequests \in Nat
  /\ Denied \notin Scopes

NoToken == 0
Tokens  == 0..AMaxTokens
Meanings == Scopes \cup {Denied}       \* of a token

VARIABLES
  agent,           \* name -> its row: token, scope, revoked; NoToken if it has none
  minted,          \* tokens minted so far
  shown,           \* those an operator has seen, and so an agent may present
  request,         \* connection -> where its request is, its token, what that came to
  requests,
  since            \* history: connection -> what its token has meant since it was sent

agentVars == <<agent, minted, shown, request, requests, since>>

AgentTypeOK ==
  /\ agent \in [Names -> [token : Tokens, scope : Meanings, revoked : BOOLEAN]]
  /\ minted \in Tokens
  /\ shown \subseteq Tokens
  /\ request \in [Connections -> [at : {"idle", "sent", "running"},
                                  token : Tokens, scope : Meanings]]
  /\ requests \in 0..AMaxRequests
  /\ since \in [Connections -> SUBSET Meanings]

AgentInit ==
  /\ agent = [n \in Names |-> [token |-> NoToken, scope |-> Denied, revoked |-> FALSE]]
  /\ minted = 0 /\ shown = {}
  /\ request = [c \in Connections |-> [at |-> "idle", token |-> NoToken, scope |-> Denied]]
  /\ requests = 0
  /\ since = [c \in Connections |-> {}]

\* lookup_agent_by_token_hash.
Unrevoked(rows, n) == rows[n].token # NoToken /\ ~ rows[n].revoked
Resolves(rows, t, m) ==
  \/ \E n \in Names : Unrevoked(rows, n) /\ rows[n].token = t /\ m = rows[n].scope
  \/ m = Denied /\ \A n \in Names : ~ (Unrevoked(rows, n) /\ rows[n].token = t)

\* An operator's statement, in a transaction of its own; the history follows.
Writes(rows) ==
  /\ agent' = rows
  /\ since' = [c \in Connections |->
                 IF request[c].at = "sent"
                 THEN since[c] \cup {m \in Meanings : Resolves(rows, request[c].token, m)}
                 ELSE since[c]]
  /\ UNCHANGED <<request, requests>>

-----------------------------------------------------------------------------
\* agent_add mints a token and registers its hash; it prints the token afterwards,
\* if it still lives.
AddAgent(n, s, prints) ==
  /\ minted < AMaxTokens
  /\ agent[n].token = NoToken
  /\ Writes([agent EXCEPT ![n] = [token |-> minted + 1, scope |-> s, revoked |-> FALSE]])
  /\ minted' = minted + 1
  /\ shown' = IF prints THEN shown \cup {minted + 1} ELSE shown

\* set_agent_boundaries: a name without an active agent is an error that changes nothing.
SetBoundaries(n, s) ==
  /\ Unrevoked(agent, n)
  /\ Writes([agent EXCEPT ![n].scope = s])
  /\ UNCHANGED <<minted, shown>>

\* revoke_agent_token: the row stays, and with it the name.
RevokeAgent(n) ==
  /\ Unrevoked(agent, n)
  /\ Writes([agent EXCEPT ![n].revoked = TRUE])
  /\ UNCHANGED <<minted, shown>>

-----------------------------------------------------------------------------
\* A request reaches the daemon, with a token or without.
Send(c, t) ==
  /\ request[c].at = "idle" /\ requests < AMaxRequests
  /\ request' = [request EXCEPT ![c] = [@ EXCEPT !.at = "sent", !.token = t]]
  /\ requests' = requests + 1
  /\ since' = [since EXCEPT ![c] = {m \in Meanings : Resolves(agent, t, m)}]
  /\ UNCHANGED <<agent, minted, shown>>

\* Mutant: the session keeps what its first request was resolved to.
AuthorizeOnce(c) ==
  /\ request[c].at = "sent"
  /\ \E m \in Meanings :
       /\ IF request[c].scope = Denied THEN Resolves(agent, request[c].token, m)
                                       ELSE m = request[c].scope
       /\ request' = [request EXCEPT ![c] =
            [@ EXCEPT !.at = IF m = Denied THEN "idle" ELSE "running", !.scope = m]]
  /\ UNCHANGED <<agent, minted, shown, requests, since>>

\* authorize: the lookup, once per request; without an agent the answer is a denial.
Authorize(c) ==
  /\ request[c].at = "sent"
  /\ \E m \in Meanings :
       /\ Resolves(agent, request[c].token, m)
       /\ request' = [request EXCEPT ![c] =
            [@ EXCEPT !.at = IF m = Denied THEN "idle" ELSE "running", !.scope = m]]
  /\ UNCHANGED <<agent, minted, shown, requests, since>>

\* The tool has answered, the lookup failed, or the agent has gone.
RequestEnds(c) ==
  /\ request[c].at # "idle"
  /\ request' = [request EXCEPT ![c].at = "idle"]
  /\ UNCHANGED <<agent, minted, shown, requests, since>>

AgentNext ==
  \/ \E n \in Names : \/ \E s \in Scopes : \/ \E prints \in BOOLEAN : AddAgent(n, s, prints)
                                           \/ SetBoundaries(n, s)
                      \/ RevokeAgent(n)
  \/ \E c \in Connections : \/ \E t \in shown \cup {NoToken} : Send(c, t)
                            \/ Authorize(c) \/ RequestEnds(c)

AgentSpec == AgentInit /\ [][AgentNext]_agentVars

-----------------------------------------------------------------------------
\* "[A] live `agent set-boundaries' / `agent revoke' takes effect on the next request
\* with no restart" (daemon.rs): what a tool runs with is what the registry said of its
\* token at some time since the request was sent, never what it had said before, on
\* this connection or another.
ScopeIsCurrent ==
  \A c \in Connections : request[c].at = "running" => request[c].scope \in since[c] \ {Denied}
=============================================================================
