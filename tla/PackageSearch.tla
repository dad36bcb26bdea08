---------------------------- MODULE PackageSearch ----------------------------
(***************************************************************************)
(* Package searches and the clients that run them: the handlers of         *)
(* server/app.py (SQLite) and postgres_package_search.py, the clients'     *)
(* administration of app.py, and the agent's part in agent/agent.py.       *)
(* An agent process is started by a timer, by hand or by the watcher, so a *)
(* client may have several.  A request is received by a thread, which      *)
(* looks the token up (client_auth_required), and served by it later.      *)
(* The text of queries and results is left out.                            *)
(***************************************************************************)
EXTENDS Naturals, Sequences

CONSTANTS
  SearchClients,
  SearchAgents,      \* agent processes
  AgentOf,           \* the client of each
  MaxSearches,       \* bound on the searches of all clients
  MaxTokens,         \* bound on the tokens of a client
  MaxCalls           \* bound on the unanswered requests of an agent

ASSUME PackageSearchAssumption ==
  /\ AgentOf \in [SearchAgents -> SearchClients]
  /\ {MaxSearches, MaxTokens, MaxCalls} \subseteq Nat

VARIABLES
  store,       \* "sqlite" or "postgres"
  clients,     \* of every client: its token's number, revoked, enabled
  searches,    \* package_search_requests: client, status, who reported it, by id
  creating,    \* SQLite: clients for which a create was found to be allowed
  agents,      \* of every agent process
  calls        \* an agent's requests under way, by number

searchVars == <<store, clients, searches, creating, agents, calls>>

SearchIds == DOMAIN searches
SearchCalls == SearchAgents \X (1 .. MaxCalls)

\* Where an agent is, the search it runs, and the request it waits for.
Agent(at, search, call) == [at |-> at, search |-> search, waitsFor |-> call]
Resting == Agent("idle", 0, 0)
Move(a, state) == agents' = [agents EXCEPT ![a] = state]
NoCall == [kind |-> "none"]
SetCall(k, call) == calls' = [calls EXCEPT ![k] = call]

AddSearch(c) ==
  searches' = Append(searches, [client |-> c, status |-> "pending", reporter |-> <<>>])

SearchesLeft == Len(searches) < MaxSearches

-----------------------------------------------------------------------------
(* The administration of clients *)

\* A client is created with its first token; a rotated one is not revoked.
RotateToken(c) ==
  /\ clients[c].token < MaxTokens
  /\ clients' = [clients EXCEPT ![c].token = @ + 1, ![c].revoked = FALSE]
  /\ UNCHANGED <<store, searches, creating, agents, calls>>

\* delete_client only disables.
DisableClient(c) ==
  /\ clients[c].enabled \/ ~clients[c].revoked
  /\ clients' = [clients EXCEPT ![c].enabled = FALSE, ![c].revoked = TRUE]
  /\ UNCHANGED <<store, searches, creating, agents, calls>>

Authentic(c, token) ==
  clients[c].enabled /\ ~clients[c].revoked /\ clients[c].token = token

-----------------------------------------------------------------------------
(* Users *)

\* SQLite: the client is read and the search inserted later; a search may so be
\* made for a client that was disabled meanwhile.
AllowSearch(c) ==
  /\ store = "sqlite" /\ c \notin creating /\ clients[c].enabled
  /\ creating' = creating \cup {c}
  /\ UNCHANGED <<store, clients, searches, agents, calls>>

SqliteCreateSearch(c) ==
  /\ c \in creating /\ SearchesLeft
  /\ AddSearch(c)
  /\ creating' = creating \ {c}
  /\ UNCHANGED <<store, clients, agents, calls>>

PgCreateSearch(c) ==
  /\ store = "postgres" /\ clients[c].enabled /\ SearchesLeft
  /\ AddSearch(c)
  /\ UNCHANGED <<store, clients, creating, agents, calls>>

-----------------------------------------------------------------------------
(* The agent: get_pending_package_search, execute_package_search *)

\* The token is the one of the agent's environment, installed by hand; a request
\* that does not authenticate is answered at once.
Installed(a) == clients[AgentOf[a]].token
TokenWorks(a) == Authentic(AgentOf[a], Installed(a))

\* A request of kind k leaves the agent, which waits for its answer; requests it
\* no longer waits for may still be served.
Send(a, call, at) ==
  \E n \in 1 .. MaxCalls :
    /\ calls[<<a, n>>] = NoCall
    /\ SetCall(<<a, n>>, call)
    /\ Move(a, Agent(at, agents[a].search, n))

Ask(a) ==
  /\ agents[a].at = "idle" /\ TokenWorks(a)
  /\ Send(a, [kind |-> "claim", token |-> Installed(a)], "asking")
  /\ UNCHANGED <<store, clients, searches, creating>>

WaitsFor(k) == agents[k[1]].waitsFor = k[2]

\* PostgreSQL reads the client again, FOR UPDATE.
Served(k) == store = "sqlite" \/ Authentic(AgentOf[k[1]], calls[k].token)

OldestOf(c) ==
  {i \in SearchIds : /\ searches[i].client = c /\ searches[i].status = "pending"
                     /\ \A j \in SearchIds :
                          searches[j].client = c /\ searches[j].status = "pending" => i <= j}

\* BEGIN IMMEDIATE, or FOR UPDATE SKIP LOCKED: the search is claimed in one
\* transaction.
ClaimSearch(k) ==
  /\ calls[k].kind = "claim" /\ Served(k)
  /\ \E i \in OldestOf(AgentOf[k[1]]) :
       /\ searches' = [searches EXCEPT ![i].status = "running"]
       /\ IF WaitsFor(k) THEN Move(k[1], Agent("searching", i, 0))
          ELSE UNCHANGED agents
  /\ SetCall(k, NoCall)
  /\ UNCHANGED <<store, clients, creating>>

NothingToDo(k) ==
  /\ calls[k].kind = "claim" /\ (~Served(k) \/ OldestOf(AgentOf[k[1]]) = {})
  /\ SetCall(k, NoCall)
  /\ IF WaitsFor(k) THEN Move(k[1], Resting) ELSE UNCHANGED agents
  /\ UNCHANGED <<store, clients, searches, creating>>

SendReport(a, result, at) ==
  Send(a, [kind |-> "result", search |-> agents[a].search, result |-> result,
           token |-> Installed(a), seen |-> "none"], at)

Failing(a) == Move(a, Agent("failing", agents[a].search, 0))

\* The package manager has answered.
SendResult(a) ==
  /\ agents[a].at = "searching" /\ TokenWorks(a)
  /\ SendReport(a, "completed", "sent")
  /\ UNCHANGED <<store, clients, searches, creating>>

\* The package manager has failed, the result is refused or cannot be sent, or
\* ten seconds pass without an answer: the search is then reported as failed,
\* though the first request may still be served.
TurnsToFailure(a) ==
  /\ agents[a].at \in {"searching", "sent"}
  /\ Failing(a)
  /\ UNCHANGED <<store, clients, searches, creating, calls>>

SendFailure(a) ==
  /\ agents[a].at = "failing" /\ TokenWorks(a)
  /\ SendReport(a, "failed", "gaveUp")
  /\ UNCHANGED <<store, clients, searches, creating>>

\* The failure could not be sent or was not answered; or the agent dies.
GivesUp(a) ==
  /\ agents[a].at # "idle"
  /\ Move(a, Resting)
  /\ UNCHANGED <<store, clients, searches, creating, calls>>

-----------------------------------------------------------------------------
(* package_search_result *)

\* SQLite reads the status before its UPDATE.
SeeStatus(k) ==
  /\ store = "sqlite" /\ calls[k].kind = "result" /\ calls[k].seen = "none"
  /\ SetCall(k, [calls[k] EXCEPT !.seen = searches[calls[k].search].status])
  /\ UNCHANGED <<store, clients, searches, creating, agents>>

\* MUTANT: the UPDATE has no condition on the status.
TakesAny(k) == TRUE

\* WHERE id = ? AND client_id = ? AND status = 'running'
Takes(k) == searches[calls[k].search].status = "running"

SeenStatus(k) == IF store = "sqlite" THEN calls[k].seen ELSE searches[calls[k].search].status

StoreResult(k) ==
  /\ calls[k].kind = "result" /\ Served(k) /\ SeenStatus(k) = "running"
  /\ searches' = IF Takes(k)
                 THEN [searches EXCEPT ![calls[k].search].status = calls[k].result,
                                       ![calls[k].search].reporter = k]
                 ELSE searches
  /\ SetCall(k, NoCall)
  /\ IF WaitsFor(k) THEN Move(k[1], Resting) ELSE UNCHANGED agents
  /\ UNCHANGED <<store, clients, creating>>

\* 401, or 409 search_not_running: an error to the agent.
RefuseResult(k) ==
  /\ calls[k].kind = "result" /\ (~Served(k) \/ SeenStatus(k) \notin {"none", "running"})
  /\ SetCall(k, NoCall)
  /\ IF ~WaitsFor(k) THEN UNCHANGED agents
     ELSE IF agents[k[1]].at = "sent" THEN Failing(k[1]) ELSE Move(k[1], Resting)
  /\ UNCHANGED <<store, clients, searches, creating>>

-----------------------------------------------------------------------------

PackageSearchInit ==
  /\ store \in {"sqlite", "postgres"}
  /\ clients = [c \in SearchClients |-> [token |-> 1, revoked |-> FALSE, enabled |-> TRUE]]
  /\ searches = <<>> /\ creating = {}
  /\ agents = [a \in SearchAgents |-> Resting]
  /\ calls = [k \in SearchCalls |-> NoCall]

PackageSearchNext ==
  \/ \E c \in SearchClients :
       \/ RotateToken(c) \/ DisableClient(c)
       \/ AllowSearch(c) \/ SqliteCreateSearch(c) \/ PgCreateSearch(c)
  \/ \E a \in SearchAgents :
       Ask(a) \/ SendResult(a) \/ TurnsToFailure(a) \/ SendFailure(a) \/ GivesUp(a)
  \/ \E k \in SearchCalls :
       ClaimSearch(k) \/ NothingToDo(k) \/ SeeStatus(k) \/ StoreResult(k) \/ RefuseResult(k)

PackageSearchSpec == PackageSearchInit /\ [][PackageSearchNext]_searchVars

-----------------------------------------------------------------------------
(* What is claimed *)

\* A search that has ended keeps its status and its result, though the agent
\* reports again after a timeout and SQLite's two requests have both seen it
\* running; and no two agents run one search.
SearchesEndOnce ==
  [][/\ \A i \in SearchIds :
          searches[i].status \in {"completed", "failed"} => searches'[i] = searches[i]
     /\ \A a, b \in SearchAgents :
          {agents'[a].at, agents'[b].at} = {"searching"} /\ a # b =>
            agents'[a].search # agents'[b].search]_searchVars

=============================================================================
