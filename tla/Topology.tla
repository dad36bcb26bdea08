------------------------------ MODULE Topology ------------------------------
(***************************************************************************)
(* The infrastructure topology: nodes entered by administrators and the    *)
(* relations between nodes and clients, edited and shown by the handlers   *)
(* of server/app.py (SQLite) and postgres_infrastructure.py.               *)
(* Clients are disabled and never deleted, so they are a constant here;    *)
(* what a node is called and where it stands is left out.                  *)
(***************************************************************************)
EXTENDS Naturals, FiniteSets

CONSTANTS
  TopologyClients,
  TopologyThreads,
  MaxNodes,          \* bound on the nodes ever created
  MaxRelations       \* bound on the relations ever created

ASSUME TopologyAssumption == {MaxNodes, MaxRelations} \subseteq Nat

VARIABLES
  keeper,       \* "sqlite" or "postgres"
  nodes,        \* infrastructure_nodes: the ids there are
  madeNodes,    \* ids are never reused (AUTOINCREMENT, IDENTITY)
  relations,    \* infrastructure_relations: [id, from, to]
  madeRelations,
  editors,      \* of every thread: the request it serves, and how far
  shown         \* the topology answered last

topologyVars == <<keeper, nodes, madeNodes, relations, madeRelations, editors, shown>>

Node(n) == [kind |-> "node", id |-> n]
NodesIn(set) == {Node(n) : n \in set} \cup [kind : {"client"}, id : TopologyClients]
Ends(r) == {r.from, r.to}
Waiting == [at |-> "waiting"]
Edit(t, state) == editors' = [editors EXCEPT ![t] = state]

-----------------------------------------------------------------------------
(* Nodes *)

CreateNode ==
  /\ madeNodes < MaxNodes
  /\ madeNodes' = madeNodes + 1 /\ nodes' = nodes \cup {madeNodes'}
  /\ UNCHANGED <<keeper, relations, madeRelations, editors, shown>>

\* PostgreSQL: the ends that a thread creating a relation has locked FOR KEY SHARE.
LockedEnds(t) ==
  CASE editors[t].at = "target" -> {editors[t].from}
    [] editors[t].at = "insert" -> {editors[t].from, editors[t].to}
    [] OTHER -> {}

\* SQLite deletes a node's relations and then the node; PostgreSQL's foreign keys
\* cascade.
WithoutEnd(n) == {r \in relations : Node(n) \notin Ends(r)}

\* PostgreSQL locks the node FOR UPDATE, so it waits for those locks.
DeleteNode(n) ==
  /\ n \in nodes
  /\ keeper = "postgres" => \A t \in TopologyThreads : Node(n) \notin LockedEnds(t)
  /\ nodes' = nodes \ {n} /\ relations' = WithoutEnd(n)
  /\ UNCHANGED <<keeper, madeNodes, madeRelations, editors, shown>>

-----------------------------------------------------------------------------
(* Relations *)

\* topology_endpoint_input has accepted two different ends, of positive ids.
AskForRelation(t, from, to) ==
  /\ editors[t] = Waiting /\ from # to
  /\ Edit(t, [at |-> "source", from |-> from, to |-> to])
  /\ UNCHANGED <<keeper, nodes, madeNodes, relations, madeRelations, shown>>

EndOf(t) == IF editors[t].at = "source" THEN editors[t].from ELSE editors[t].to

\* Reading an end; a missing one is 404.
FindEnd(t) ==
  /\ editors[t].at \in {"source", "target"}
  /\ Edit(t, IF EndOf(t) \notin NodesIn(nodes) THEN Waiting
             ELSE [editors[t] EXCEPT !.at =
                     IF @ = "source" THEN "target"
                     ELSE IF keeper = "sqlite" THEN "duplicate" ELSE "insert"])
  /\ UNCHANGED <<keeper, nodes, madeNodes, relations, madeRelations, shown>>

Like(t) == {r \in relations : r.from = editors[t].from /\ r.to = editors[t].to}

\* SQLite: relation_exists is 409.
FindDuplicate(t) ==
  /\ editors[t].at = "duplicate"
  /\ Edit(t, IF Like(t) # {} THEN Waiting ELSE [editors[t] EXCEPT !.at = "insert"])
  /\ UNCHANGED <<keeper, nodes, madeNodes, relations, madeRelations, shown>>

\* MUTANT: SQLite does not enforce its foreign keys, as without the PRAGMA.
AcceptedWithoutKeys(t) == keeper = "postgres" => Like(t) = {}

\* What the database accepts: foreign keys in both, unique indexes in PostgreSQL.
Accepted(t) ==
  /\ {editors[t].from, editors[t].to} \subseteq NodesIn(nodes)
  /\ keeper = "postgres" => Like(t) = {}

InsertRelation(t) ==
  /\ editors[t].at = "insert" /\ madeRelations < MaxRelations
  /\ IF Accepted(t)
     THEN /\ madeRelations' = madeRelations + 1
          /\ relations' = relations \cup
               {[id |-> madeRelations', from |-> editors[t].from, to |-> editors[t].to]}
     ELSE UNCHANGED <<relations, madeRelations>>
  /\ Edit(t, Waiting)
  /\ UNCHANGED <<keeper, nodes, madeNodes, shown>>

DeleteRelation(r) ==
  /\ relations' = relations \ {r}
  /\ UNCHANGED <<keeper, nodes, madeNodes, madeRelations, editors, shown>>

-----------------------------------------------------------------------------
(* infrastructure_topology *)

\* The nodes are read; PostgreSQL's transaction sees one moment from then on.
ReadNodes(t) ==
  /\ editors[t] = Waiting
  /\ Edit(t, [at |-> "relations", nodes |-> nodes, moment |-> relations])
  /\ UNCHANGED <<keeper, nodes, madeNodes, relations, madeRelations, shown>>

RelationsRead(t) == IF keeper = "postgres" THEN editors[t].moment ELSE relations

ReadRelations(t) ==
  /\ editors[t].at = "relations"
  /\ shown' = [nodes |-> editors[t].nodes, relations |-> RelationsRead(t)]
  /\ Edit(t, Waiting)
  /\ UNCHANGED <<keeper, nodes, madeNodes, relations, madeRelations>>

-----------------------------------------------------------------------------

TopologyInit ==
  /\ keeper \in {"sqlite", "postgres"}
  /\ nodes = {} /\ madeNodes = 0 /\ relations = {} /\ madeRelations = 0
  /\ editors = [t \in TopologyThreads |-> Waiting]
  /\ shown = [nodes |-> {}, relations |-> {}]

TopologyNext ==
  \/ CreateNode
  \/ \E n \in nodes : DeleteNode(n)
  \/ \E r \in relations : DeleteRelation(r)
  \/ \E t \in TopologyThreads :
       \/ FindEnd(t) \/ FindDuplicate(t) \/ InsertRelation(t)
       \/ ReadNodes(t) \/ ReadRelations(t)
       \/ \E from, to \in NodesIn(1 .. MaxNodes) : AskForRelation(t, from, to)

TopologySpec == TopologyInit /\ [][TopologyNext]_topologyVars

-----------------------------------------------------------------------------
(* What is claimed *)

\* While nodes are deleted under the hands of those who relate them, every
\* relation keeps both ends; PostgreSQL has no relation twice and shows no
\* relation without its ends.  SQLite promises neither of these two: its check
\* for a duplicate and its insert, and its two reads, are separate.
TopologyHolds ==
  /\ \A r \in relations : Ends(r) \subseteq NodesIn(nodes)
  /\ keeper = "postgres" =>
       /\ \A q, r \in relations : q.from = r.from /\ q.to = r.to => q = r
       /\ \A r \in shown.relations : Ends(r) \subseteq NodesIn(shown.nodes)

=============================================================================
