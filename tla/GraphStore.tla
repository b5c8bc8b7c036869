----------------------------- MODULE GraphStore -----------------------------
(***************************************************************************)
(* What GraphWriter.commitProposal and the repositories do to the Neo4j    *)
(* graph, statement by statement.  A transaction sees the committed graph  *)
(* and its own writes (read committed), holds a lock on every node it has  *)
(* set or created until it ends, and waits for one another holds.  Other   *)
(* modules of this project take a commit for one step; here that is a      *)
(* property.                                                               *)
(*                                                                         *)
(* A call is one commitProposal (or one repository supersede); calls run   *)
(* side by side, and the driver begins a transaction function again after  *)
(* a transient error or a lost answer.                                     *)
(***************************************************************************)
EXTENDS Naturals, Sequences, FiniteSets, SequencesExt

CONSTANTS
  Calls,       \* calls of commitProposal or supersede
  PlanChoices, \* functions from Calls to plans
  InitialNodes,
  MaxDate,     \* dates are 1..MaxDate
  MaxRetries,  \* a transaction function is begun again this often
  MaxFaults,   \* failures of the database, over all calls
  None

VARIABLES
  nodes,     \* committed nodes
  edges,     \* committed relationships
  commitLog, \* committed CommitLog nodes
  tx,        \* per call: its transaction
  outages

storeVars == <<nodes, edges, commitLog, tx, outages>>

(***************************************************************************)
(* Nodes, relationships and plans.                                         *)
(***************************************************************************)
Labels == <<"Circular", "Clause", "Obligation", "ProcessTask", "EvidenceArtifact", "IntermediaryCategory", "HumanReview">>

ObligationStatus ==
  {"proposed", "tier_a_committed", "tier_b_review", "tier_c_review", "escalated", "committed", "rejected"}

\* Labels merged on a property of their own: source_hash, name.
Merged == {"Circular", "IntermediaryCategory"}

\* The relationships that join a node of one label to a node of another.
EdgeEnds ==
  [PART_OF |-> <<"Clause", "Circular">>, DERIVED_FROM |-> <<"Obligation", "Clause">>,
   APPLIES_TO |-> <<"Obligation", "IntermediaryCategory">>, MAPPED_TO |-> <<"Obligation", "ProcessTask">>,
   EVIDENCED_BY |-> <<"ProcessTask", "EvidenceArtifact">>, REVIEWED_BY |-> <<"Obligation", "HumanReview">>]

Dates == 1..MaxDate

\* key: source_hash or name; owner: the circular_id or obligation_id a node
\* carries besides its own id.
WellFormed(n) ==
  /\ n.label \in ToSet(Labels) /\ n.id # ""
  /\ n.label \in Merged => n.key \notin {"", None}
  /\ n.label \in {"Clause", "ProcessTask", "HumanReview"} => n.owner \notin {"", None}
  /\ n.label # "IntermediaryCategory" => n.from \in Dates /\ n.to \in Dates \cup {None}
  /\ n.label = "Obligation" => n.status \in ObligationStatus

ValidEdge(e) == e.type \in DOMAIN EdgeEnds \cup {"SUPERSEDES"} /\ "" \notin {e.from, e.to}

ValidPlan(p) ==
  /\ p.proposal # ""
  /\ \A i \in DOMAIN p.nodes : WellFormed(p.nodes[i])
  /\ \A i \in DOMAIN p.edges : ValidEdge(p.edges[i])
  /\ \A i \in DOMAIN p.supersessions : p.supersessions[i].kind \in {"Circular", "Obligation"} /\ p.supersessions[i].date \in Dates
  /\ \A i \in DOMAIN p.transitions : p.transitions[i].status \in ObligationStatus
  /\ \A i \in DOMAIN p.finalizes : p.finalizes[i].date \in Dates

Key(n) == <<n.label, n.id>>

Keys(ns) == {Key(n) : n \in ns}

At(g, label, id) == {n \in g.nodes : n.label = label /\ n.id = id}

\* What executePlan sends, in its order; a repository supersede is one statement.
Statements(p) ==
  IF p.kind = "supersede" THEN <<p.statement>>
  ELSE FlattenSeq([l \in DOMAIN Labels |-> SelectSeq([i \in DOMAIN p.nodes |-> [op |-> "create", node |-> p.nodes[i]]],
                                                     LAMBDA s : s.node.label = Labels[l])])
       \o [i \in DOMAIN p.supersessions |-> [op |-> "close", label |-> p.supersessions[i].kind,
                                              old |-> p.supersessions[i].old, date |-> p.supersessions[i].date]]
       \o [i \in DOMAIN p.transitions |-> [op |-> "status", id |-> p.transitions[i].id, status |-> p.transitions[i].status]]
       \o [i \in DOMAIN p.finalizes |-> [op |-> "finalize", old |-> p.finalizes[i].old, new |-> p.finalizes[i].new,
                                          date |-> p.finalizes[i].date]]
       \o [i \in DOMAIN p.edges |-> [op |-> "edge", edge |-> p.edges[i]]]

(***************************************************************************)
(* What one statement does to the graph it sees.                           *)
(***************************************************************************)
\* Nodes a SUPERSEDES end matches: any node that carries the id as its
\* circular_id or obligation_id, its own or another's.
Carrying(g, id) == {n \in g.nodes : (n.label \in {"Circular", "Obligation"} /\ n.id = id) \/ n.owner = id}

Froms(g, e) == IF e.type = "SUPERSEDES" THEN Carrying(g, e.from) ELSE At(g, EdgeEnds[e.type][1], e.from)
Tos(g, e) == IF e.type = "SUPERSEDES" THEN Carrying(g, e.to) ELSE At(g, EdgeEnds[e.type][2], e.to)

Open(g, label, id) == \E n \in At(g, label, id) : n.to = None

\* The error of a statement, or None.
Fault(g, s) ==
  CASE s.op = "create" ->
         IF (s.node.label \in Merged /\ \E n \in g.nodes : n.label = s.node.label /\ n.key = s.node.key)
            \/ At(g, s.node.label, s.node.id) = {} THEN None ELSE "constraint"
    [] s.op = "close" -> IF Open(g, s.label, s.old) THEN None ELSE "conflict"
    [] s.op = "status" -> IF At(g, "Obligation", s.id) # {} THEN None ELSE "conflict"
    [] s.op = "finalize" -> IF Open(g, "Obligation", s.old) /\ At(g, "Obligation", s.new) # {} THEN None ELSE "conflict"
    [] s.op = "edge" -> IF Froms(g, s.edge) # {} /\ Tos(g, s.edge) # {} THEN None ELSE "missing"
    [] s.op = "supersede" ->
         IF ~Open(g, s.label, s.old) THEN "conflict" ELSE IF At(g, s.label, s.node.id) # {} THEN "constraint" ELSE None

Replace(g, old, new) == [g EXCEPT !.nodes = (@ \ old) \cup new]

CloseValidTo(g, label, id, date) == Replace(g, At(g, label, id), {[n EXCEPT !.to = date] : n \in At(g, label, id)})

Supersedes(new, old) == [type |-> "SUPERSEDES", from |-> <<"Obligation", new>>, to |-> <<"Obligation", old>>]

CreateNode(g, n) ==
  IF n.label \in Merged /\ \E m \in g.nodes : m.label = n.label /\ m.key = n.key THEN g ELSE Replace(g, {}, {n})

SetStatus(g, id, status) ==
  Replace(g, At(g, "Obligation", id), {[n EXCEPT !.status = status] : n \in At(g, "Obligation", id)})

\* MERGE of the relationship: one that is there already stays the only one.
FinalizeSupersession(g, s, c) ==
  LET closed == CloseValidTo(g, "Obligation", s.old, s.date)
      link == Supersedes(s.new, s.old)
  IN IF \E e \in g.edges : e.edge = link THEN closed ELSE [closed EXCEPT !.edges = @ \cup {[edge |-> link, by |-> c]}]

CreateEdges(g, e, c) ==
  [g EXCEPT !.edges = @ \cup {[edge |-> [type |-> e.type, from |-> Key(a), to |-> Key(b)], by |-> c] :
                              a \in Froms(g, e), b \in Tos(g, e)}]

Supersede(g, s, c) ==
  LET closed == CloseValidTo(g, s.label, s.old, s.date)
  IN [nodes |-> closed.nodes \cup {[s.node EXCEPT !.from = s.date, !.to = None]},
      edges |-> closed.edges \cup {[edge |-> [type |-> "SUPERSEDES", from |-> Key(s.node), to |-> <<s.label, s.old>>], by |-> c]}]

Effect(g, s, c) ==
  CASE s.op = "create" -> CreateNode(g, s.node)
    [] s.op = "close" -> CloseValidTo(g, s.label, s.old, s.date)
    [] s.op = "status" -> SetStatus(g, s.id, s.status)
    [] s.op = "finalize" -> FinalizeSupersession(g, s, c)
    [] s.op = "edge" -> CreateEdges(g, s.edge, c)
    [] s.op = "supersede" -> Supersede(g, s, c)

(***************************************************************************)
(* Locks.                                                                  *)
(***************************************************************************)
LocksUntouched(s) ==  \* mutation: valid_to is read without the touch
  IF s.op = "create" THEN {Key(s.node)} ELSE {}

\* The write of _concurrency_touch takes the lock of the node to be closed
\* before its valid_to is read; a merged property and an id are locked by the
\* index of their constraint.
Locks(s) ==
  CASE s.op = "create" -> {Key(s.node)} \cup (IF s.node.label \in Merged THEN {<<s.node.label, "key", s.node.key>>} ELSE {})
    [] s.op = "close" -> {<<s.label, s.old>>}
    [] s.op = "status" -> {<<"Obligation", s.id>>}
    [] s.op = "finalize" -> {<<"Obligation", s.old>>}
    [] s.op = "edge" -> {}
    [] s.op = "supersede" -> {<<s.label, s.old>>, Key(s.node)}

(***************************************************************************)
(* Transactions.                                                           *)
(***************************************************************************)
Graph == [nodes |-> nodes, edges |-> edges]

NoTx(p) == [plan |-> p, at |-> "new", step |-> 1, nodes |-> {}, edges |-> {}, locks |-> {},
            log |-> FALSE, tries |-> 0, answer |-> None]

\* The committed graph with the writes of call c over it.
View(c) ==
  [nodes |-> {n \in nodes : Key(n) \notin Keys(tx[c].nodes)} \cup tx[c].nodes, edges |-> edges \cup tx[c].edges]

Rest(c) == Statements(tx[c].plan)

\* The calls that hold what the next statement of call c needs.
Blockers(c) ==
  IF tx[c].at # "run" THEN {}
  ELSE {d \in Calls \ {c} : tx[d].locks \cap Locks(Rest(c)[tx[c].step]) # {}}

Init ==
  /\ nodes = InitialNodes
  /\ edges = {}
  /\ commitLog = {}
  /\ \E choice \in PlanChoices : tx = [c \in Calls |-> NoTx(choice[c])]
  /\ outages = 0

Unwritten == UNCHANGED <<nodes, edges, commitLog>>

\* The transaction is gone: nothing it wrote stays, its locks are free.
Fresh(c) == NoTx(tx[c].plan)

End(c, answer) == tx' = [tx EXCEPT ![c] = [Fresh(c) EXCEPT !.at = "ended", !.answer = answer]]

FirstPoint(p) == IF p.kind = "supersede" THEN "run" ELSE "log"

\* A plan that is not valid opens no transaction.
Begin(c) ==
  /\ tx[c].at = "new"
  /\ IF tx[c].plan.kind = "supersede" \/ ValidPlan(tx[c].plan)
     THEN tx' = [tx EXCEPT ![c].at = FirstPoint(tx[c].plan)]
     ELSE End(c, "invalid")
  /\ Unwritten /\ UNCHANGED outages

Recorded(p) == \E r \in commitLog : r.proposal = p.proposal

BeginsAnew(p) == FALSE  \* mutation: the CommitLog is not looked at

\* The proposal is in the CommitLog: it is answered with the result kept there.
CommittedBefore(p) == Recorded(p)

LookUpLog(c) ==
  /\ tx[c].at = "log"
  /\ IF CommittedBefore(tx[c].plan)
     THEN tx' = [tx EXCEPT ![c].at = "commit"]
     ELSE tx' = [tx EXCEPT ![c].at = IF Rest(c) = <<>> THEN "mark" ELSE "run"]
  /\ Unwritten /\ UNCHANGED outages

\* The next statement: it waits for its locks, then fails or has its effect.
Execute(c) ==
  LET s == Rest(c)[tx[c].step]
      before == View(c)
      after == Effect(before, s, c)
      written == after.nodes \ before.nodes
      last == tx[c].step = Len(Rest(c))
  IN /\ tx[c].at = "run"
     /\ Blockers(c) = {}
     /\ IF Fault(before, s) # None
        THEN End(c, Fault(before, s))
        ELSE tx' = [tx EXCEPT ![c].nodes = {n \in @ : Key(n) \notin Keys(written)} \cup written,
                              ![c].edges = @ \cup (after.edges \ before.edges),
                              ![c].locks = @ \cup Locks(s),
                              ![c].step = IF last THEN 1 ELSE @ + 1,
                              ![c].at = IF ~last THEN "run" ELSE IF tx[c].plan.kind = "supersede" THEN "commit" ELSE "mark"]
     /\ Unwritten /\ UNCHANGED outages

\* MERGE of the CommitLog node, which no constraint keeps unique.
Mark(c) ==
  /\ tx[c].at = "mark"
  /\ tx' = [tx EXCEPT ![c].at = "commit", ![c].log = ~Recorded(tx[c].plan)]
  /\ Unwritten /\ UNCHANGED outages

Write(c) ==
  /\ nodes' = View(c).nodes
  /\ edges' = View(c).edges
  /\ commitLog' = IF tx[c].log THEN commitLog \cup {[proposal |-> tx[c].plan.proposal, by |-> c]} ELSE commitLog

Commit(c) ==
  /\ tx[c].at = "commit"
  /\ Write(c)
  /\ End(c, "ok")
  /\ UNCHANGED outages

\* The driver begins the transaction function again, up to a time.
Retry(c) ==
  tx' = [tx EXCEPT ![c] = IF @.tries < MaxRetries
                          THEN [Fresh(c) EXCEPT !.at = FirstPoint(tx[c].plan), !.tries = tx[c].tries + 1]
                          ELSE [Fresh(c) EXCEPT !.at = "ended", !.answer = "error"]]

Faulty == outages < MaxFaults /\ outages' = outages + 1

\* The connection is lost before a commit, or while it is under way.
ConnectionLost(c) ==
  /\ tx[c].at \in {"log", "run", "mark", "commit"}
  /\ Faulty
  /\ \/ Unwritten
     \/ tx[c].at = "commit" /\ Write(c)
  /\ Retry(c)

\* A timeout of the transaction or any other error rolls it back for good.
RolledBack(c) ==
  /\ tx[c].at \in {"log", "run", "mark"}
  /\ Faulty
  /\ End(c, "error")
  /\ Unwritten

Next ==
  \E c \in Calls :
    Begin(c) \/ LookUpLog(c) \/ Execute(c) \/ Mark(c) \/ Commit(c) \/ ConnectionLost(c) \/ RolledBack(c)

Spec == Init /\ [][Next]_storeVars

(***************************************************************************)
(* Reads of the repositories.                                              *)
(***************************************************************************)
FindAllAsOf(label, date) ==
  {n \in nodes : n.label = label /\ n.from <= date /\ (n.to = None \/ n.to > date)}

FindLive == {n \in nodes : n.label = "Obligation" /\ n.to = None}

\* Every obligation that SUPERSEDES relationships lead to, or that they lead
\* from, whatever the nodes on the way.
FindLineage(id) ==
  LET links == {e.edge : e \in {f \in edges : f.edge.type = "SUPERSEDES"}}
      Grow(Next1(_)) == FoldLeft(LAMBDA reached, i : reached \cup Next1(reached), {<<"Obligation", id>>},
                                 [i \in 1..Cardinality(links) |-> i])
      older == Grow(LAMBDA reached : {e.to : e \in {f \in links : f.from \in reached}})
      newer == Grow(LAMBDA reached : {e.from : e \in {f \in links : f.to \in reached}})
  IN {n \in nodes : n.label = "Obligation" /\ Key(n) \in older \cup newer}

(***************************************************************************)
(* Properties.                                                             *)
(***************************************************************************)
TypeOK ==
  /\ \A n \in nodes : WellFormed(n)
  /\ \A r \in commitLog : r.by \in Calls
  /\ \A c \in Calls : tx[c].at \in {"new", "log", "run", "mark", "commit", "ended"} /\ tx[c].tries \in 0..MaxRetries
  /\ \A c \in Calls : tx[c].answer \in {None, "ok", "invalid", "conflict", "constraint", "missing", "error"}
  /\ outages \in 0..MaxFaults

\* The whole plan of call c, applied to the committed graph at once.
Whole(c) ==
  FoldLeft(LAMBDA done, s : IF Fault(done.graph, s) # None THEN [done EXCEPT !.fault = Fault(done.graph, s)]
                            ELSE [done EXCEPT !.graph = Effect(done.graph, s, c)],
           [graph |-> Graph, fault |-> None], Statements(tx[c].plan))

\* Without the relationships an end of SUPERSEDES matches by accident.
Named(es) == {e \in es : e.edge.type = "SUPERSEDES" => e.edge.from[1] = e.edge.to[1] /\ e.edge.from[1] \in {"Circular", "Obligation"}}

\* A commit is one step of the graph: what a transaction read and wrote while
\* others committed is what its plan does to the graph it is committed to
\* (the touch before valid_to is read, the constraints, the rollback).
CommitsAreSerial ==
  [][<<nodes, edges>>' # <<nodes, edges>> =>
       \E c \in Calls : /\ tx[c].at = "commit" /\ Whole(c).fault = None
                        /\ nodes' = Whole(c).graph.nodes
                        /\ Named(edges') = Named(Whole(c).graph.edges)]_storeVars

\* No two nodes share an id, or the property they are merged on.
NodesAreUnique ==
  \A n, m \in nodes : n.label = m.label /\ (n.id = m.id \/ (n.label \in Merged /\ n.key = m.key)) => n = m

\* Relationships join nodes that are there, and each is there once, however
\* often a proposal was sent.
EdgesAreExact ==
  /\ \A e \in edges : {e.edge.from, e.edge.to} \subseteq Keys(nodes)
  /\ \A e, f \in Named(edges) : e.edge = f.edge => e = f

\* No version is closed without a successor, and of the versions of an
\* obligation at most one is both decided and in force once every date is past.
LineageIsExact ==
  /\ \A n \in nodes : n.label \in {"Circular", "Obligation"} /\ n.to # None =>
       \E e \in edges : e.edge.type = "SUPERSEDES" /\ e.edge.to = Key(n) /\ e.edge.from[1] = n.label
  /\ \A n \in FindLive : Cardinality({m \in FindLineage(n.id) \cap FindAllAsOf("Obligation", MaxDate) : m.status = "committed"}) <= 1

\* A proposal answered with success is in the graph and in the CommitLog; one
\* whose commit got through although its answer was lost is never reported as
\* refused by the graph.
AnswersAreKept ==
  \A c \in Calls : tx[c].plan.kind = "commit" =>
    /\ tx[c].answer = "ok" =>
         /\ Recorded(tx[c].plan)
         /\ \A i \in DOMAIN tx[c].plan.nodes : \E n \in nodes :
              Key(n) = Key(tx[c].plan.nodes[i]) \/ (n.label \in Merged /\ n.key = tx[c].plan.nodes[i].key)
    /\ tx[c].answer \in {"conflict", "constraint", "missing"} => ~\E r \in commitLog : r.by = c

\* Calls never wait for one another in a circle.
NoCircularWait == \A waiting \in SUBSET Calls \ {{}} : \E c \in waiting : Blockers(c) \cap waiting = {}

GraphIsSound == NodesAreUnique /\ EdgesAreExact /\ LineageIsExact /\ AnswersAreKept /\ NoCircularWait

=============================================================================
