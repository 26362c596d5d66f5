--------------------------------- MODULE Plan ---------------------------------
(***************************************************************************)
(* From a manifest to the steps of a run, in hub/run.mjs: the bindings are *)
(* validated, the steps of the layers are put in an order that has every   *)
(* fetch before the node it feeds, and each bound step takes its values    *)
(* from what was produced before it. A step is its base index. The order   *)
(* is also checked for edges no manifest can have, as its unit test does.  *)
(***************************************************************************)
EXTENDS Naturals, Sequences, FiniteSets, FiniteSetsExt, SequencesExt

CONSTANTS Connectors,   \* steps that fetch
          Nodes,        \* steps that compute
          Declarer,     \* the node that may declare its parameters
          Stray,        \* an index that names no step
          BindingIds,
          MaxBindings,  \* bound: bindings of a manifest
          MaxEdges,     \* bound: bare edges
          NoParams

ASSUME PlanAssumption == /\ Connectors \subseteq Nat /\ IsFiniteSet(Connectors)
                         /\ Nodes \subseteq Nat /\ IsFiniteSet(Nodes)
                         /\ Declarer \in Nodes /\ Stray \in Nat \ (Connectors \union Nodes)
                         /\ MaxBindings \in Nat /\ MaxEdges \in Nat

VARIABLES source,   \* what is planned: a manifest's parts, or bare edges
          edges,    \* [{from, to}], in the order they are listed
          indegree, ready, ordered,
          planned,  \* "validate", "count", "sort", "ordered", "cycle", "rejected", "run", "done", "unresolved"
          outputs   \* steps that have produced a value

planVars == <<source, edges, indegree, ready, ordered, planned, outputs>>

Bindings == [step_id : BindingIds, connector_id : Connectors, feeds_node_id : Nodes \union {Stray},
             feeds_param : {"p", "q"}, params : {NoParams, "x", "y"}]
Index == Connectors \union Nodes \union {Stray}
Edge == Index \X Index

UpTo(S, n) == UNION {[1..k -> S] : k \in 0..n}

PlanInit ==
    /\ \/ \E c \in SUBSET Connectors, declares \in SUBSET {"p"}, b \in UpTo(Bindings, MaxBindings) :
             /\ source = [connectors |-> c, declares |-> declares, bindings |-> b]
             /\ edges = <<>> /\ planned = "validate"
       \/ \E e \in UpTo(Edge, MaxEdges) :
             /\ source = [connectors |-> Connectors, declares |-> {}, bindings |-> <<>>]
             /\ edges = e /\ planned = "count"
    /\ indegree = [i \in Index |-> 0] /\ ready = {} /\ ordered = <<>> /\ outputs = {}

steps == source.connectors \union Nodes
Orders == {o \in [1..Cardinality(steps) -> steps] : \A i, j \in DOMAIN o : i # j => o[i] # o[j]}

\* the order of the layers
base == CHOOSE o \in Orders : \A i, j \in DOMAIN o : i < j => o[i] < o[j]
-----------------------------------------------------------------------------
(* Validation.                                                             *)
\* what a node declares; a node that declares nothing accepts anything
acceptedParams(node) == IF node = Declarer THEN source.declares ELSE {}

\* Mistaken form: a binding may name a connector that is not listed.
BindingWithoutConnector(i) ==
    LET b == source.bindings[i] IN
    /\ \A j \in 1..(i - 1) : source.bindings[j].step_id # b.step_id
    /\ b.feeds_node_id \in Nodes
    /\ acceptedParams(b.feeds_node_id) # {} => b.feeds_param \in acceptedParams(b.feeds_node_id)

bindingValid(i) ==
    LET b == source.bindings[i] IN
    /\ \A j \in 1..(i - 1) : source.bindings[j].step_id # b.step_id
    /\ b.connector_id \in source.connectors
    /\ b.feeds_node_id \in Nodes
    /\ acceptedParams(b.feeds_node_id) # {} => b.feeds_param \in acceptedParams(b.feeds_node_id)

\* planSteps: two bindings of a connector that disagree on its params
conflictingParams ==
    \E i, j \in DOMAIN source.bindings :
        LET b == source.bindings[i] d == source.bindings[j]
        IN b.connector_id = d.connector_id /\ NoParams \notin {b.params, d.params} /\ b.params # d.params

validateManifestBindings ==
    /\ planned = "validate"
    /\ IF (\A i \in DOMAIN source.bindings : bindingValid(i)) /\ ~conflictingParams
         THEN /\ edges' = [i \in DOMAIN source.bindings |->
                              <<source.bindings[i].connector_id, source.bindings[i].feeds_node_id>>]
              /\ planned' = "count"
         ELSE /\ planned' = "rejected" /\ UNCHANGED edges
    /\ UNCHANGED <<source, indegree, ready, ordered, outputs>>
-----------------------------------------------------------------------------
(* orderStepsByEdges.                                                      *)
known(e) == e[1] \in steps /\ e[2] \in steps
adjacency == {e \in Range(edges) : known(e)}

\* Mistaken form: an edge that is listed twice counts twice.
CountEveryEdge(t) == Cardinality({k \in DOMAIN edges : known(edges[k]) /\ edges[k][2] = t})

indegreeOf(t) == Cardinality({e \in adjacency : e[2] = t})

counts ==
    /\ planned = "count"
    /\ IF edges = <<>>
         THEN ordered' = base /\ planned' = "ordered" /\ UNCHANGED <<indegree, ready>>
         ELSE /\ indegree' = [t \in Index |-> IF t \in steps THEN indegreeOf(t) ELSE 0]
              /\ ready' = {t \in steps : indegree'[t] = 0}
              /\ planned' = "sort" /\ UNCHANGED ordered
    /\ UNCHANGED <<source, edges, outputs>>

\* the ready step of the least base index
takes ==
    LET i == Min(ready)
        freed == {t \in steps : <<i, t>> \in adjacency}
    IN /\ planned = "sort" /\ ready # {}
       /\ ordered' = Append(ordered, i)
       /\ indegree' = [t \in Index |-> IF t \in freed THEN indegree[t] - 1 ELSE indegree[t]]
       /\ ready' = (ready \ {i}) \union {t \in freed : indegree'[t] = 0}
       /\ UNCHANGED <<source, edges, planned, outputs>>

orderStepsByEdges ==
    /\ planned = "sort" /\ ready = {}
    /\ planned' = IF Len(ordered) = Cardinality(steps) THEN "ordered" ELSE "cycle"
    /\ UNCHANGED <<source, edges, indegree, ready, ordered, outputs>>
-----------------------------------------------------------------------------
(* The run takes the steps in this order.                                  *)
boundTo(step) == {source.bindings[i].connector_id :
                    i \in {k \in DOMAIN source.bindings : source.bindings[k].feeds_node_id = step}}

resolveBoundParams ==
    /\ planned \in {"ordered", "run"}
    /\ LET step == ordered[Cardinality(outputs) + 1] IN
       /\ IF boundTo(step) \subseteq outputs
            THEN /\ outputs' = outputs \union {step}
                 /\ planned' = IF Cardinality(outputs) + 1 = Len(ordered) THEN "done" ELSE "run"
            ELSE planned' = "unresolved" /\ UNCHANGED outputs
    /\ UNCHANGED <<source, edges, indegree, ready, ordered>>

PlanNext == validateManifestBindings \/ counts \/ takes \/ orderStepsByEdges \/ resolveBoundParams

PlanSpec == PlanInit /\ [][PlanNext]_planVars
-----------------------------------------------------------------------------
Respects(o) == \A e \in Range(edges) : e[1] \in steps /\ e[2] \in steps =>
                  \E i, j \in DOMAIN o : i < j /\ o[i] = e[1] /\ o[j] = e[2]
Earlier(o, p) == o = p \/ \E k \in DOMAIN o : o[k] < p[k] /\ \A i \in 1..(k - 1) : o[i] = p[i]

\* The order of a run's steps: of the orders that have every step once and
\* respect every edge it is the one nearest to the manifest's own, and a cycle is
\* reported exactly when there is none (orderStepsByEdges; "so a manifest whose
\* bindings impose nothing keeps exactly today's order").
OrderIsNearest ==
    /\ planned \in {"ordered", "run", "done"} =>
          /\ ordered \in Orders /\ Respects(ordered)
          /\ \A o \in Orders : Respects(o) => Earlier(ordered, o)
    /\ planned = "cycle" => \A o \in Orders : ~Respects(o)

\* A manifest that validation lets pass never stops in the middle for a value
\* nobody produced ("VALIDATION rejects a bad binding graph - not execution",
\* validateManifestBindings): a run that dies mid-way has already written.
ValidatedResolves == planned # "unresolved"

\* A plan that is made can be run: nothing before what it depends on, nothing
\* bound that will not be there.
PlanIsRunnable == OrderIsNearest /\ ValidatedResolves
=============================================================================
