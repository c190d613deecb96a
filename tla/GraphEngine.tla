---------------------------- MODULE GraphEngine ----------------------------
(***************************************************************************)
(* GraphEngine of src/src/advanced_features.cpp: nodes with a cost, edges  *)
(* with a weight, two traversals and a cost that is propagated along the   *)
(* second.  Every call holds graph_mutex_, so one call is one step.        *)
(***************************************************************************)
EXTENDS Integers, Sequences, FiniteSets, FiniteSetsExt, SequencesExt

CONSTANTS NodeIds, Costs, Weights,
          MaxEdges   \* bound on the edges

ASSUME NodesAssumption == IsFiniteSet(NodeIds)

VARIABLES nodes_,            \* the costs of the nodes
          adjacency_list_    \* the edges that leave each node, in order

graphVars == <<nodes_, adjacency_list_>>

GraphInit == nodes_ = [n \in {} |-> 0] /\ adjacency_list_ = [n \in {} |-> <<>>]

(* map[key] = value *)
Assign(map, key, value) == [k \in DOMAIN map \cup {key} |-> IF k = key THEN value ELSE map[k]]

add_node(id, cost) == /\ nodes_' = Assign(nodes_, id, cost)
                      /\ UNCHANGED adjacency_list_

Edges(n) == IF n \in DOMAIN adjacency_list_ THEN adjacency_list_[n] ELSE <<>>

EdgeCount == MapThenSumSet(LAMBDA n : Len(Edges(n)), NodeIds)

add_edge(from, to, weight) ==
  /\ from \in DOMAIN nodes_ /\ to \in DOMAIN nodes_
  /\ EdgeCount < MaxEdges
  /\ adjacency_list_' = Assign(adjacency_list_, from,
                               Append(Edges(from), [to |-> to, weight |-> weight]))
  /\ UNCHANGED nodes_

TraversalPath(from, edge) == [from |-> from, to |-> edge.to, weight |-> edge.weight]

-----------------------------------------------------------------------------
(* A traversal holds the nodes whose edges it is scanning or has yet to    *)
(* scan, open, each with the edge it is at.  The queue of bfs_traversal    *)
(* scans its front and the calls of dfs_recursive their innermost one; a   *)
(* new node joins at the end of either.  k is the position that scans.     *)
Frame(n) == [node |-> n, next |-> 1]

AtEnd(s, k) == s.open[k].next > Len(Edges(s.open[k].node))

NextEdge(s, k) == Edges(s.open[k].node)[s.open[k].next]

Fresh(s, k) == ~AtEnd(s, k) /\ NextEdge(s, k).to \notin s.visited

(* A node counts as visited once its edges have been scanned. *)
VisitedAfter_Scanned(s, k) == IF AtEnd(s, k) THEN s.visited \cup {s.open[k].node} ELSE s.visited

VisitedAfter(s, k) == IF Fresh(s, k) THEN s.visited \cup {NextEdge(s, k).to} ELSE s.visited

OpenAfter(s, k) ==
  LET advanced == [i \in 1..Len(s.open) |->
                     IF i = k THEN [s.open[i] EXCEPT !.next = @ + 1] ELSE s.open[i]]
  IN  CASE AtEnd(s, k) -> RemoveAt(s.open, k)
        [] Fresh(s, k) -> Append(advanced, Frame(NextEdge(s, k).to))
        [] OTHER -> advanced

(* One edge, or the end of a node. *)
Traverse(s, k) ==
  IF s.open = <<>> THEN s
  ELSE [open |-> OpenAfter(s, k),
        visited |-> VisitedAfter(s, k),
        paths |-> IF Fresh(s, k) THEN Append(s.paths, TraversalPath(s.open[k].node, NextEdge(s, k)))
                  ELSE s.paths]

Begin(start) == [open |-> <<Frame(start)>>, visited |-> {start}, paths |-> <<>>]

(* Every node scans each of its edges once and ends once: no traversal     *)
(* takes longer.                                                           *)
Scans == UNION {{n} \X (1..(Len(Edges(n)) + 1)) : n \in NodeIds}
Rounds == Cardinality(Scans)

bfs_traversal(start) ==
  LET run[k \in 0..Rounds] == IF k = 0 THEN Begin(start) ELSE Traverse(run[k - 1], 1)
  IN  run[Rounds].paths

dfs_recursive(s) == Traverse(s, Len(s.open))

dfs_traversal(start) ==
  LET run[k \in 0..Rounds] == IF k = 0 THEN Begin(start) ELSE dfs_recursive(run[k - 1])
  IN  run[Rounds].paths

(* What nodes_[id].cost reads: a node that is not there is created. *)
CostOf(id) == IF id \in DOMAIN nodes_ THEN nodes_[id] ELSE 0

(* The cost of a node is added again whenever an edge reaches it. *)
propagate_cost_Again(s) ==
  LET k == Len(s.open)
      e == NextEdge(s, k)
  IN  IF s.open = <<>> THEN s
      ELSE [open |-> OpenAfter(s, k),
            visited |-> VisitedAfter(s, k),
            total |-> IF AtEnd(s, k) THEN s.total ELSE s.total + nodes_[e.to] * e.weight]

propagate_cost_recursive(s) ==
  LET k == Len(s.open)
      e == NextEdge(s, k)
  IN  IF s.open = <<>> THEN s
      ELSE [open |-> OpenAfter(s, k),
            visited |-> VisitedAfter(s, k),
            total |-> IF Fresh(s, k) THEN s.total + nodes_[e.to] * e.weight ELSE s.total]

PropagatedCost(start) ==
  LET run[k \in 0..Rounds] ==
        IF k = 0 THEN [open |-> <<Frame(start)>>, visited |-> {start}, total |-> CostOf(start)]
        ELSE propagate_cost_recursive(run[k - 1])
  IN  run[Rounds].total

calculate_cost_propagation(start) ==
  /\ nodes_' = Assign(nodes_, start, CostOf(start))
  /\ UNCHANGED adjacency_list_

GraphNext ==
  \/ \E id \in NodeIds, cost \in Costs : add_node(id, cost)
  \/ \E from, to \in NodeIds, weight \in Weights : add_edge(from, to, weight)
  \/ \E start \in NodeIds : calculate_cost_propagation(start)

GraphSpec == GraphInit /\ [][GraphNext]_graphVars

-----------------------------------------------------------------------------
(* The nodes in every set that holds start and is closed under the edges. *)
Reachable(start) ==
  {n \in NodeIds : \A S \in SUBSET NodeIds :
     start \in S /\ (\A m \in S : \A i \in 1..Len(Edges(m)) : Edges(m)[i].to \in S) => n \in S}

(* Each target once, and exactly the reachable nodes other than start. *)
ReachesAllOnce(paths, start) ==
  /\ \A i, j \in 1..Len(paths) : i # j => paths[i].to # paths[j].to
  /\ {paths[i].to : i \in 1..Len(paths)} = Reachable(start) \ {start}

(* bfs_traversal and dfs_traversal report every reachable node exactly     *)
(* once, each by an edge from a node that was reached before it, on any    *)
(* graph with cycles, self-loops and parallel edges.                       *)
TraversalsAgree ==
  \A start \in NodeIds : \A paths \in {bfs_traversal(start), dfs_traversal(start)} :
    /\ ReachesAllOnce(paths, start)
    /\ \A i \in 1..Len(paths) :
         paths[i].from = start \/ \E j \in 1..(i - 1) : paths[j].to = paths[i].from

(* The cost of start and of the targets of some paths, weighted. *)
CostAlong(start, paths) ==
  LET sum[i \in 0..Len(paths)] == IF i = 0 THEN CostOf(start)
                                  ELSE sum[i - 1] + nodes_[paths[i].to] * paths[i].weight
  IN  sum[Len(paths)]

(* calculate_cost_propagation counts every reachable node exactly once, by *)
(* the edge through which dfs_traversal reaches it: shared descendants and *)
(* cycles are not counted twice.                                           *)
CostCountedOnce ==
  \A start \in NodeIds : PropagatedCost(start) = CostAlong(start, dfs_traversal(start))
=============================================================================
