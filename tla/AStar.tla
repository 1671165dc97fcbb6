-------------------------------- MODULE AStar --------------------------------
(***************************************************************************)
(* The least cost path calculator: A* over a RoutingGraph.  With the zero  *)
(* heuristic it is Dijkstra's algorithm; with the ALT heuristic it first   *)
(* computes, for a landmark, the costs to and from every node (with the    *)
(* same search, without a destination, forward and backward).  A node is   *)
(* taken from the queue once and never put back.                           *)
(*                                                                         *)
(* Disutilities are the travel times; seconds are whole.  Which of several *)
(* nodes of equal priority the queue gives first is left open, and so is   *)
(* the node that the seeded generator makes the landmark.                  *)
(***************************************************************************)
EXTENDS RoutingGraph, SequencesExt

CONSTANTS
  Networks,     \* the networks a router is built for
  Requests,     \* [from, to, departure_time, vehicle, mode]
  Heuristics,   \* subset of {"zero", "alt"}
  NoVehicle,    \* no vehicle given; otherwise it is its maximum speed
  Inf           \* f64::INFINITY and SimTime::max()

\* Inf is beyond the costs of a way there and back that passes no node twice.
IsNetwork(n) ==
  /\ IsFiniteSet(DOMAIN n) /\ DOMAIN n \subseteq Nat
  /\ \A l \in DOMAIN n :
       /\ n[l].from \in Nat /\ n[l].to \in Nat
       /\ n[l].length \in Nat /\ n[l].freespeed \in Nat \ {0}
       /\ 2 * Cardinality(NodeIdsOf(n)) * n[l].length < Inf

ASSUME AStarAssumption ==
  /\ Heuristics \subseteq {"zero", "alt"} /\ Inf \in Nat \ {0} /\ NoVehicle \notin Nat
  /\ \A n \in Networks : IsNetwork(n)
  /\ \A r \in Requests : r.departure_time \in Nat /\ r.vehicle \in {NoVehicle} \cup (Nat \ {0})

VARIABLES
  net, graph,       \* the network, and the graph made of it
  heuristic, request,
  job,              \* the search that is running: "forward", "backward", "route"
  queue,            \* node indices not yet taken
  label,            \* [dist, prio, arrival, parent] of the nodes
  landmark,         \* index of the landmark
  to_all,           \* [forward, backward]: its disutilities
  phase,            \* "new", "search", "ready", "extract", "done"
  cursor, path,     \* extract_link_path
  result            \* of calc_least_cost_path

astarVars == <<net, graph, heuristic, request, job, queue, label, landmark, to_all, phase,
               cursor, path, result>>

NoPath == [found |-> FALSE]
NoParent == 0
Nowhere == 0

\* FreeOrMaxSpeedTravelTimeAndDisutility; without a vehicle also the minimum of a link,
\* and what FreeSpeedTravelTimeAndDisutility has for every vehicle.
LinkTravelTime(link, vehicle) ==
  link.length \div (IF vehicle = NoVehicle THEN link.freespeed
                    ELSE Min({vehicle, link.freespeed}))
LinkMinTravelDisutility(link) == LinkTravelTime(link, NoVehicle)

LinkAt(k) == net[graph.forward_link_id_by_index[k]]

EmptyLabel == [dist |-> <<>>, prio |-> <<>>, arrival |-> <<>>, parent |-> <<>>]

\* get_initial_queue, and what the actions object starts with.
InitialLabel(from) ==
  [dist |-> [n \in NodeIndices(graph) |-> IF n = from THEN 0 ELSE Inf],
   prio |-> [n \in NodeIndices(graph) |-> IF n = from THEN 0 ELSE Inf],
   arrival |-> [n \in NodeIndices(graph) |-> IF n = from THEN request.departure_time ELSE Inf],
   parent |-> [n \in NodeIndices(graph) |-> NoParent]]

StartSearch(kind, from) ==
  /\ job' = kind
  /\ phase' = "search"
  /\ queue' = NodeIndices(graph)
  /\ label' = InitialLabel(from)

AStarInit ==
  /\ net \in Networks /\ request \in Requests /\ heuristic \in Heuristics
  /\ graph = ConvertNetworkForMode(net, request.mode)
  /\ job = "none" /\ queue = {} /\ label = EmptyLabel
  /\ landmark = Nowhere
  /\ to_all = [forward |-> <<>>, backward |-> <<>>]
  /\ phase = "new"
  /\ cursor = Nowhere /\ path = <<>> /\ result = NoPath

\* AStar::new with the zero heuristic.
NewDijkstra ==
  /\ phase = "new" /\ heuristic = "zero"
  /\ phase' = "ready"
  /\ UNCHANGED <<net, graph, heuristic, request, job, queue, label, landmark, to_all, cursor,
                 path, result>>

\* AStar::new with the ALT heuristic: fewer than 17 nodes have one landmark.
NewAlt ==
  /\ phase = "new" /\ heuristic = "alt"
  /\ \E n \in NodeIndices(graph) : landmark' = n /\ StartSearch("forward", n)
  /\ UNCHANGED <<net, graph, heuristic, request, to_all, cursor, path, result>>

\* AltHeuristic::estimate.  The first of a node's two values is the disutility from the
\* landmark, the second that to the landmark.
AltEstimate(from, to) ==
  LET f == to_all.forward
      b == to_all.backward
  IN Max({0}
         \cup (IF f[from] # Inf /\ b[to] # Inf THEN {f[from] - b[to]} ELSE {})
         \cup (IF f[to] # Inf /\ b[from] # Inf THEN {f[to] - b[from]} ELSE {}))

ToNode == NodeIdx(graph, StartNode(graph, request.to))

Estimate(n) == IF job = "route" /\ heuristic = "alt" THEN AltEstimate(n, ToNode) ELSE 0

Disutility(k) ==
  IF job = "route" THEN LinkTravelTime(LinkAt(k), request.vehicle)
  ELSE LinkMinTravelDisutility(LinkAt(k))

Neighbour(k) == IF job = "backward" THEN StartNodeAsIdx(graph, k) ELSE EndNodeAsIdx(graph, k)

NeighbourEdges(n) ==
  IF job = "backward" THEN IncomingEdgesAsIdx(graph, n) ELSE OutgoingEdgesAsIdx(graph, n)

\* Slip: the priority is the cost of the link instead of the way.
Priority_OfLink(d, k, m) == Disutility(k) + Estimate(m)

Priority(d, k, m) == d + Estimate(m)

\* Slip: a parent, once set, stays.
ParentLink_First(old, k) == IF old = NoParent THEN k ELSE old

ParentLink(old, k) == k

\* One neighbour edge k of the current node n.
Relax(n, lab, k) ==
  LET m == Neighbour(k)
      d == lab.dist[n] + Disutility(k)
  IN
    IF m \in queue \ {n} /\ lab.dist[m] > d
    THEN [dist |-> [lab.dist EXCEPT ![m] = d],
          arrival |-> [lab.arrival EXCEPT ![m] =
                         lab.arrival[n] + LinkTravelTime(LinkAt(k), request.vehicle)],
          prio |-> [lab.prio EXCEPT ![m] = Priority(d, k, m)],
          parent |-> [lab.parent EXCEPT ![m] = ParentLink(@, k)]]
    ELSE lab

\* All neighbour edges of n, one after the other.
Relaxed(n) ==
  LET edges == NeighbourEdges(n)
      after[i \in 0..Len(edges)] == IF i = 0 THEN label ELSE Relax(n, after[i - 1], edges[i])
  IN after[Len(edges)]

Popped(n) == n \in queue /\ \A m \in queue : label.prio[n] <= label.prio[m]

\* The search returns when it takes an unreachable node or its destination.
ReturnsAt(n) == label.dist[n] = Inf \/ (job = "route" /\ n = ToNode)

Settle(n) ==
  /\ phase = "search" /\ Popped(n) /\ ~ReturnsAt(n)
  /\ label' = Relaxed(n)
  /\ queue' = queue \ {n}
  /\ UNCHANGED <<net, graph, heuristic, request, job, landmark, to_all, phase, cursor, path,
                 result>>

SearchReturns(n) == phase = "search" /\ Popped(n) /\ ReturnsAt(n) /\ queue' = queue \ {n}
SearchExhausted == phase = "search" /\ queue = {} /\ UNCHANGED queue

\* calc_all_disutilities: forward, then backward.
LandmarkSearchDone ==
  /\ job \in {"forward", "backward"}
  /\ to_all' = [to_all EXCEPT ![job] = label.dist]
  /\ \/ /\ job = "forward"
        /\ SearchExhausted \/ (\E n \in queue : SearchReturns(n))
        /\ job' = "none" /\ phase' = "backward"
     \/ /\ job = "backward"
        /\ SearchExhausted \/ (\E n \in queue : SearchReturns(n))
        /\ job' = "none" /\ phase' = "ready"
  /\ label' = EmptyLabel
  /\ UNCHANGED <<net, graph, heuristic, request, landmark, cursor, path, result>>

LandmarkBackward ==
  /\ phase = "backward"
  /\ StartSearch("backward", landmark)
  /\ UNCHANGED <<net, graph, heuristic, request, landmark, to_all, cursor, path, result>>

\* calc_least_cost_path: both links must be in the graph.
CalcLeastCostPath ==
  /\ phase = "ready"
  /\ IF HasLink(graph, request.to) /\ HasLink(graph, request.from)
     THEN StartSearch("route", NodeIdx(graph, EndNode(graph, request.from)))
     ELSE phase' = "done" /\ UNCHANGED <<job, queue, label>>
  /\ UNCHANGED <<net, graph, heuristic, request, landmark, to_all, cursor, path, result>>

RouteSearchDone ==
  /\ job = "route"
  /\ \E n \in queue :
       /\ SearchReturns(n)
       /\ phase' = IF label.dist[n] = Inf THEN "done" ELSE "extract"
  /\ cursor' = ToNode
  /\ job' = "none"
  /\ UNCHANGED <<net, graph, heuristic, request, label, landmark, to_all, path, result>>

\* extract_link_path follows the parents ...
ExtractLink ==
  /\ phase = "extract" /\ label.parent[cursor] # NoParent
  /\ path' = <<graph.forward_link_id_by_index[label.parent[cursor]]>> \o path
  /\ cursor' = StartNodeAsIdx(graph, label.parent[cursor])
  /\ UNCHANGED <<net, graph, heuristic, request, job, queue, label, landmark, to_all, phase,
                 result>>

\* ... and the path must connect the two links.
VerifyPath ==
  IF path = <<>> THEN EndNode(graph, request.from) = StartNode(graph, request.to)
  ELSE /\ StartNode(graph, Head(path)) = EndNode(graph, request.from)
       /\ EndNode(graph, Last(path)) = StartNode(graph, request.to)

ReturnPath ==
  /\ phase = "extract" /\ label.parent[cursor] = NoParent
  /\ phase' = "done"
  /\ result' = IF VerifyPath
               THEN [found |-> TRUE, path |-> path,
                     travel_time |-> label.arrival[ToNode] - request.departure_time,
                     travel_disutility |-> label.dist[ToNode]]
               ELSE NoPath
  /\ UNCHANGED <<net, graph, heuristic, request, job, queue, label, landmark, to_all, cursor,
                 path>>

AStarStep ==
  \/ NewDijkstra \/ NewAlt \/ LandmarkSearchDone \/ LandmarkBackward
  \/ CalcLeastCostPath \/ RouteSearchDone \/ ExtractLink \/ ReturnPath
  \/ \E n \in queue : Settle(n)

AStarFinished == phase = "done" /\ UNCHANGED astarVars
AStarNext == AStarStep \/ AStarFinished
AStarSpec == AStarInit /\ [][AStarNext]_astarVars
-----------------------------------------------------------------------------
(* The reference: least costs by the number of links of a path.             *)

ModeLinks == {l \in DOMAIN net : request.mode = AnyMode \/ net[l].modes = {} \/ request.mode \in net[l].modes}

\* d with ways that have one more of the links, w their costs.
OneLinkMore(d, w) ==
  [n \in NodeIdsOf(net) |->
     Min({d[n]} \cup {d[net[l].from] + w[l] : l \in {x \in DOMAIN w : net[x].to = n}})]

\* Cheapest way from `from` to each node over at most k of the links; no more than there are
\* nodes are needed.
LeastCosts(from, w) ==
  LET nodes == NodeIdsOf(net)
      D[k \in 0..Cardinality(nodes)] ==
        IF k = 0 THEN [n \in nodes |-> IF n = from THEN 0 ELSE Inf] ELSE OneLinkMore(D[k - 1], w)
  IN D[Cardinality(nodes)]

MinCosts(from) ==
  LeastCosts(from, [l \in ModeLinks |-> LinkMinTravelDisutility(net[l])])
RequestCosts(from) ==
  LeastCosts(from, [l \in ModeLinks |-> LinkTravelTime(net[l], request.vehicle)])

\* Every link can be driven back at the same cost.
Symmetric ==
  \A a, b \in NodeIdsOf(net) : MinCosts(a)[b] = MinCosts(b)[a]

(* Properties.                                                              *)

\* Both halves of the graph are of the links that allow the mode, and of those only: the
\* start node, found by way of the backward half, and the end node are the link's, and
\* a link is among the edges of exactly these two nodes.
GraphOfNetwork ==
  phase = "new" =>
    /\ \A l \in DOMAIN net : HasLink(graph, l) <=> l \in ModeLinks
    /\ \A l \in ModeLinks : StartNode(graph, l) = net[l].from /\ EndNode(graph, l) = net[l].to
    /\ \A n \in NodeIndices(graph) :
         /\ {graph.forward_link_id_by_index[k] : k \in Range(OutgoingEdgesAsIdx(graph, n))} =
              {l \in ModeLinks : net[l].from = graph.node_id_by_index[n]}
         /\ {graph.forward_link_id_by_index[k] : k \in Range(IncomingEdgesAsIdx(graph, n))} =
              {l \in ModeLinks : net[l].to = graph.node_id_by_index[n]}

\* A node that has been taken from the queue is never looked at again: its label must be
\* final by then, in the landmark searches in both directions as in the route's.
SettledIsFinal ==
  (phase = "search" /\ (job = "route" => heuristic = "zero")) =>
    \A n \in NodeIndices(graph) \ queue :
      label.dist[n] =
        LET id == graph.node_id_by_index[n]
            lm == graph.node_id_by_index[landmark]
        IN CASE job = "forward" -> MinCosts(lm)[id]
             [] job = "backward" -> MinCosts(id)[lm]
             [] job = "route" -> RequestCosts(net[request.from].to)[id]

PathCost(p) ==
  LET cost[i \in 0..Len(p)] ==
        IF i = 0 THEN 0 ELSE cost[i - 1] + LinkTravelTime(net[p[i]], request.vehicle)
  IN cost[Len(p)]

\* calc_least_cost_path gives a path if and only if there is one for the mode; the path
\* is connected, it takes the time and has the disutility that are returned, and no path
\* has a lower one: always for Dijkstra, for ALT on networks that can be driven in both
\* directions at the same cost.
RouteIsLeastCost ==
  (phase = "done" /\ (heuristic = "alt" => Symmetric)) =>
    IF {request.from, request.to} \subseteq ModeLinks
         /\ RequestCosts(net[request.from].to)[net[request.to].from] # Inf
    THEN LET whole == <<request.from>> \o result.path \o <<request.to>>
         IN /\ result.found
            /\ \A i \in 1..Len(whole) - 1 : net[whole[i]].to = net[whole[i + 1]].from
            /\ \A i \in 1..Len(result.path) : result.path[i] \in ModeLinks
            /\ result.travel_disutility = RequestCosts(net[request.from].to)[net[request.to].from]
            /\ result.travel_disutility = PathCost(result.path)
            /\ result.travel_time = PathCost(result.path)
    ELSE ~result.found

\* The ALT heuristic "must be admissible (i.e., never overestimate the actual remaining
\* travel disutility)", and the ALT router gives the cost that Dijkstra gives.
AltFindsLeastCost ==
  (phase = "done" /\ heuristic = "alt" /\ result.found) =>
    result.travel_disutility = RequestCosts(net[request.from].to)[net[request.to].from]
=============================================================================
