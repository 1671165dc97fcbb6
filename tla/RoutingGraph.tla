---------------------------- MODULE RoutingGraph ----------------------------
(***************************************************************************)
(* The graph a router searches: the links of a network that allow a mode,  *)
(* as compressed rows (first_out, head), once by their start node and once *)
(* by their end node, with the ids of nodes and links beside the indices.  *)
(* A link's end node is read from the forward rows, its start node from    *)
(* the backward rows.  Indices are one higher than in the code.            *)
(***************************************************************************)
EXTENDS Integers, Sequences, FiniteSets

CONSTANT AnyMode    \* no mode given: every link is taken

\* A network maps ids of links to [from, to, length, freespeed, modes].
NodeIdsOf(net) == {net[l].from : l \in DOMAIN net} \cup {net[l].to : l \in DOMAIN net}

\* A link without modes is open to all.
ContainsMode(link, mode) == link.modes = {} \/ mode \in link.modes

\* Ids in their order: in front of the i-th there are i - 1.
Sorted(ids) ==
  [i \in 1..Cardinality(ids) |-> CHOOSE x \in ids : Cardinality({y \in ids : y < x}) = i - 1]

\* get_links: the given links of a node in the order of their ids.
GetLinks(net, links, mode) ==
  Sorted({l \in links : mode = AnyMode \/ ContainsMode(net[l], mode)})

\* Where the links of each node start, and the links of all nodes in a row.
FirstOut(rows) ==
  LET linksBefore[i \in 0..Len(rows)] == IF i = 0 THEN 0 ELSE linksBefore[i - 1] + Len(rows[i])
  IN [i \in 1..Len(rows) + 1 |-> 1 + linksBefore[i - 1]]

InARow(rows) ==
  LET upTo[i \in 0..Len(rows)] == IF i = 0 THEN <<>> ELSE upTo[i - 1] \o rows[i]
  IN upTo[Len(rows)]

IndexIn(seq, x) == CHOOSE i \in DOMAIN seq : seq[i] = x

ForwardHead(net, nodes, links) == [k \in DOMAIN links |-> IndexIn(nodes, net[links[k]].to)]

\* Slip: the backward rows lead to the end nodes, too.
BackwardHead_End(net, nodes, links) == [k \in DOMAIN links |-> IndexIn(nodes, net[links[k]].to)]

BackwardHead(net, nodes, links) == [k \in DOMAIN links |-> IndexIn(nodes, net[links[k]].from)]

\* convert_network_for_mode
ConvertNetworkForMode(net, mode) ==
  LET nodes == Sorted(NodeIdsOf(net))
      out == [i \in DOMAIN nodes |->
                GetLinks(net, {l \in DOMAIN net : net[l].from = nodes[i]}, mode)]
      in == [i \in DOMAIN nodes |->
               GetLinks(net, {l \in DOMAIN net : net[l].to = nodes[i]}, mode)]
      forward == InARow(out)
      backward == InARow(in)
  IN
    [node_id_by_index |-> nodes,
     forward_first_out |-> FirstOut(out),
     forward_head |-> ForwardHead(net, nodes, forward),
     forward_link_id_by_index |-> forward,
     backward_first_out |-> FirstOut(in),
     backward_head |-> BackwardHead(net, nodes, backward),
     backward_link_id_by_index |-> backward]

NodeIndices(graph) == DOMAIN graph.node_id_by_index
HasLink(graph, link) == \E k \in DOMAIN graph.forward_link_id_by_index :
                          graph.forward_link_id_by_index[k] = link

NodeIdx(graph, node) == IndexIn(graph.node_id_by_index, node)
LinkIdx(graph, link) == IndexIn(graph.forward_link_id_by_index, link)

\* get_backward_link_index: by way of the link's id.
BackwardLinkIdx(graph, k) ==
  IndexIn(graph.backward_link_id_by_index, graph.forward_link_id_by_index[k])

EndNodeAsIdx(graph, k) == graph.forward_head[k]
StartNodeAsIdx(graph, k) == graph.backward_head[BackwardLinkIdx(graph, k)]

EndNode(graph, link) == graph.node_id_by_index[EndNodeAsIdx(graph, LinkIdx(graph, link))]
StartNode(graph, link) == graph.node_id_by_index[StartNodeAsIdx(graph, LinkIdx(graph, link))]

Row(first_out, n) == [i \in 1..first_out[n + 1] - first_out[n] |-> first_out[n] + i - 1]

OutgoingEdgesAsIdx(graph, n) == Row(graph.forward_first_out, n)

\* Backward indices are translated to the forward ones the links are known by.
IncomingEdgesAsIdx(graph, n) ==
  LET row == Row(graph.backward_first_out, n)
  IN [i \in DOMAIN row |-> LinkIdx(graph, graph.backward_link_id_by_index[row[i]])]
=============================================================================
