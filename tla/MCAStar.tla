------------------------------ MODULE MCAStar ------------------------------
(* Networks with a from-link (1) and a to-link (2), and three further links     *)
(* between any of three nodes, parallel links and loops included.               *)
EXTENDS AStar

CONSTANT any

L(from, to, length, modes) ==
  [from |-> from, to |-> to, length |-> length, freespeed |-> 2, modes |-> modes]
Free(lengths) == {L(a, b, len, {"car"}) : a \in {2, 5, 7}, b \in {2, 5, 7}, len \in lengths}

\* One-way networks: the way from link 1 to link 2 is made of links 3, 4 and 5.
OneWay ==
  {<<L(2, 5, 2, {"car"}), L(7, 2, 2, {"car"}), x, y, z>> :
     x \in Free({2}), y \in Free({6}), z \in {L(2, 7, 2, {"walk"}), L(5, 7, 10, {"car", "walk"}),
                                              L(2, 5, 4, {})}}
\* Every link has a link back.
TwoWay ==
  {<<L(2, 5, 2, {"car"}), L(7, 2, 2, {"car"}), L(5, 2, 2, {"car"}), L(2, 7, 2, {"car"}),
     L(5, 7, len, {"car"}), L(7, 5, len, {"car"})>> : len \in {2, 4, 8}}

CarRequests ==
  {[from |-> 1, to |-> 2, departure_time |-> 3, vehicle |-> NoVehicle, mode |-> "car"],
   [from |-> 1, to |-> 2, departure_time |-> 0, vehicle |-> 1, mode |-> any]}
\* Four nodes, three ways from node 2 to node 7.
Ways ==
  {<<L(9, 2, 2, {"car"}), L(7, 2, 2, {"car"}), L(2, 5, a, {"car"}), L(5, 7, b, {"car"}),
     L(9, 7, c, {"car"}), L(2, 9, d, {"car"}), L(5, 9, 2, {"car"})>> :
     a \in {2, 10}, b \in {6, 12}, c \in {2, 6}, d \in {8, 12}}
AllNetworks == OneWay \cup TwoWay \cup Ways
\* Two ways from node 2 to node 9: over 5, which is far from 9, and over 7, which is near.
Detour == {<<L(9, 2, 40, {"car"}), L(9, 7, 2, {"car"}), L(2, 5, 2, {"car"}), L(5, 9, 2, {"car"}),
             L(2, 7, 4, {"car"}), L(7, 9, 4, {"car"})>>}
OneRequest == {[from |-> 1, to |-> 2, departure_time |-> 0, vehicle |-> NoVehicle, mode |-> "car"]}
=============================================================================
