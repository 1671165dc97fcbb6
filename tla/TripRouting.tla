----------------------------- MODULE TripRouting -----------------------------
(***************************************************************************)
(* How a trip between two facilities is routed: the TripRouter with a      *)
(* teleporting module for every teleported mode and, for every main mode,  *)
(* a module that walks to the network, follows a least cost path and walks *)
(* from it.  The search for the path is the subject of AStar; here it is a *)
(* parameter.  Geometry is a parameter, too.                               *)
(***************************************************************************)
EXTENDS TripPlan, SequencesExt

CONSTANTS Net,               \* Net[l]: from, to, length, modes of link l
          MainModes,         \* qsim.main_modes
          TeleportedModes,   \* routing.teleported_mode_params
          BeelineFactor, TeleportSpeed,  \* of the teleported modes
          AccessEgressMode,  \* routing.access_egress_mode
          LeastCostPath,     \* LeastCostPath[from, to, mode]: found, path, time
          Coords,            \* coordinates
          Distance(_, _),    \* of two coordinates
          NearestPoint(_, _) \* projection of a coordinate onto a link

\* What create_trip_router, which returns an error otherwise, requires.
ASSUME TripRoutingAssumption ==
  /\ MainModes # {} => AccessEgressMode \in TeleportedModes
  /\ "none" \notin MainModes \cup TeleportedModes   \* it stands for no mode
  /\ \A m \in TeleportedModes : BeelineFactor[m] \in Nat /\ TeleportSpeed[m] \in Nat \ {0}

ASSUME GeometryAssumption ==
  None \notin Coords /\ \A c \in Coords, l \in DOMAIN Net : NearestPoint(c, l) \in Coords

\* A link without modes is open to all.
ContainsMode(link, mode) == link.modes = {} \/ mode \in link.modes

NoRoute == [type |-> "none"]
NoVehicle == <<>>   \* vehicle ids are tuples of words
GenericRoute(start, end, trav, dist, veh) ==
  [type |-> "generic", start |-> start, end |-> end, trav |-> trav, dist |-> dist,
   veh |-> veh, links |-> <<>>]
NetworkRoute(generic, links) == [generic EXCEPT !.type = "links", !.links = links]
PtRoute(generic, description) == [generic EXCEPT !.type = "default_pt", !.links = description]

\* InternalLeg::new; attr is the routing mode among the leg's attributes.
NewLeg(route, mode, trav, dep) ==
  [kind |-> "leg", mode |-> mode, rmode |-> mode, attr |-> "none", dep |-> dep,
   trav |-> trav, route |-> route]

Facility(coord, link) == [coord |-> coord, link |-> link, modal |-> <<>>]
NewLinkWrapperFrom(facility, coord) == [facility EXCEPT !.coord = coord]
ModalLink(facility, mode) ==
  IF mode \in DOMAIN facility.modal THEN facility.modal[mode] ELSE facility.link

Failed(why) == [ok |-> FALSE, why |-> why]
Routed(elements) == [ok |-> TRUE, elements |-> elements]

-----------------------------------------------------------------------------
(* TimeInterpretation.  No time, and no end of something that begins at no  *)
(* time, is None.                                                            *)

LegTravelTime(leg) ==
  IF leg.route # NoRoute /\ leg.route.trav # None THEN leg.route.trav ELSE leg.trav

ElementEndTime(e, start) ==
  CASE e.kind = "act" /\ e.end # None -> e.end
    [] e.kind = "act" /\ e.end = None -> IF e.dur = None THEN None ELSE start + e.dur
    [] e.kind = "leg" -> IF LegTravelTime(e) = None THEN None ELSE start + LegTravelTime(e)

ElementsEndTime(elements, start) ==
  FoldLeft(LAMBDA t, e : IF t = None THEN None ELSE ElementEndTime(e, t), start, elements)

-----------------------------------------------------------------------------
(* The routing modules.  A request has from, to, dep and veh.               *)

\* TeleportationRoutingModule::calc_route
Teleport(mode, req) ==
  LET dist == Distance(req.from.coord, req.to.coord) * BeelineFactor[mode]
      trav == dist \div TeleportSpeed[mode]
      route == GenericRoute(ModalLink(req.from, mode), ModalLink(req.to, mode), trav, dist,
                            req.veh)
  IN <<NewLeg(route, mode, trav, req.dep)>>

InteractionActivity(mode, coord, link) ==
  [kind |-> "act", name |-> mode, main |-> FALSE, link |-> link, coord |-> coord,
   end |-> None, dur |-> 0, horizon |-> None]

\* access_routing: a leg to the point on the link, and the interaction there.
AccessRouting(mode, req) ==
  LET point == NearestPoint(req.from.coord, req.from.link) IN
    Teleport(AccessEgressMode, [from |-> req.from, to |-> NewLinkWrapperFrom(req.from, point),
                                dep |-> req.dep, veh |-> NoVehicle])
      \o <<InteractionActivity(mode, point, req.from.link)>>

EgressRouting(mode, req, now) ==
  LET point == NearestPoint(req.to.coord, req.to.link) IN
    <<InteractionActivity(mode, point, req.to.link)>>
      \o Teleport(AccessEgressMode, [from |-> NewLinkWrapperFrom(req.to, point), to |-> req.to,
                                     dep |-> now, veh |-> NoVehicle])

\* The first link is not part of the distance: the vehicle starts at its end.
RouteLength(links) == FoldLeft(LAMBDA d, l : d + Net[l].length, 0, Tail(links))

\* Slip: a path of no links is taken for a trip on one link.
RouteLinks_ByPath(from, to, path) == IF path = <<>> THEN <<from>> ELSE <<from>> \o path \o <<to>>

\* path_to_elements: the path lies between the end of `from` and the start of `to`.
RouteLinks(from, to, path) == IF from = to THEN <<from>> ELSE <<from>> \o path \o <<to>>

PathToElements(path, from, to, mode, veh) ==
  LET links == RouteLinks(from, to, path.path)
      generic == GenericRoute(from, links[Len(links)], path.time, RouteLength(links), veh)
  IN <<NewLeg(NetworkRoute(generic, links), mode, path.time, None)>>

\* network_leg
NetworkPath(from, to, mode) ==
  IF from = to THEN [found |-> TRUE, path |-> <<>>, time |-> 0] ELSE LeastCostPath[from, to, mode]

\* NetworkRoutingModule::calc_route
RouteOnNetwork(mode, req) ==
  LET from == ModalLink(req.from, mode)
      to == ModalLink(req.to, mode)
      path == NetworkPath(from, to, mode)
      access == AccessRouting(mode, req)
      leg == PathToElements(path, from, to, mode, req.veh)
      now == ElementsEndTime(leg, ElementsEndTime(SubSeq(access, 1, 1), req.dep))
  IN IF path.found THEN Routed(access \o leg \o EgressRouting(mode, req, now))
     ELSE Failed("NoPath")

\* Slip: only the main leg is given the routing mode.
SetRoutingMode_MainOnly(e, mode) ==
  IF e.kind = "leg" /\ e.mode = mode THEN [e EXCEPT !.rmode = mode] ELSE e

SetRoutingMode(e, mode) == IF e.kind = "leg" THEN [e EXCEPT !.rmode = mode] ELSE e

\* create_trip_router: the module of a main mode replaces that of a teleported one.
RouterOf(mode) ==
  CASE mode \in MainModes -> "network"
    [] mode \in TeleportedModes \ MainModes -> "teleportation"
    [] OTHER -> "none"

\* TripRouter::calc_route: what the module gives, with the routing mode in every leg.
WithRoutingMode(result, mode) ==
  IF result.ok THEN Routed([i \in DOMAIN result.elements |-> SetRoutingMode(result.elements[i], mode)])
  ELSE result

CalcRoute(mode, req) ==
  WithRoutingMode(CASE RouterOf(mode) = "network" -> RouteOnNetwork(mode, req)
                    [] RouterOf(mode) = "teleportation" -> Routed(Teleport(mode, req))
                    [] RouterOf(mode) = "none" -> Failed("MissingModule"), mode)
=============================================================================
