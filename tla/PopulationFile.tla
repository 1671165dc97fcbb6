--------------------------- MODULE PopulationFile ---------------------------
(***************************************************************************)
(* Population files, as XML and as protocol buffers: what writing keeps of *)
(* a person and what reading makes of it.  Times, ids, numbers and yes/no  *)
(* are written so that they are read as the same value (checked in detail  *)
(* nowhere here: SimTime's format keeps nanoseconds); what is modelled is  *)
(* what the formats lose, add or require.                                  *)
(***************************************************************************)
EXTENDS PrepareForSim

CONSTANTS DefaultSubpopulation,
          AtGround(_)   \* the coordinate at height zero with the same x and y

\* The nodes of links lie at height zero, whatever a file says of other nodes.
ASSUME HeightAssumption ==
  /\ \A c \in Coords : AtGround(c) \in Coords /\ AtGround(AtGround(c)) = AtGround(c)
  /\ \A l \in DOMAIN Net : /\ AtGround(Middle(l)) = Middle(l)
                           /\ \A c \in Coords : AtGround(NearestPoint(c, l)) = NearestPoint(c, l)

\* An XML attribute or a message field that is not there.
Absent == "absent"

-----------------------------------------------------------------------------
(* XML.                                                                      *)

\* A route that starts and ends on one link is written with that link once.
RouteDescription(route) ==
  IF Len(route.links) = 2 /\ route.links[1] = route.links[2] THEN <<route.links[1]>> ELSE route.links

\* IORoute::from
RouteToXml(route) ==
  IF route = NoRoute THEN NoRoute
  ELSE [route EXCEPT !.links = RouteDescription(route),
                     !.veh = IF route.veh = NoVehicle THEN <<Absent>> ELSE route.veh]

\* verify_internal_attrs: the routing mode is written as an attribute only.
RoutingModeAttr(leg) == IF leg.attr # "none" THEN leg.attr ELSE leg.rmode

\* Slip: the routing mode is written only if the leg was read with one.
LegToXml_FromAttr(leg) == [leg EXCEPT !.rmode = Absent, !.attr = leg.attr, !.route = RouteToXml(leg.route)]

LegToXml(leg) ==
  [leg EXCEPT !.rmode = Absent, !.attr = RoutingModeAttr(leg), !.route = RouteToXml(leg.route)]

\* InternalRoute::from_io: a route without a vehicle gets the person's default one.
RouteFromXml(route, id, mode) ==
  IF route = NoRoute THEN NoRoute
  ELSE [route EXCEPT !.veh = IF route.veh \in {<<Absent>>, <<"null">>} THEN DefaultVehicle(id, mode)
                             ELSE route.veh]

\* InternalLeg::from_io: the routing mode stays among the attributes, the travel
\* time falls back on the one of the route.
LegFromXml(leg, id) ==
  [leg EXCEPT !.rmode = leg.attr,
              !.route = RouteFromXml(leg.route, id, leg.mode),
              !.trav = IF leg.trav = None /\ leg.route # NoRoute THEN leg.route.trav ELSE leg.trav]

\* An IOActivity has x and y only, and is read as lying at height zero.
ActivityInXml(act) == [act EXCEPT !.coord = IF @ = None THEN None ELSE AtGround(@)]

ElementsToXml(elements) ==
  [i \in DOMAIN elements |-> IF elements[i].kind = "leg" THEN LegToXml(elements[i])
                             ELSE ActivityInXml(elements[i])]
ElementsFromXml(elements, id) ==
  [i \in DOMAIN elements |-> IF elements[i].kind = "leg" THEN LegFromXml(elements[i], id)
                             ELSE ActivityInXml(elements[i])]

\* The reader expects a link of every activity, and of every route its ends and a type
\* that it knows.  (Coordinates are whole, and descriptions of public transport can be
\* parsed, in the files considered here.)
ElementReadable(e) ==
  /\ e.kind = "act" => e.link # None
  /\ e.kind = "leg" /\ e.route # NoRoute =>
       /\ e.route.start # None /\ e.route.end # None
       /\ e.route.type \in {"generic", "links", "default_pt"}
XmlReadable(io) ==
  \A i \in DOMAIN io.plans : \A k \in DOMAIN io.plans[i].elements : ElementReadable(io.plans[i].elements[k])

\* The subpopulation is one of the person's attributes in the file.
PersonToXml(person) ==
  [plans |-> [i \in DOMAIN person.plans |->
                [person.plans[i] EXCEPT !.elements = ElementsToXml(@)]],
   attrs |-> [person.attrs EXCEPT !.subpopulation = person.sub]]

PersonFromXml(io, id) ==
  [plans |-> [i \in DOMAIN io.plans |->
                [io.plans[i] EXCEPT !.elements = ElementsFromXml(@, id)]],
   sub |-> IF io.attrs.subpopulation = Absent THEN DefaultSubpopulation
           ELSE io.attrs.subpopulation,
   attrs |-> io.attrs]

\* create_ids: a vehicle of every type for every person.
VehiclesFromXml(ids, vehicleTypes) == {DefaultVehicle(id, type) : id \in ids, type \in vehicleTypes}

-----------------------------------------------------------------------------
(* Protocol buffers.  A plan is written as its activities and its legs.      *)

\* The person's attributes are not written.
PersonToProto(person) ==
  [plans |-> [i \in DOMAIN person.plans |->
                [score |-> person.plans[i].score, selected |-> person.plans[i].selected,
                 acts |-> OfKind(person.plans[i].elements, "act"),
                 legs |-> OfKind(person.plans[i].elements, "leg")]],
   sub |-> person.sub]

\* The reader unwraps every coordinate and refuses a plan that ends with a leg.
ProtoReadable(io) ==
  \A i \in DOMAIN io.plans :
    /\ Len(io.plans[i].legs) <= Len(io.plans[i].acts)
    /\ \A k \in DOMAIN io.plans[i].acts : io.plans[i].acts[k].coord # None

\* zip_longest of activities and legs.
ZipLongest(acts, legs) ==
  [k \in 1..Len(acts) + Len(legs) |->
     IF k > 2 * Len(legs) THEN acts[k - Len(legs)]
     ELSE IF k % 2 = 1 THEN acts[(k + 1) \div 2] ELSE legs[k \div 2]]

PersonFromProto(io) ==
  [plans |-> [i \in DOMAIN io.plans |->
                [score |-> io.plans[i].score, selected |-> io.plans[i].selected,
                 elements |-> ZipLongest(io.plans[i].acts, io.plans[i].legs)]],
   sub |-> io.sub, attrs |-> [subpopulation |-> Absent]]

-----------------------------------------------------------------------------
(* from_file and to_file choose the format by the file's extension.          *)

ToFile(format, person) == IF format = "xml" THEN PersonToXml(person) ELSE PersonToProto(person)
Readable(format, io) == IF format = "xml" THEN XmlReadable(io) ELSE ProtoReadable(io)
FromFile(format, io, id) == IF format = "xml" THEN PersonFromXml(io, id) ELSE PersonFromProto(io)
=============================================================================
