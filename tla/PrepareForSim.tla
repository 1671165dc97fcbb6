---------------------------- MODULE PrepareForSim ----------------------------
(***************************************************************************)
(* prepare_for_sim: before every mobsim run all plans of all persons are   *)
(* checked, missing coordinates are filled in, and trips without a usable  *)
(* route are routed anew.  A plan with a trip that cannot be routed stays  *)
(* as it is and is reported.                                               *)
(***************************************************************************)
EXTENDS TripRouting, FiniteSets

CONSTANT Middle(_)   \* the coordinate half way between the nodes of a link
ASSUME MiddleAssumption == \A l \in DOMAIN Net : Middle(l) \in Coords

\* A vehicle's id; the default one of a person for a mode is <person>_<mode>.
DefaultVehicle(person, mode) == <<person, mode>>

IsNetworkMode(mode) == mode \in MainModes

\* assign_activity_coordinates
AssignCoordinates(elements) ==
  [i \in DOMAIN elements |->
     IF elements[i].kind = "act" /\ elements[i].coord = None
       THEN [elements[i] EXCEPT !.coord = Middle(elements[i].link)] ELSE elements[i]]

Trips(elements) == TripSpans(elements, 1)

\* Slip: the trips are counted from the end of the plan.
SpanAt_FromTheEnd(elements, k) ==
  CHOOSE s \in Trips(elements) : Cardinality({t \in Trips(elements) : t.origin > s.origin}) = k - 1

\* get_trip_spans: the k-th span in the order of the plan.
SpanAt(elements, k) ==
  CHOOSE s \in Trips(elements) : Cardinality({t \in Trips(elements) : t.origin < s.origin}) = k - 1

TripElements(elements, span) == SubSeq(elements, span.origin + 1, span.destination - 1)

\* Those elements that are activities, or those that are legs.
OfKind(elements, kind) ==
  LET chosen[i \in 0..Len(elements)] ==
        IF i = 0 THEN <<>>
        ELSE IF elements[i].kind = kind THEN Append(chosen[i - 1], elements[i]) ELSE chosen[i - 1]
  IN chosen[Len(elements)]
LegsOf(trip) == OfKind(trip, "leg")

\* resolve_main_mode
ResolveMainMode(legs) ==
  LET modes == {legs[i].rmode : i \in DOMAIN legs} \ {"none"} IN
    CASE legs = <<>> -> Failed("NoLegs")
      [] legs # <<>> /\ Cardinality(modes) = 1 -> [ok |-> TRUE, mode |-> CHOOSE m \in modes : TRUE]
      [] Len(legs) = 1 /\ modes = {} -> [ok |-> TRUE, mode |-> legs[1].mode]
      [] OTHER -> Failed("AmbiguousMainMode")

\* A distance that is not finite is a negative one here.
GenericRouteIsValid(route) == route.dist # None /\ route.trav # None /\ route.dist >= 0

NetworkRouteIsValid(route, mode) ==
  LET links == route.links IN
    /\ links # <<>> /\ links[1] = route.start /\ links[Len(links)] = route.end
    /\ \A i \in DOMAIN links : ContainsMode(Net[links[i]], mode)
    /\ \A i \in 1..Len(links) - 1 : Net[links[i]].to = Net[links[i + 1]].from

\* The route of a leg and the legs' agreement on the routing mode.
LegIsValid(leg, mode) ==
  /\ leg.rmode = mode /\ leg.trav # None /\ leg.route # NoRoute
  /\ GenericRouteIsValid(leg.route)
  /\ leg.route.type = "links" => NetworkRouteIsValid(leg.route, leg.mode)

\* A trip on the network has an access leg, a leg in its mode and an egress leg,
\* with interactions between them.
HasAccessAndEgress(trip, legs, mode) ==
  /\ legs[1].mode = AccessEgressMode /\ legs[Len(legs)].mode = AccessEgressMode
  /\ \E i \in DOMAIN legs : legs[i].mode = mode /\ legs[i].route.type = "links"
  /\ Cardinality({i \in DOMAIN trip : trip[i].kind = "act" /\ ~trip[i].main}) >= 2

\* trip_is_valid
TripIsValid(trip, legs, mode) ==
  /\ \A i \in DOMAIN legs : LegIsValid(legs[i], mode)
  /\ IsNetworkMode(mode) => HasAccessAndEgress(trip, legs, mode)

\* vehicle_for_trip: the vehicle of a leg in this mode, or the person's default one.
VehicleForTrip(person, legs, mode, garage) ==
  LET own == {i \in DOMAIN legs : /\ legs[i].mode = mode /\ legs[i].route.type = "links"
                                  /\ legs[i].route.veh \in garage}
      first == CHOOSE i \in own : \A k \in own : i <= k
  IN CASE ~IsNetworkMode(mode) -> [ok |-> TRUE, veh |-> NoVehicle]
       [] IsNetworkMode(mode) /\ own # {} -> [ok |-> TRUE, veh |-> legs[first].route.veh]
       [] OTHER -> IF DefaultVehicle(person, mode) \in garage
                     THEN [ok |-> TRUE, veh |-> DefaultVehicle(person, mode)]
                     ELSE Failed("MissingVehicle")

\* The departure follows from everything up to the origin, trips adapted before included.
DepartureTime(elements, span) == ElementsEndTime(SubSeq(elements, 1, span.origin), 0)

FacilityOf(act) == Facility(act.coord, act.link)

\* replace_trip_elements, if the router has found a way.
Replaced(elements, span, result) ==
  IF result.ok THEN Routed(ReplaceTripElements(elements, span, result.elements)) ELSE result

\* The trip needs routing.
RouteTrip(elements, span, mode, departure, vehicle) ==
  CASE departure = None -> Failed("MissingDepartureTime")
    [] departure # None /\ ~vehicle.ok -> vehicle
    [] OTHER -> Replaced(elements, span,
                  CalcRoute(mode, [from |-> FacilityOf(elements[span.origin]),
                                   to |-> FacilityOf(elements[span.destination]),
                                   dep |-> departure, veh |-> vehicle.veh]))

\* assess_trip: the mode of the trip, and whether it can stay.
AssessTrip(person, elements, span, legs, main, garage) ==
  CASE ~main.ok -> main
    [] main.ok /\ TripIsValid(TripElements(elements, span), legs, main.mode) -> Routed(elements)
    [] OTHER -> RouteTrip(elements, span, main.mode, DepartureTime(elements, span),
                          VehicleForTrip(person, legs, main.mode, garage))

\* check_and_adapt_trip, for the k-th trip.
CheckAndAdaptTrip(person, elements, k, garage) ==
  LET span == SpanAt(elements, k)
      legs == LegsOf(TripElements(elements, span))
  IN AssessTrip(person, elements, span, legs, ResolveMainMode(legs), garage)

\* prepare_plan: the first failure ends it, and the clone is dropped.
PlanOutcome(plan, done) ==
  IF done.ok THEN [ok |-> TRUE, plan |-> [plan EXCEPT !.elements = done.elements]] ELSE done

PreparePlan(person, plan, garage) ==
  LET given == AssignCoordinates(plan.elements)
      trips == Cardinality(Trips(given))
      adapted[k \in 0..trips] ==
        IF k = 0 THEN Routed(given)
        ELSE IF adapted[k - 1].ok THEN CheckAndAdaptTrip(person, adapted[k - 1].elements, k, garage)
        ELSE adapted[k - 1]
  IN PlanOutcome(plan, adapted[trips])

\* prepare_person: the plans afterwards, and the issues by plan.
ReplacePlans(id, person, outcomes) ==
  [person |-> [person EXCEPT !.plans =
                 [i \in DOMAIN @ |-> IF outcomes[i].ok THEN outcomes[i].plan ELSE @[i]]],
   issues |-> {[person |-> id, plan |-> i, why |-> outcomes[i].why] :
                 i \in {k \in DOMAIN outcomes : ~outcomes[k].ok}}]

PreparePerson(id, person, garage) ==
  ReplacePlans(id, person,
    [i \in DOMAIN person.plans |-> PreparePlan(id, person.plans[i], garage)])
=============================================================================
