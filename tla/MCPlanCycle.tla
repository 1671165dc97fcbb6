---------------------------- MODULE MCPlanCycle ----------------------------
(* A ring of three car links with a link for walking only.  Coordinates are    *)
(* x + 100 * z, points on a line and above it; link l lies from 10 * l to       *)
(* 10 * l + 4 at height zero.                                                   *)
EXTENDS PlanCycle

NetworkLinks ==
  <<[from |-> "a", to |-> "b", length |-> 4, modes |-> {"car"}],
    [from |-> "b", to |-> "c", length |-> 3, modes |-> {"car", "bike"}],
    [from |-> "c", to |-> "a", length |-> 5, modes |-> {"car"}],
    [from |-> "c", to |-> "d", length |-> 2, modes |-> {"walk"}]>>

\* The least cost path from the end of one link to the start of another.
Path(found, path, time) == [found |-> found, path |-> path, time |-> time]
PathTable ==
  [k \in {<<from, to, mode>> : from \in 1..4, to \in 1..4, mode \in {"car"}} |->
     CASE k[1] = 4 -> Path(FALSE, <<>>, 0)
       [] k[1] # 4 /\ k[2] = 4 -> (CASE k[1] = 1 -> Path(TRUE, <<2>>, 3)
                                    [] k[1] = 2 -> Path(TRUE, <<>>, 0)
                                    [] k[1] = 3 -> Path(TRUE, <<1, 2>>, 7))
       [] k[1] # 4 /\ k[2] # 4 -> IF k[2] = (k[1] % 3) + 1 THEN Path(TRUE, <<>>, 0)
                                  ELSE LET next == (k[1] % 3) + 1 IN
                                         Path(TRUE, <<next>>, NetworkLinks[next].length)]
OnAndAboveTheLine == (0..50) \cup (100..150)
MCAtGround(c) == c % 100
Apart(x, y) == IF x < y THEN y - x ELSE x - y
MCDistance(c, d) == Apart(c % 100, d % 100) + Apart(c \div 100, d \div 100)
MCNearestPoint(c, l) ==
  LET x == c % 100 IN IF x < 10 * l THEN 10 * l ELSE IF x > 10 * l + 4 THEN 10 * l + 4 ELSE x
MCMiddle(l) == 10 * l + 2
OfWalk == [m \in {"walk"} |-> 2]
Weights == [person |-> <<[name |-> "KeepLastSelected", weight |-> 1], [name |-> "ReRoute", weight |-> 1],
                         [name |-> "BestScore", weight |-> 1]>>,
            freight |-> <<[name |-> "SelectRandom", weight |-> 2], [name |-> "ReRoute", weight |-> 0]>>]

Act(name, link, coord, end, dur) ==
  [kind |-> "act", name |-> name, main |-> TRUE, link |-> link, coord |-> coord, end |-> end,
   dur |-> dur, horizon |-> None]
BareLeg(mode, rmode) ==
  [kind |-> "leg", mode |-> mode, rmode |-> rmode, attr |-> rmode, dep |-> None, trav |-> None,
   route |-> NoRoute]
Plan(elements, score, selected) == [elements |-> elements, score |-> score, selected |-> selected]

\* To the neighbouring link and back, with legs that have no route.
Commute(coord, mode, rmode) ==
  <<Act("home", 1, coord, 8, None), BareLeg(mode, rmode), Act("work", 2, None, None, 9),
    BareLeg(mode, rmode), Act("home", 1, coord, None, None)>>
\* All on one link, then to a link cars cannot use.  The first leg has a travel time.
ToTheWalk ==
  <<Act("home", 2, 21, None, 3), [BareLeg("car", "car") EXCEPT !.trav = 6], Act("shop", 2, 24, None, 2),
    BareLeg("car", "none"), Act("park", 4, 41, None, None)>>
\* Routed by some other program, with the vehicle "v" and another way than the least cost path.
Given ==
  LET walk(link, dist) == [NewLeg(GenericRoute(link, link, dist, dist, NoVehicle), "walk", dist, 5)
                             EXCEPT !.rmode = "car", !.attr = "car"]
      drive == [NewLeg(NetworkRoute(GenericRoute(1, 2, 9, 15, <<"v">>), <<1, 2, 3, 1, 2>>), "car", 9, 6)
                  EXCEPT !.attr = "car"]
  IN <<Act("home", 1, 13, 7, None), walk(1, 1), InteractionActivity("car", 13, 1), drive,
       InteractionActivity("car", 20, 2), walk(2, 2), Act("work", 2, 22, None, 5),
       BareLeg("walk", "walk"), Act("home", 1, 13, None, None)>>
\* The distance of the first walk is not a number: the trip is routed anew.
NoNumber == [Given EXCEPT ![2].route.dist = -3]
\* A leg by public transport, as it is in the file, and on foot from the stop.
ByBus ==
  LET bus == [NewLeg(PtRoute(GenericRoute(1, 2, 4, 9, <<"bus">>), <<"line", "route", "stop">>), "pt", 4, None)
                EXCEPT !.attr = "pt"]
      walk == [NewLeg(GenericRoute(2, 2, 1, 1, NoVehicle), "walk", 1, None) EXCEPT !.rmode = "pt", !.attr = "pt"]
  IN <<Act("home", 1, 12, 3, None), bus, InteractionActivity("pt", 21, 2), walk, Act("work", 2, None, None, None)>>
\* The way back cannot be routed, its time is not known, its mode is ambiguous.
Bad ==
  {<<Act("park", 4, 41, 5, None), BareLeg("car", "car"), Act("home", 1, 12, None, None)>>,
   <<Act("home", 1, 12, None, None), BareLeg("walk", "walk"), Act("work", 2, 22, None, None)>>,
   <<Act("home", 1, 12, 5, None), BareLeg("walk", "walk"), InteractionActivity("walk", 15, 1),
     BareLeg("car", "car"), Act("work", 2, 22, None, None)>>}

Person(plans, sub) == [plans |-> plans, sub |-> sub, attrs |-> [subpopulation |-> sub]]
Seconds == {Commute(None, "walk", "none"), Given, NoNumber, ByBus}
Thirds == {Commute(None, "car", "car"), ToTheWalk}
FirstPersons ==
  {Person(<<Plan(Commute(12, "car", "none"), s[1], s[4] = 1), Plan(second, s[2], s[4] = 2),
            Plan(third, s[3], s[4] = 3)>>, "person") :
     second \in Seconds, third \in Thirds,
     s \in {<<10, NoScore, 5, 1>>, <<5, 7, 5, 2>>, <<NoScore, 3, 9, 1>>, <<2, NoScore, NoScore, 3>>}}
SecondPersons ==
  {Person(<<Plan(Given, NoScore, TRUE)>>, "freight"),
   Person(<<Plan(Given, 4, TRUE), Plan(ToTheWalk, 2, FALSE), Plan(Commute(11, "car", "car"), 3, FALSE),
            Plan(Commute(None, "car", "car"), 2, FALSE)>>, "freight")}
  \cup {Person(<<Plan(ToTheWalk, 1, TRUE), Plan(bad, 2, FALSE)>>, "person") : bad \in Bad}
\* The network as XML, with what attributes nodes and links have in a file: none, or
\* parts; in parts 0 and 1, or with a link in part 2.
NetworkFile(parts) ==
  [format |-> "xml", cell |-> None,
   nodes |-> {[id |-> n, partition |-> IF parts = <<>> THEN None ELSE 0, weight |-> None] : n \in {"a", "b", "c", "d"}},
   links |-> {[id |-> l, from |-> Net[l].from, to |-> Net[l].to, length |-> Net[l].length, modes |-> Net[l].modes,
               partition |-> IF parts = <<>> THEN None ELSE parts[l]] : l \in 1..Len(Net)}]
Bare == NetworkFile(<<>>)
\* A link between nodes of which one is missing, and two links of one id.
Broken == {[Bare EXCEPT !.nodes = {n \in @ : n.id # "d"}],
           [Bare EXCEPT !.links = @ \cup {[(CHOOSE l \in @ : l.id = 2) EXCEPT !.length = 9]}]}
Parts == [n \in {"a", "b", "c", "d"} |-> IF n \in {"a", "b"} THEN 0 ELSE 1]

VehiclesFile(types, vehicles) ==
  [format |-> "xml", types |-> {[id |-> t, maxV |-> None, mode |-> Absent] : t \in types},
   vehicles |-> {[id |-> v, type |-> "car"] : v \in vehicles}]
Cars == VehiclesFile({"car"}, {<<"v">>, <<"p", "car">>})
InProto(file) == GarageToProto(GarageFromXml(file))

Files(net, vehicles, plans) == [network |-> net, vehicles |-> vehicles, plans |-> plans]
In(fs, tool, method, output) == [files |-> fs, tool |-> tool, method |-> method, output |-> output]
XmlPlans(p, q) == WritePopulation("xml", "p" :> p @@ "q" :> q)

XmlInputs ==
  {In(Files(Bare, Cars, XmlPlans(p, q)), "none", "metis", IF q.sub = "person" THEN "xml" ELSE out) :
     p \in FirstPersons, q \in SecondPersons, out \in {"xml", "binpb"}}
\* With and without all coordinates, with and without a car, on the ground and above it.
AboveGround == <<Act("home", 1, 112, 8, None), BareLeg("car", "none"), Act("work", 2, 124, None, None)>>
ProtoPlans ==
  {WritePopulation("binpb", id :> Person(<<Plan(Given, 2, TRUE), Plan(e, 1, FALSE)>>, "freight")) :
     id \in {"p", "q"}, e \in {ToTheWalk, Commute(12, "walk", "walk"), AboveGround}}
\* A node without links lies above the others.
WithHill(file) == [file EXCEPT !.nodes = @ \cup {[id |-> "e", z |-> 7, partition |-> 0, weight |-> 1]}]
ProtoInputs ==
  {In(Files(WithHill(NetworkToProto(NetworkFromXml(NetworkFile(parts)))), InProto(Cars), plans), tool, "none", out) :
     parts \in {<<1, 0, 0, 1>>}, plans \in ProtoPlans, tool \in {"none", "convert_to_xml"},
     out \in {"xml", "binpb"}}
\* Files that are converted, or refused.
Someone(selected) == Person(<<Plan(Given, 3, selected), Plan(ToTheWalk, 5, FALSE)>>, "freight")
OtherInputs ==
  {In(Files(net, vehicles, XmlPlans(Someone(selected), Person(<<Plan(Given, 4, TRUE)>>, "person"))),
      tool, method, "binpb") :
     net \in {Bare, NetworkFile(<<1, 0, 0, 2>>), NetworkFile(<<2, 0, 1, 1>>)} \cup Broken,
     vehicles \in {Cars, VehiclesFile({"bike"}, {<<"v">>})}, selected \in BOOLEAN,
     tool \in {"none", "convert_to_binary"}, method \in {"none", "metis"}}
\* Plans in which a link is missing, or a type of route is not known.
Unreadable == {Commute(12, "car", "car") \o <<BareLeg("car", "car"), Act("work", None, None, None, None)>>,
               [Given EXCEPT ![4].route.type = "ferry"]}
UnreadableInputs ==
  {In(Files(Bare, Cars, XmlPlans(Someone(TRUE), Person(<<Plan(e, 4, TRUE)>>, "person"))), tool, "metis", "xml") :
     e \in Unreadable, tool \in {"none", "convert_to_binary"}}
AllInputs == XmlInputs \cup ProtoInputs \cup OtherInputs \cup UnreadableInputs
=============================================================================
