--------------------------- MODULE ScenarioFiles ---------------------------
(***************************************************************************)
(* The network and the vehicles of a scenario, the files they are read     *)
(* from and written to, and the two tools that convert a scenario from XML *)
(* to protocol buffers and back.  A file is a set of elements, each with   *)
(* its id: two elements may have the same one.  Lists of links are sets:   *)
(* nothing here depends on their order.                                    *)
(***************************************************************************)
EXTENDS PopulationFile, Replanning, FiniteSetsExt, TLC

CONSTANTS NumParts,           \* partitioning.num_parts
          MetisPartition,     \* the part Metis finds for a node
          DefaultCellSize, DefaultMaxV, DefaultNetMode

\* part_kway numbers the parts from 0.
ASSUME PartitionAssumption ==
  /\ NumParts \in Nat \ {0}
  /\ \A n \in DOMAIN MetisPartition : MetisPartition[n] \in 0..NumParts - 1

OrElse(option, default) == IF option = None THEN default ELSE option

UniqueIds(elements) == \A e, f \in elements : e.id = f.id => e = f
ById(elements) == [id \in {e.id : e \in elements} |-> CHOOSE e \in elements : e.id = id]

-----------------------------------------------------------------------------
(* The network.  Capacity, free speed and lanes go the way of the length.    *)

\* add_link wires a link to the nodes it lies between.
Wired(nodes, links) ==
  [id \in DOMAIN nodes |->
     [z |-> nodes[id].z, partition |-> nodes[id].partition, weight |-> nodes[id].weight,
      in |-> {l \in DOMAIN links : links[l].to = id},
      out |-> {l \in DOMAIN links : links[l].from = id}]]

NetworkOf(nodes, links, cell) == [nodes |-> Wired(nodes, links), links |-> links, cell |-> cell]

\* add_node and add_link refuse an id that is there and a node that is not.
NetworkReadable(file) ==
  /\ UniqueIds(file.nodes) /\ UniqueIds(file.links)
  /\ \A l \in file.links : {l.from, l.to} \subseteq {n.id : n \in file.nodes}

\* add_io_node: a node in XML has no height, and may lack its attributes.
NodeFromXml(io) ==
  [z |-> 0, partition |-> OrElse(io.partition, 0), weight |-> OrElse(io.weight, 1)]

\* add_io_link
LinkFromXml(io) ==
  [from |-> io.from, to |-> io.to, length |-> io.length, modes |-> io.modes,
   partition |-> OrElse(io.partition, 0)]

CellSize(file) == OrElse(file.cell, DefaultCellSize)

NetworkFromXml(file) ==
  LET nodes == ById(file.nodes)
      links == ById(file.links)
  IN NetworkOf([id \in DOMAIN nodes |-> NodeFromXml(nodes[id])],
               [id \in DOMAIN links |-> LinkFromXml(links[id])], CellSize(file))

NodeToXml(id, node) == [id |-> id, partition |-> node.partition, weight |-> node.weight]

\* The same fields in both formats.
LinkToFile(id, link) ==
  [id |-> id, from |-> link.from, to |-> link.to, length |-> link.length, modes |-> link.modes,
   partition |-> link.partition]

LinksToFile(network) == {LinkToFile(id, network.links[id]) : id \in DOMAIN network.links}

\* The cell size is written along with each link.
NetworkToXml(network) ==
  [format |-> "xml", nodes |-> {NodeToXml(id, network.nodes[id]) : id \in DOMAIN network.nodes},
   links |-> LinksToFile(network),
   cell |-> IF DOMAIN network.links = {} THEN DefaultCellSize ELSE network.cell]

NodeToProto(id, node) ==
  [id |-> id, z |-> node.z, partition |-> node.partition, weight |-> node.weight]

NetworkToProto(network) ==
  [format |-> "binpb", nodes |-> {NodeToProto(id, network.nodes[id]) : id \in DOMAIN network.nodes},
   links |-> LinksToFile(network), cell |-> network.cell]

LinkFromProto(io) ==
  [from |-> io.from, to |-> io.to, length |-> io.length, modes |-> io.modes, partition |-> io.partition]

NetworkFromProto(file) ==
  LET links == ById(file.links) IN
    NetworkOf(ById(file.nodes), [id \in DOMAIN links |-> LinkFromProto(links[id])], file.cell)

NetworkFromFile(file) == IF file.format = "xml" THEN NetworkFromXml(file) ELSE NetworkFromProto(file)
NetworkToFile(format, network) ==
  IF format = "xml" THEN NetworkToXml(network) ELSE NetworkToProto(network)

\* metis_partitioning::partition
Metis(network) ==
  [n \in DOMAIN network.nodes |-> IF NumParts <= 1 THEN 0 ELSE MetisPartition[n]]

\* A link belongs to the part of the node it leads to.
PartitionNetwork(network, method) ==
  LET part == Metis(network) IN
    IF method = "none" THEN network
    ELSE [network EXCEPT
            !.nodes = [n \in DOMAIN @ |-> [network.nodes[n] EXCEPT !.partition = part[n]]],
            !.links = [l \in DOMAIN @ |-> [network.links[l] EXCEPT !.partition = part[network.links[l].to]]]]

-----------------------------------------------------------------------------
(* The vehicles.                                                             *)

\* The defaults of the elements of a vehicle type.
MaxV(io) == OrElse(io.maxV, DefaultMaxV)
NetMode(io) == IF io.mode = Absent THEN DefaultNetMode ELSE io.mode

\* add_io_veh_type; width, length, equivalents and efficiency go the way of the maximum speed.
TypeFromXml(io) == [maxV |-> MaxV(io), mode |-> NetMode(io)]

NewVehicle(types, type) == [type |-> type, maxV |-> types[type].maxV]

\* add_veh_type asserts that a type is new, add_io_veh expects that of a vehicle.
VehiclesReadable(file) ==
  file.format = "xml" =>
    /\ UniqueIds(file.types)
    /\ \A v \in file.vehicles : v.type \in {t.id : t \in file.types}

GarageFromXml(file) ==
  LET io == ById(file.types)
      types == [id \in DOMAIN io |-> TypeFromXml(io[id])]
      vehicles == ById(file.vehicles)
  IN [types |-> types, vehicles |-> [id \in DOMAIN vehicles |-> NewVehicle(types, vehicles[id].type)]]

\* Only the types are written.
GarageToXml(garage) ==
  [format |-> "xml", vehicles |-> {},
   types |-> {[id |-> t, maxV |-> garage.types[t].maxV, mode |-> garage.types[t].mode] :
                t \in DOMAIN garage.types}]

GarageToProto(garage) == [format |-> "binpb", types |-> garage.types, vehicles |-> garage.vehicles]

GarageFromProto(file) == [types |-> file.types, vehicles |-> file.vehicles]

GarageFromFile(file) == IF file.format = "xml" THEN GarageFromXml(file) ELSE GarageFromProto(file)

\* add_veh_by_type for every person and type: the vehicle replaces one with its id.
AddDefaultVehicles(garage, persons) ==
  [garage EXCEPT !.vehicles =
     [id \in VehiclesFromXml(persons, DOMAIN garage.types) |-> NewVehicle(garage.types, id[2])] @@ @]

-----------------------------------------------------------------------------
(* The plans as they come from a user's file.                                *)

IsActivity(e) ==
  /\ e.kind = "act"
  /\ e = [kind |-> "act", name |-> e.name, main |-> e.main, link |-> e.link, coord |-> e.coord,
          end |-> e.end, dur |-> e.dur, horizon |-> e.horizon]
  /\ e.main \in BOOLEAN /\ e.link \in DOMAIN Net /\ e.coord \in Coords \cup {None}
IsLeg(e) ==
  /\ e.kind = "leg"
  /\ e = [kind |-> "leg", mode |-> e.mode, rmode |-> e.rmode, attr |-> e.attr, dep |-> e.dep,
          trav |-> e.trav, route |-> e.route]

IsList(s) == s \in Seq(Range(s))
IsElement(e) == IsActivity(e) \/ IsLeg(e)
AreElements(elements) == IsList(elements) /\ \A e \in Range(elements) : IsElement(e)

\* An activity in an XML file may be without a link.
LacksLink(e) == e.kind = "act" /\ e.link = None

\* The elements of a plan in a file of the one format and the other.
PlanInFile(format, plan) ==
  /\ plan.selected \in BOOLEAN /\ plan.score \in Int \cup {NoScore}
  /\ format = "xml" =>
       /\ plan = [elements |-> plan.elements, score |-> plan.score, selected |-> plan.selected]
       /\ IsList(plan.elements) /\ \A e \in Range(plan.elements) : IsElement(e) \/ LacksLink(e)
  /\ format = "binpb" =>
       /\ IsList(plan.acts) /\ \A e \in Range(plan.acts) : IsActivity(e)
       /\ IsList(plan.legs) /\ \A e \in Range(plan.legs) : IsLeg(e)

PlansInFile(file) ==
  /\ file.format \in {"xml", "binpb"}
  /\ \A p \in DOMAIN file.persons :
       LET plans == file.persons[p].plans IN
         IsList(plans) /\ \A plan \in Range(plans) : PlanInFile(file.format, plan)

-----------------------------------------------------------------------------
(* The scenario.                                                             *)

ReadPopulation(file) == [p \in DOMAIN file.persons |-> FromFile(file.format, file.persons[p], p)]
WritePopulation(format, population) ==
  [format |-> format, persons |-> [p \in DOMAIN population |-> ToFile(format, population[p])]]

ScenarioReadable(files) ==
  /\ NetworkReadable(files.network) /\ VehiclesReadable(files.vehicles)
  /\ \A p \in DOMAIN files.plans.persons : Readable(files.plans.format, files.plans.persons[p])

\* Reading the plans from XML adds vehicles.
GarageWithPlans(vehicles, plans) ==
  LET garage == GarageFromFile(vehicles) IN
    IF plans.format = "xml" THEN AddDefaultVehicles(garage, DOMAIN plans.persons) ELSE garage

\* Scenario::load
LoadScenario(files, method) ==
  [network |-> PartitionNetwork(NetworkFromFile(files.network), method),
   garage |-> GarageWithPlans(files.vehicles, files.plans),
   population |-> ReadPopulation(files.plans)]

-----------------------------------------------------------------------------
(* The tools.                                                                *)

\* selected_plan, of which convert_to_binary unwraps one for every person.
SelectedElements(person) == person.plans[Min(SelectedIn(person.plans))].elements

\* The links of the network routes of the selected plan, one after the other.
LinksUsed(person) ==
  LET elements == SelectedElements(person) IN
    FlattenSeq([k \in DOMAIN elements |->
                  IF elements[k].kind = "leg" /\ elements[k].route.type = "links"
                    THEN elements[k].route.links ELSE <<>>])

\* How often the selected plans use a link.
ComputationalWeights(population) ==
  LET used == [p \in DOMAIN population |-> LinksUsed(population[p])] IN
    [l \in UNION {Range(used[p]) : p \in DOMAIN used} |->
       MapThenSumSet(LAMBDA p : Cardinality({i \in DOMAIN used[p] : used[p][i] = l}), DOMAIN used)]

\* The links are visited in no particular order, and the last one before a node decides
\* on its weight: they do not add up.
WeightedNetworks(network, weights) ==
  LET used(n) == network.nodes[n].in \cap DOMAIN weights IN
    {[network EXCEPT !.nodes =
        [n \in DOMAIN @ |-> [network.nodes[n] EXCEPT !.weight = IF n \in DOMAIN last THEN weights[last[n]] ELSE @]]] :
       last \in {f \in [{n \in DOMAIN network.nodes : used(n) # {}} -> DOMAIN weights] :
                   \A n \in DOMAIN f : f[n] \in used(n)}}

\* A person without a selected plan, or a route over a link that is not in the network,
\* ends the conversion.
CanWeigh(scenario) ==
  /\ \A p \in DOMAIN scenario.population : SelectedIn(scenario.population[p].plans) # {}
  /\ DOMAIN ComputationalWeights(scenario.population) \subseteq DOMAIN scenario.network.links

\* convert_to_binary
ConvertToBinary(files) ==
  LET scenario == LoadScenario(files, "none") IN
    IF ~ScenarioReadable(files) \/ ~CanWeigh(scenario) THEN {}
    ELSE {[network |-> NetworkToProto(network), vehicles |-> GarageToProto(scenario.garage),
           plans |-> WritePopulation("binpb", scenario.population)] :
            network \in WeightedNetworks(scenario.network, ComputationalWeights(scenario.population))}

\* convert_to_xml
ConvertToXml(files) ==
  LET scenario == LoadScenario(files, "none") IN
    IF ~ScenarioReadable(files) THEN {}
    ELSE {[network |-> NetworkToXml(scenario.network),
           vehicles |-> GarageToXml(GarageFromFile(files.vehicles)),
           plans |-> WritePopulation("xml", scenario.population)]}

Conversions(tool, files) ==
  CASE tool = "convert_to_binary" -> ConvertToBinary(files)
    [] tool = "convert_to_xml" -> ConvertToXml(files)
=============================================================================
