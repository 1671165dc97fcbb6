------------------------------ MODULE PlanCycle ------------------------------
(***************************************************************************)
(* The life of the plans in one run of the controller: a tool converts the *)
(* files of the scenario, maybe; they are read, and in every iteration the *)
(* population is prepared, simulated, scored, written and replanned.       *)
(* Preparation and replanning go through the persons in parallel (rayon),  *)
(* in any order.  The mobsim itself is the subject of MobsimPool: to it    *)
(* the plans are an input, agents that do not replan on the way give them  *)
(* back as they were.  A panic of the controller ends the run.             *)
(***************************************************************************)
EXTENDS ScenarioFiles

CONSTANTS FirstIteration, LastIteration, WritePlansInterval,
          FractionToDisableInnovation,   \* in percent
          Inputs   \* the files, the tool used on them, the partition method and the output format

\* Controller::run asserts this before anything else.
ValidIterations == FirstIteration <= LastIteration /\ WritePlansInterval > 0

ASSUME PlanCycleAssumption ==
  /\ {FirstIteration, LastIteration, WritePlansInterval, FractionToDisableInnovation} \subseteq Nat
  /\ ValidIterations
  /\ \A in \in Inputs : /\ PlansInFile(in.files.plans)
                       /\ in.tool \in {"none", "convert_to_binary", "convert_to_xml"}

VARIABLES input,       \* what the user has prepared
          files,       \* network, vehicles and plans, as the run finds them
          phase,       \* of the controller
          iteration,
          population,  \* person -> InternalPerson
          todo,        \* persons the parallel iterator has not come to
          issues,      \* of the preparation
          network, garage,
          written,     \* plans files, by iteration and as the output of the run
          outputNetwork
vars == <<input, files, phase, iteration, population, todo, issues, network, garage, written,
          outputNetwork>>
core == <<network, garage>>   \* ScenarioCore: behind Arcs, it does not change

Persons == DOMAIN population
OutputPlans == LastIteration + 1   \* output_plans; the others are ITERS/it.<iteration>

NoFile == <<>>

Init ==
  /\ input \in Inputs
  /\ files = input.files
  /\ phase = IF input.tool = "none" THEN "read" ELSE "convert"
  /\ iteration = FirstIteration
  /\ population = <<>> /\ todo = {} /\ issues = {} /\ written = <<>>
  /\ network = NoFile /\ garage = NoFile /\ outputNetwork = NoFile

\* A tool that panics writes nothing.
Convert ==
  /\ phase = "convert"
  /\ IF Conversions(input.tool, files) = {} THEN phase' = "notConverted" /\ UNCHANGED files
     ELSE files' \in Conversions(input.tool, files) /\ phase' = "read"
  /\ UNCHANGED <<input, iteration, population, todo, issues, core, written, outputNetwork>>

Read ==
  /\ phase = "read"
  /\ IF ScenarioReadable(files)
       THEN LET scenario == LoadScenario(files, input.method) IN
              /\ population' = scenario.population /\ todo' = DOMAIN scenario.population
              /\ network' = scenario.network /\ garage' = scenario.garage
              /\ phase' = "prepare"
       ELSE phase' = "unreadable" /\ UNCHANGED <<population, core, todo>>
  /\ UNCHANGED <<input, files, iteration, issues, written, outputNetwork>>

Vehicles == DOMAIN garage.vehicles

Prepare(p) ==
  /\ phase = "prepare" /\ p \in todo
  /\ LET result == PreparePerson(p, population[p], Vehicles) IN
       /\ population' = [population EXCEPT ![p] = result.person]
       /\ issues' = issues \cup result.issues
  /\ todo' = todo \ {p}
  /\ UNCHANGED <<input, files, phase, iteration, core, written, outputNetwork>>

\* prepare_for_sim returns: the controller unwraps the result.
EndPrepare ==
  /\ phase = "prepare" /\ todo = {}
  /\ phase' = IF issues = {} THEN "mobsim" ELSE "notPrepared"
  /\ UNCHANGED <<input, files, iteration, population, todo, issues, core, written, outputNetwork>>

\* split_by_start_link_partition: the part of the link where the selected plan begins.
CanSplit(person) ==
  /\ SelectedIn(person.plans) # {}
  /\ LET elements == SelectedElements(person) IN
       /\ elements # <<>> /\ elements[1].kind = "act"
       /\ network.links[elements[1].link].partition < NumParts

\* unpark_veh panics if the vehicle of a leg is not there; the agent may come to that
\* leg, or the end of the day may come first.
LacksVehicle(person) ==
  LET elements == SelectedElements(person) IN
    \E k \in DOMAIN elements :
      elements[k].kind = "leg" /\ elements[k].mode \in MainModes /\ elements[k].route.veh \notin Vehicles

IsLastIteration == iteration = LastIteration
ShouldWriteIterationPlans ==
  IsLastIteration \/ (iteration # 0 /\ iteration % WritePlansInterval = 0)

PlansFile == WritePopulation(input.output, population)

\* The mobsim phase, the scoring phase (which only sends its event), and the
\* writing of the iteration's plans.
Simulate ==
  /\ phase = "mobsim"
  /\ \A p \in Persons : CanSplit(population[p])
  /\ phase' = IF IsLastIteration THEN "output" ELSE "replan"
  /\ todo' = IF IsLastIteration THEN {} ELSE Persons
  /\ written' = IF ShouldWriteIterationPlans THEN written @@ (iteration :> PlansFile) ELSE written
  /\ UNCHANGED <<input, files, iteration, population, issues, core, outputNetwork>>

MobsimPanics ==
  /\ phase = "mobsim"
  /\ \/ (\E p \in Persons : ~CanSplit(population[p])) /\ phase' = "notSplit"
     \/ /\ \A p \in Persons : CanSplit(population[p])
        /\ (\E p \in Persons : LacksVehicle(population[p])) /\ phase' = "noVehicle"
  /\ UNCHANGED <<input, files, iteration, population, todo, issues, core, written, outputNetwork>>

\* saturating_sub on both sides, and nothing is innovative in a single iteration.
InnovationDisabled(it) ==
  LET total == LastIteration - FirstIteration IN
    total = 0 \/ 100 * (it - FirstIteration) >= FractionToDisableInnovation * total

Replan(p) ==
  /\ phase = "replan" /\ p \in todo
  /\ \E result \in ReplanResults(population[p].sub, population[p].plans, InnovationDisabled(iteration)) :
       /\ population' = [population EXCEPT ![p].plans = result.plans]
       /\ phase' = IF result.panics THEN "notReplanned" ELSE phase
  /\ todo' = todo \ {p}
  /\ UNCHANGED <<input, files, iteration, issues, core, written, outputNetwork>>

NextIteration ==
  /\ phase = "replan" /\ todo = {}
  /\ iteration' = iteration + 1
  /\ phase' = "prepare" /\ todo' = Persons
  /\ UNCHANGED <<input, files, population, issues, core, written, outputNetwork>>

\* The end of Controller::run.
WriteOutput ==
  /\ phase = "output"
  /\ outputNetwork' = NetworkToFile(input.output, network)
  /\ written' = written @@ (OutputPlans :> PlansFile)
  /\ phase' = "done"
  /\ UNCHANGED <<input, files, iteration, population, todo, issues, core>>

\* The run is over, or the controller has panicked.
Ended == phase \in {"done", "notConverted", "unreadable", "notPrepared", "notSplit", "noVehicle", "notReplanned"}
Terminated == Ended /\ UNCHANGED vars

Next ==
  \/ Convert \/ Read \/ EndPrepare \/ Simulate \/ MobsimPanics \/ NextIteration \/ WriteOutput \/ Terminated
  \/ \E p \in Persons : Prepare(p) \/ Replan(p)

Spec == Init /\ [][Next]_vars

-----------------------------------------------------------------------------
(* Properties.                                                              *)

\* The vehicles there are if the user's files are read as they are.
VehiclesGiven == DOMAIN GarageWithPlans(input.files.vehicles, input.files.plans).vehicles

\* What can stop a run: files that cannot be converted, read or prepared; in the first
\* mobsim, a person without a selected plan or who starts in a part there is no worker
\* for, in a network that is not partitioned anew; a ReRoute, which is not implemented,
\* drawn before the iteration from which innovation is disabled; and vehicles, which a
\* conversion to XML does not keep.  A scenario that was accepted once is accepted by
\* every later preparation, split and selector.
AcceptedRunsComplete ==
  /\ phase \in {"notConverted", "unreadable", "notPrepared", "notSplit"} =>
       iteration = FirstIteration /\ written = <<>>
  /\ phase = "notSplit" =>
       \/ \E p \in Persons : SelectedIn(population[p].plans) = {}
       \/ input.method = "none" /\ \E l \in input.files.network.links : l.partition >= NumParts
  /\ phase = "notReplanned" =>
       100 * (iteration - FirstIteration) < FractionToDisableInnovation * (LastIteration - FirstIteration)
  /\ phase = "noVehicle" => input.tool = "convert_to_xml" /\ ~(VehiclesGiven \subseteq Vehicles)

\* Preparation is needed once: what replanning leaves behind is not changed by the
\* preparation of a later iteration, neither in its routes nor in its times.
PreparedStaysPrepared ==
  [][phase = "prepare" /\ iteration > FirstIteration => population' = population]_vars

MainActivities(elements) ==
  LET chosen[i \in 0..Len(elements)] ==
        IF i = 0 THEN <<>>
        ELSE IF IsMain(elements[i]) THEN Append(chosen[i - 1], elements[i]) ELSE chosen[i - 1]
  IN chosen[Len(elements)]
\* Activities as they are after they have been in a file.
ActivityInFile(format, act) == IF format = "xml" THEN ActivityInXml(act) ELSE act
InFile(format, elements) ==
  [k \in DOMAIN elements |->
     IF elements[k].kind = "act" THEN ActivityInFile(format, elements[k]) ELSE elements[k]]
\* The plans of the user's file, which a conversion to XML puts at height zero.
InputPlans(p) ==
  LET plans == FromFile(input.files.plans.format, input.files.plans.persons[p], p).plans
      format == IF input.tool = "convert_to_xml" THEN "xml" ELSE "binpb"
  IN {[plans[i] EXCEPT !.elements = InFile(format, @)] : i \in DOMAIN plans}

\* The legs of a trip lead from its origin to its destination, link by link.
TripConnects(elements, span) ==
  LET legs == LegsOf(TripElements(elements, span)) IN
    /\ legs[1].route.start = elements[span.origin].link
    /\ legs[Len(legs)].route.end = elements[span.destination].link
    /\ \A i \in 1..Len(legs) - 1 : legs[i].route.end = legs[i + 1].route.start
    /\ \A i \in DOMAIN legs : legs[i].mode \in MainModes =>
         /\ legs[i].route.links[1] = legs[i].route.start
         /\ legs[i].route.links[Len(legs[i].route.links)] = legs[i].route.end
         /\ legs[i].route.veh \in Vehicles \cup (IF input.tool = "convert_to_xml" THEN VehiclesGiven ELSE {})

\* The network in memory is the one the routes were made for, and every part of it is
\* closed: a link belongs to the part of the node it leads to (the parts of a file that
\* are taken as they are may be others).
NetworkAsGiven ==
  /\ \A l \in DOMAIN network.links :
       /\ \A field \in {"from", "to", "length", "modes"} : network.links[l][field] = Net[l][field]
       /\ network.nodes[network.links[l].from].out \cap network.nodes[network.links[l].to].in # {}
       /\ input.method = "metis" => network.links[l].partition = network.nodes[Net[l].to].partition
  /\ DOMAIN network.links = DOMAIN Net

\* When the mobsim starts, every plan still has the main activities of a plan of the
\* user's file (but for heights, which XML does not have), and its trips lead from one to
\* the next over a network that is the user's, with vehicles that exist: whatever was
\* converted, replanned or routed anew.
TripsKept ==
  phase = "mobsim" => NetworkAsGiven /\
    \A p \in Persons : \A i \in DOMAIN population[p].plans :
      LET elements == population[p].plans[i].elements IN
        /\ WellFormed(elements)
        /\ \E plan \in InputPlans(p) :
             MainActivities(AssignCoordinates(plan.elements)) = MainActivities(elements)
        /\ \A span \in TripSpans(elements, 1) : TripConnects(elements, span)

\* A teleported leg without a vehicle is read from XML with one, every leg with its
\* routing mode among its attributes, too, and every activity at height zero.
LegAsRead(leg) ==
  [leg EXCEPT !.attr = "none",
              !.route = IF leg.mode \in MainModes THEN @ ELSE [@ EXCEPT !.veh = NoVehicle]]
PlansAsRead(format, person) ==
  [i \in DOMAIN person.plans |->
     LET elements == person.plans[i].elements IN
       [person.plans[i] EXCEPT !.elements =
          [k \in DOMAIN elements |-> IF elements[k].kind = "leg" THEN LegAsRead(elements[k])
                                     ELSE ActivityInFile(format, elements[k])]]]

\* The output network, if the next run takes its parts as they are; XML has no heights.
NetworkReadAgain ==
  LET again == PartitionNetwork(NetworkFromFile(outputNetwork), "none") IN
    /\ NetworkReadable(outputNetwork)
    /\ again.links = network.links /\ again.cell = network.cell
    /\ \A n \in DOMAIN network.nodes :
         again.nodes[n] = [network.nodes[n] EXCEPT !.z = IF input.output = "xml" THEN 0 ELSE @]

\* A run can be continued from any plans file it wrote and the network it wrote (no
\* vehicles are written: they come from the vehicles file, those that reading plans from
\* XML had added have to be there): the files can be read, the preparation finds no
\* issue in them, and nothing but the vehicles of teleported legs and, from XML, the
\* heights of activities is different from what the first run had.
RestartUnchanged ==
  /\ phase = "done" => NetworkReadAgain
  /\ phase \in {"output", "done"} =>
       \A name \in DOMAIN written : \A p \in DOMAIN written[name].persons :
         LET file == written[name]
             vehicles == IF file.format = "xml" THEN DOMAIN GarageWithPlans(files.vehicles, file).vehicles
                         ELSE Vehicles
             again == PreparePerson(p, FromFile(file.format, file.persons[p], p), vehicles)
         IN /\ Readable(file.format, file.persons[p])
            /\ again.issues = {} /\ again.person.sub = population[p].sub
            /\ name \in {LastIteration, OutputPlans} =>
                 PlansAsRead(file.format, again.person) = PlansAsRead(file.format, population[p])

\* Score of a plan for comparison; a plan without a score comes before all others.
Better(plan, other) == PlanIsWorse(other.score, plan.score)

\* Replanning leaves one plan selected and removes a plan only if none that is
\* worse and not selected stays.
RemovalKeepsBest ==
  [][\A p \in Persons : phase = "replan" /\ phase' = "replan" =>
       LET before == population[p].plans
           after == population'[p].plans
           count(plans, plan) == Cardinality({i \in DOMAIN plans : plans[i] = plan})
       IN /\ Cardinality(SelectedIn(after)) = 1
          /\ p \notin todo' => Len(after) <= MaxMemory
          /\ \A i \in DOMAIN before : \A k \in DOMAIN after :
               count(after, before[i]) < count(before, before[i]) /\ Better(before[i], after[k])
                 => after[k].selected]_vars
=============================================================================
