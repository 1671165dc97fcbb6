-------------------------- MODULE EventPublication --------------------------
(***************************************************************************)
(* The mobsim of every partition as the publisher of events.               *)
(*                                                                         *)
(* A tick of a rank: ActivityEngine::do_step, then LegEngine::do_step with *)
(* the departures, the teleportation engine, move_nodes, move_links, the   *)
(* exchange with the other ranks and the arrivals.  Which vehicles a link  *)
(* or a node lets through is SimNetwork's subject; here any may be held up.*)
(* Agents handled by one engine in one tick are taken in the order of      *)
(* their numbers, over all links.                                          *)
(*                                                                         *)
(* Three handlers listen to a rank's events: the TravelTimeCollector, for  *)
(* single types, the writer of the iteration's file, for all, and a log    *)
(* that the properties are stated with.  The events about crossing a       *)
(* partition boundary have a manager of their own, which numbers them.     *)
(***************************************************************************)
EXTENDS EventFiles
LOCAL INSTANCE SequencesExt
LOCAL INSTANCE FiniteSetsExt

CONSTANTS Ranks, Agents,      \* numbers
          Plans,              \* what the agents may do; for each of them activities and legs in turn
          Owner,              \* Owner[l]: the partition of link l
          Duration,           \* Duration[l]: ticks on link l at free speed
          MainModes,
          EndTick, FirstIteration, LastIteration, WriteEventsInterval,
          Formats             \* the formats the configuration may ask for

ASSUME EventPublicationAssumption ==
  /\ FirstIteration \in Nat /\ LastIteration \in Nat /\ FirstIteration <= LastIteration
  /\ WriteEventsInterval \in Nat \ {0}
  /\ EndTick \in Nat /\ Formats \subseteq {"xml", "binpb"}

VARIABLES
  plan,      \* the agents' plans
  format,    \* of the event files, from the configuration
  iteration, pc, now,
  agent,     \* where each agent is
  mgr,       \* each rank's EventsManager: what its handlers hold
  crossing,  \* each rank's PartitionEventsManager
  files,     \* the event files of the last iteration, and what was published in it
  stay,      \* history: when each agent's vehicle entered its link, and the stays that ended
  drained    \* history: the agents that an iteration ended with on the network

input == <<plan, format>>
pubVars == <<input, iteration, pc, now, agent, mgr, crossing, files, stay, drained>>

Never == -1   \* no time; SimTime::max for the end of an activity

InOrder(as) == SetToSortSeq(as, <)

-----------------------------------------------------------------------------
(* The handlers *)

Without(f, k) == [x \in DOMAIN f \ {k} |-> f[x]]

\* duration_since does not go below zero.
ProcessLinkLeave(c, e) ==
  LET v == e.fields["vehicle"]
  IN IF v \notin DOMAIN c.cache THEN c
     ELSE [times |-> Append(c.times, [vehicle |-> v, link |-> e.fields["link"],
                                      time |-> Max({0, e.time - c.cache[v]})]),
           cache |-> Without(c.cache, v)]

Collect(c, e) ==
  CASE e.type = "entered link" -> [c EXCEPT !.cache = (e.fields["vehicle"] :> e.time) @@ @]
    [] e.type = "left link" -> ProcessLinkLeave(c, e)
    [] e.type = "PersonLeavesVehicle" -> [c EXCEPT !.cache = Without(@, e.fields["vehicle"])]
    [] OTHER -> c

NoWriter == [format |-> "none"]
NewManager ==
  [collector |-> [times |-> <<>>, cache |-> <<>>], writer |-> NoWriter, log |-> <<>>]

\* Handlers of the event's type, then those of any type.
ProcessEvent(m, e) ==
  [collector |-> Collect(m.collector, e),
   writer |-> IF m.writer = NoWriter THEN NoWriter ELSE OnAny(m.writer, e),
   log |-> Append(m.log, e)]

Publish(p, events) == mgr' = [mgr EXCEPT ![p] = FoldLeft(ProcessEvent, @, events)]

\* FrameworkEventsManager::process_event: every event gets the next number.
Announce(p, payloads) ==
  crossing' = [crossing EXCEPT ![p] =
    FoldLeft(LAMBDA c, x : [c EXCEPT !.nextSeqNo = @ + 1,
                                     !.log = Append(@, [payload |-> x, iteration |-> c.iteration,
                                                        seqNo |-> c.nextSeqNo])], @, payloads)]

ShouldWrite(i) == i = LastIteration \/ (i # 0 /\ i % WriteEventsInterval = 0)

\* The files that the writers leave when they are finished, with the log of what they were
\* given.
NoFiles == [parts |-> <<>>, logs |-> <<>>]
FinishedFiles ==
  LET m(k) == mgr[InOrder(Ranks)[k]]
      written == IF \A p \in Ranks : mgr[p].writer = NoWriter THEN 0 ELSE Cardinality(Ranks)
  IN [parts |-> [k \in 1..written |-> Finish(m(k).writer)], logs |-> [k \in 1..written |-> m(k).log]]

\* reset_iteration: the collector has no handler for it.
ResetIteration(m, i) ==
  [m EXCEPT !.writer = IF ShouldWrite(i) THEN NewWriter(format) ELSE NoWriter, !.log = <<>>]

-----------------------------------------------------------------------------
(* The agents *)

Elem(x, a) == plan[a][x.elem]
CurrLink(x, a) == Elem(x, a).route[x.pos]
EndLink(x, a) == Last(Elem(x, a).route)
Vehicle(x, a) == <<a, Elem(x, a).mode>>
Drives(x, a) == Elem(x, a).mode \in MainModes
Arriving(x, a) == x.pos = Len(Elem(x, a).route)

\* cmp_end_time
CmpEndTime(act, time) ==
  IF act.end # Never THEN act.end ELSE IF act.dur # Never THEN time + act.dur ELSE Never

At(place, p) == {a \in Agents : agent[a].place = place /\ agent[a].rank = p}
Due(time, t) == time # Never /\ time <= t

NewAgent(a) ==
  [place |-> "activity", rank |-> Owner[plan[a][1].link], elem |-> 1, pos |-> 0,
   time |-> CmpEndTime(plan[a][1], 0)]

\* The events an agent in state x publishes.
PersonEvent(type, x, a, time) ==
  LET e == Elem(x, a)
  IN CASE type \in {"actstart", "actend"} ->
            Event(type, time, [person |-> a, link |-> e.link, act_type |-> e.type, coordinate |-> e.coord])
       [] type = "departure" ->
            Event(type, time, [person |-> a, link |-> e.route[1], leg_mode |-> e.mode,
                               routing_mode |-> e.rmode])
       [] type = "arrival" ->
            Event(type, time, [person |-> a, link |-> CurrLink(x, a), leg_mode |-> e.mode])
       [] type \in {"PersonEntersVehicle", "PersonLeavesVehicle"} ->
            Event(type, time, [person |-> a, vehicle |-> Vehicle(x, a)])
       [] type \in {"travelled", "travelled with pt"} ->
            Event(type, time, [person |-> a, mode |-> e.mode, distance |-> e.dist,
                               route |-> e.pt, line |-> e.pt])
TrafficEvent(type, x, a, time) ==
  Event(type, time, [vehicle |-> Vehicle(x, a), link |-> CurrLink(x, a), person |-> a,
                     network_mode |-> Elem(x, a).mode, relative_position |-> 1])

Crosses(kind, x, a, other, time) ==
  <<[kind |-> kind, who |-> Vehicle(x, a), other |-> other, time |-> time],
    [kind |-> kind, who |-> <<a>>, other |-> other, time |-> time]>>

\* The concatenation of what f gives for the agents of as.
ForAll(as, f(_)) == FlattenSeq([i \in 1..Cardinality(as) |-> f(InOrder(as)[i])])

GoTo(p, step) == pc' = [pc EXCEPT ![p] = step]
Time(p) == TickToTime(now[p])

PubInit ==
  /\ plan \in Plans /\ format \in Formats
  /\ iteration = FirstIteration
  /\ pc = [p \in Ranks |-> "activities"]
  /\ now = [p \in Ranks |-> 0]
  /\ agent = [a \in Agents |-> NewAgent(a)]
  /\ mgr = [p \in Ranks |-> ResetIteration(NewManager, FirstIteration)]
  /\ crossing = [p \in Ranks |-> [iteration |-> FirstIteration, nextSeqNo |-> 0, log |-> <<>>]]
  /\ files = NoFiles
  /\ stay = [entered |-> [a \in Agents |-> Never], ended |-> <<>>]
  /\ drained = {}

\* ActivityEngine::do_step: agents whose leg has ended start the next activity; then every
\* activity that is due ends, those just started too.
ActivityStep(p) ==
  LET t == Time(p)
      received == At("changing", p)
      x == [a \in Agents |->
              IF a \in received
                THEN [agent[a] EXCEPT !.place = "activity", !.elem = @ + 1, !.pos = 0,
                                      !.time = CmpEndTime(plan[a][agent[a].elem + 1], t)]
                ELSE agent[a]]
      ends == {a \in received \cup At("activity", p) : Due(x[a].time, t)}
  IN /\ pc[p] = "activities"
     /\ Publish(p, ForAll(received, LAMBDA a : <<PersonEvent("actstart", x[a], a, t)>>)
                   \o ForAll(ends, LAMBDA a : <<PersonEvent("actend", x[a], a, t)>>))
     /\ agent' = [a \in Agents |-> IF a \in ends THEN [x[a] EXCEPT !.place = "departing"] ELSE x[a]]
     /\ GoTo(p, "departures")
     /\ UNCHANGED <<input, iteration, now, crossing, files, stay, drained>>

\* receive_agents: the leg begins on the network, in the teleportation engine, or with a
\* message to the rank where the teleportation ends.
DepartureStep(p) ==
  LET t == Time(p)
      x == [a \in At("departing", p) |->
              LET y == [agent[a] EXCEPT !.elem = @ + 1, !.pos = 1]
              IN IF Drives(y, a) THEN [y EXCEPT !.place = "waiting"]
                 ELSE LET z == [y EXCEPT !.pos = Len(Elem(y, a).route)]
                      IN IF Owner[EndLink(z, a)] = p
                           THEN [z EXCEPT !.place = "teleporting", !.time = t + Elem(z, a).trav]
                           ELSE [z EXCEPT !.place = "sent", !.time = now[p]]]
      leaves == {a \in DOMAIN x : x[a].place = "sent"}
  IN /\ pc[p] = "departures"
     /\ Publish(p, ForAll(DOMAIN x, LAMBDA a :
          <<PersonEvent("departure", x[a], a, t)>>
          \o (IF Drives(x[a], a) THEN <<PersonEvent("PersonEntersVehicle", x[a], a, t)>> ELSE <<>>)))
     /\ Announce(p, ForAll(leaves, LAMBDA a : Crosses("leaves", x[a], a, Owner[EndLink(x[a], a)], t)))
     /\ agent' = x @@ agent
     /\ stay' = [stay EXCEPT !.entered = [a \in DOMAIN x |-> Never] @@ @]
     /\ GoTo(p, "teleports")
     /\ UNCHANGED <<input, iteration, now, files, drained>>

\* TeleportationEngine::do_step
TeleportStep(p) ==
  LET t == Time(p)
      ended == {a \in At("teleporting", p) : agent[a].time <= t}
  IN /\ pc[p] = "teleports"
     /\ Publish(p, ForAll(ended, LAMBDA a :
          <<PersonEvent(IF Elem(agent[a], a).pt = "none" THEN "travelled" ELSE "travelled with pt",
                        agent[a], a, t)>>))
     /\ agent' = [a \in ended |-> [agent[a] EXCEPT !.place = "teleported"]] @@ agent
     /\ GoTo(p, "nodes")
     /\ UNCHANGED <<input, iteration, now, crossing, files, stay, drained>>

\* For the links of other ranks, the receiving rank publishes it.
PublishesEnter(p, l) == Owner[l] = p

\* A vehicle's time on its link is over; Never if its leg began there.
StayEnds(a, l, t) ==
  IF stay.entered[a] = Never THEN <<>>
  ELSE <<[vehicle |-> Vehicle(agent[a], a), link |-> l, time |-> t - stay.entered[a]]>>

\* move_nodes: a set of the vehicles in the buffers goes on to the next link.
MoveNodes(p, goes) ==
  LET t == Time(p)
      x == [a \in goes |->
              LET y == [agent[a] EXCEPT !.pos = @ + 1]
              IN IF Owner[CurrLink(y, a)] = p
                   THEN [y EXCEPT !.place = "queue", !.time = now[p] + Duration[CurrLink(y, a)]]
                   ELSE [y EXCEPT !.place = "out"]]
  IN /\ pc[p] = "nodes"
     /\ Publish(p, ForAll(goes, LAMBDA a :
          <<TrafficEvent("left link", agent[a], a, t)>>
          \o (IF PublishesEnter(p, CurrLink(x[a], a))
                THEN <<TrafficEvent("entered link", x[a], a, t)>> ELSE <<>>)))
     /\ agent' = x @@ agent
     /\ stay' = [entered |-> [a \in goes |-> t] @@ stay.entered,
                 ended |-> stay.ended \o ForAll(goes, LAMBDA a : StayEnds(a, CurrLink(agent[a], a), t))]
     /\ GoTo(p, "links")
     /\ UNCHANGED <<input, iteration, now, crossing, files, drained>>

\* move_links: vehicles enter traffic from the waiting list, and those at the end of their
\* route leave it.  Others go to the buffer if the link has capacity for them; held do not.
MoveLinks(p, held) ==
  LET t == Time(p)
      waiting == {a \in At("waiting", p) : Arriving(agent[a], a) \/ a \notin held}
      queued == {a \in At("queue", p) : /\ agent[a].time <= now[p]
                                        /\ Arriving(agent[a], a) \/ a \notin held}
      ended == {a \in waiting \cup queued : Arriving(agent[a], a)}
      out == At("out", p)
      to(a) == Owner[CurrLink(agent[a], a)]
  IN /\ pc[p] = "links"
     /\ Publish(p, ForAll(waiting, LAMBDA a : <<TrafficEvent("vehicle enters traffic", agent[a], a, t)>>)
                   \o ForAll(ended, LAMBDA a : <<TrafficEvent("vehicle leaves traffic", agent[a], a, t)>>))
     /\ Announce(p, ForAll(out, LAMBDA a : Crosses("leaves", agent[a], a, to(a), t)))
     /\ agent' = [a \in Agents |->
                    CASE a \in ended -> [agent[a] EXCEPT !.place = "ended"]
                      [] a \in (waiting \cup queued) \ ended -> [agent[a] EXCEPT !.place = "buffer"]
                      [] a \in out -> [agent[a] EXCEPT !.place = "sent", !.time = now[p]]
                      [] OTHER -> agent[a]]
     /\ GoTo(p, "exchange")
     /\ UNCHANGED <<input, iteration, now, files, stay, drained>>

\* Slip: a vehicle from another rank is put on its link as if its route began there.
RouteBegin_Received(x, a) == TRUE

\* Vehicles from another rank are on their way.
RouteBegin(x, a) == FALSE

\* Slip: a message is taken as soon as it is there.
MessagesFor_AnyTick(p) ==
  {a \in Agents : agent[a].place = "sent" /\ agent[a].rank # p
                  /\ Owner[CurrLink(agent[a], a)] = p}

\* The vehicles in the messages of this tick.
MessagesFor(p) ==
  {a \in Agents : agent[a].place = "sent" /\ agent[a].time = now[p] /\ agent[a].rank # p
                  /\ Owner[CurrLink(agent[a], a)] = p}

\* What the function f gives for the vehicles of as, message by message: the teleported ones were added at
\* their departure, before those from the links.
ForMessages(as, f) ==
  FlattenSeq([k \in 1..Cardinality(Ranks) |->
    LET from == {a \in as : agent[a].rank = InOrder(Ranks)[k]}
    IN ForAll({a \in from : ~Drives(agent[a], a)}, LAMBDA a : f[a])
         \o ForAll({a \in from : Drives(agent[a], a)}, LAMBDA a : f[a])])

\* send_recv waits for the other ranks' messages of this tick; the vehicles in them are put
\* on their link or into the teleportation engine.
Exchange(p) ==
  LET t == Time(p)
      got == MessagesFor(p)
      drive == {a \in got : Drives(agent[a], a)}
  IN /\ pc[p] = "exchange"
     /\ \A q \in Ranks \ {p} : now[q] > now[p] \/ (now[q] = now[p] /\ pc[q] \in {"exchange", "arrivals"})
     /\ Announce(p, ForMessages(got, [a \in got |-> Crosses("enters", agent[a], a, agent[a].rank, t)]))
     /\ Publish(p, ForMessages(drive, [a \in drive |->
          IF RouteBegin(agent[a], a) THEN <<>> ELSE <<TrafficEvent("entered link", agent[a], a, t)>>]))
     /\ agent' = [a \in got |->
                    IF a \in drive
                      THEN [agent[a] EXCEPT !.rank = p, !.place = "queue",
                                            !.time = now[p] + Duration[CurrLink(agent[a], a)]]
                      ELSE [agent[a] EXCEPT !.rank = p, !.place = "teleporting",
                                            !.time = t + Elem(agent[a], a).trav]] @@ agent
     /\ GoTo(p, "arrivals")
     /\ UNCHANGED <<input, iteration, now, files, stay, drained>>

\* publish_end_events: first the vehicles from the network, which are left, then the
\* teleported ones.  It is the end of the tick.
ArrivalStep(p) ==
  LET t == Time(p)
      arrival(a) == PersonEvent("arrival", agent[a], a, t)
  IN /\ pc[p] = "arrivals"
     /\ Publish(p, ForAll(At("ended", p), LAMBDA a :
                            <<PersonEvent("PersonLeavesVehicle", agent[a], a, t), arrival(a)>>)
                   \o ForAll(At("teleported", p), LAMBDA a : <<arrival(a)>>))
     /\ agent' = [a \in At("ended", p) \cup At("teleported", p) |->
                    [agent[a] EXCEPT !.place = "changing"]] @@ agent
     /\ now' = [now EXCEPT ![p] = @ + 1]
     /\ GoTo(p, IF now[p] = EndTick THEN "done" ELSE "activities")
     /\ UNCHANGED <<input, iteration, crossing, files, stay, drained>>

Ended == \A p \in Ranks : pc[p] = "done"

\* The times collected so far do not change any more: with the stays they were compared
\* with they are left out, as are the files of the iteration.
ForgetTimes(m) == [m EXCEPT !.collector.times = <<>>]

\* All results are in and the workers begin the next iteration with reset_iteration.
NextIteration ==
  /\ Ended /\ iteration < LastIteration
  /\ iteration' = iteration + 1
  /\ pc' = [p \in Ranks |-> "activities"]
  /\ now' = [p \in Ranks |-> 0]
  /\ agent' = [a \in Agents |-> NewAgent(a)]
  /\ mgr' = [p \in Ranks |-> ForgetTimes(ResetIteration(mgr[p], iteration + 1))]
  /\ crossing' = [p \in Ranks |-> [iteration |-> iteration + 1, nextSeqNo |-> 0, log |-> <<>>]]
  /\ stay' = [entered |-> [a \in Agents |-> Never], ended |-> <<>>]
  /\ drained' = drained \cup {a \in Agents : agent[a].place \in {"queue", "buffer", "out", "sent"}}
  /\ UNCHANGED <<input, files>>

\* The workers shut down: finish_events.
FinishEvents ==
  /\ Ended /\ iteration = LastIteration
  /\ pc' = [p \in Ranks |-> "finished"]
  /\ files' = FinishedFiles
  /\ mgr' = [p \in Ranks |-> [mgr[p] EXCEPT !.writer = NoWriter]]
  /\ UNCHANGED <<input, iteration, now, agent, crossing, stay, drained>>

RankNext(p) ==
  \/ ActivityStep(p) \/ DepartureStep(p) \/ TeleportStep(p)
  \/ \E goes \in SUBSET At("buffer", p) : MoveNodes(p, goes)
  \/ \E held \in SUBSET (At("waiting", p) \cup At("queue", p)) : MoveLinks(p, held)
  \/ Exchange(p) \/ ArrivalStep(p)
=============================================================================
