---------------------------- MODULE Preplanning ----------------------------
(***************************************************************************)
(* Activities and adaptive agents: the activity engine of every rank, the  *)
(* agents' logic that asks for a new trip before an activity ends, and the *)
(* routing adapter that all ranks share.                                   *)
(*                                                                         *)
(* A rank's tick: BeginTick (arriving agents, wake_up), NotifyWakeup for   *)
(* every awake agent (may block in blocking_send), EndActivities,          *)
(* NotifyEnd for every agent that leaves (may block in blocking_recv),     *)
(* LegStep.  Legs take any number of ticks, and an agent's activities are  *)
(* all on one rank.                                                        *)
(***************************************************************************)
EXTENDS TripPlan, RoutingAdapter, SequenceFacts, SequencesExt

CONSTANTS Ranks, Agents,
          Home,      \* Home[a]: the rank of agent a
          Plan,      \* Plan[a]: a's plan at the beginning
          EndTick    \* the last tick

\* Plans that an agent can go through: only main activities have a preplanning horizon,
\* and the last activity, a main one, lasts until the end (the leg after it would be
\* beyond the plan, for which advance_plan panics).
LastsToTheEnd(act) == IsMain(act) /\ (act.end > EndTick \/ (act.end = None /\ act.dur = None))
IsPlan(p) ==
  /\ p \in Seq(Elements) /\ WellFormed(p) /\ LastsToTheEnd(p[Len(p)])
  /\ \A i \in 1..Len(p) : p[i].kind = "act" =>
       p[i].dur < Never - EndTick /\ (p[i].horizon # None => IsMain(p[i]))

\* What a service returns for a trip: legs and stage activities in turn.
IsTrip(s) ==
  /\ s \in Seq(Elements) /\ Len(s) % 2 = 1
  /\ \A i \in 1..Len(s) :
       \/ i % 2 = 1 /\ s[i].kind = "leg"
       \/ /\ i % 2 = 0 /\ s[i].kind = "act" /\ ~IsMain(s[i])
          /\ s[i].dur < Never - EndTick /\ s[i].horizon = None

ASSUME PreplanAssumption ==
  /\ IsFiniteSet(Agents) /\ Home \in [Agents -> Ranks]
  /\ EndTick \in 0..Never - 1
  /\ \A a \in Agents : IsPlan(Plan[a])
  /\ \A s \in Responses : s # <<>> => IsTrip(s)

VARIABLES
  pc,        \* what each rank is doing
  now,       \* its tick
  agent,     \* plan, position, end of the activity, receiver of an answer
  asleep,    \* ActivityEngine::asleep_q, in the order of its heap
  awake,     \* ActivityEngine::awake_q
  woken,     \* end_after_wake_up
  notify,    \* agents that are still to hear that they are awake
  ending,    \* agents that are still to hear that their activity is over
  departing, \* agents on their way to the leg engine
  onLeg,     \* agents in the leg engine
  arriving,  \* agents on their way to the activity engine
  controller \* what the controller is doing

engineVars == <<asleep, awake, woken, notify, ending, departing, onLeg, arriving>>
preVars == <<pc, now, agent, engineVars, controller, adapterVars>>

NoRequest == [agent |-> None]

CurrElement(g) == g.plan[g.elem]
NextLegExists(g) == g.elem < Len(g.plan)

\* AdaptivePlanBasedSimulationLogic::wakeup_time
WakeupTime(g) ==
  IF NextLegExists(g) /\ CurrElement(g).horizon # None
    THEN IF CurrElement(g).horizon > g.end THEN 0 ELSE g.end - CurrElement(g).horizon
    ELSE g.end

AdvancePlan(g, t) ==
  LET next == g.plan[g.elem + 1] IN
    [g EXCEPT !.elem = @ + 1,
              !.end = IF next.kind = "act" THEN CmpEndTime(next, t) ELSE None]

\* TimeQueue::add: behind all entries that are due no later.
AddToQueue(q, a, wake) ==
  LET earlier == {i \in 1..Len(q) : q[i].wake <= wake} IN
    InsertAt(q, Cardinality(earlier) + 1, [agent |-> a, wake |-> wake])

\* Entries of a TimeQueue by when they are due.
Due(t) == [agent : Agents, wake : 0..t]
Later(t) == [agent : Agents, wake : t + 1..Never]

\* The agents in list, in the states g, enter the queue one after the other.
AddAgents(q, list, g) ==
  LET added[k \in 0..Len(list)] ==
        IF k = 0 THEN q ELSE AddToQueue(added[k - 1], list[k], WakeupTime(g[list[k]]))
  IN added[Len(list)]

\* The agents in the entries of a TimeQueue.
AgentsOf(q) == [i \in 1..Len(q) |-> q[i].agent]

AgentAt(plan) ==
  [plan |-> plan, elem |-> 1, end |-> CmpEndTime(plan[1], 0), receiver |-> NoRequest,
   asked |-> 0]

AgentsAt(r) == {a \in Agents : Home[a] = r}

PreInit ==
  /\ pc = [r \in Ranks |-> "barrier"]
  /\ now = [r \in Ranks |-> 0]
  /\ agent = [a \in Agents |-> AgentAt(Plan[a])]
  /\ \E order \in SetToSeqs(Agents) :
       asleep = [r \in Ranks |-> AddAgents(<<>>, Those(order, AgentsAt(r)), agent)]
  /\ awake = [r \in Ranks |-> <<>>] /\ woken = [r \in Ranks |-> <<>>]
  /\ notify = [r \in Ranks |-> <<>>] /\ ending = [r \in Ranks |-> <<>>]
  /\ departing = [r \in Ranks |-> <<>>] /\ onLeg = [r \in Ranks |-> {}]
  /\ arriving = [r \in Ranks |-> <<>>]
  /\ controller = "running"
  /\ AdapterInit

\* The initial barrier of all ranks and the adapter.
PassBarrier ==
  /\ \A r \in Ranks : pc[r] = "barrier"
  /\ adapter = "barrier"
  /\ pc' = [r \in Ranks |-> "begin"]
  /\ adapter' = "running"
  /\ UNCHANGED <<now, agent, engineVars, controller, chan, tasks, replies, dropped, shutdown>>

\* Slip: an agent that leaves at once is not told that it woke up.
Notified_AwakeOnly(over, stay) == stay

\* notify_wakeup_all: first the agents that leave at once, then all awake ones.
Notified(over, stay) == over \o stay

\* wake_up puts an agent into the awake list unless its activity is over.
StaysAwake(g, t) == g.end > t

\* Agents whose leg ended begin their activity; wake_up.
BeginTick(r) ==
  LET t == now[r]
      moved == [a \in Agents |-> IF \E i \in 1..Len(arriving[r]) : arriving[r][i] = a
                                   THEN AdvancePlan(agent[a], t) ELSE agent[a]]
      over == {a \in Agents : moved[a].end <= t}
      waiting == {a \in Agents : StaysAwake(moved[a], t)}
  IN
    /\ pc[r] = "begin"
    /\ agent' = moved
    /\ \E queue \in {AddAgents(asleep[r], arriving[r], moved)} :
       \E popped \in {AgentsOf(Those(queue, Due(t)))} :
         /\ asleep' = [asleep EXCEPT ![r] = Those(queue, Later(t))]
         /\ awake' = [awake EXCEPT ![r] = @ \o Those(popped, waiting)]
         /\ woken' = [woken EXCEPT ![r] = Those(popped, over)]
    /\ notify' = [notify EXCEPT ![r] = Notified(woken'[r], awake'[r])]
    /\ arriving' = [arriving EXCEPT ![r] = <<>>]
    /\ pc' = [pc EXCEPT ![r] = "notify"]
    /\ UNCHANGED <<now, ending, departing, onLeg, controller, adapterVars>>

\* The agent wants its next trip planned anew.
Preplans(g) == NextLegExists(g) /\ CurrElement(g).horizon # None

\* Slip: a request that is under way is not considered.
MustAsk_Again(g) == Preplans(g)

\* react_to_woke_up: one request per activity.
MustAsk(g) == g.receiver = NoRequest /\ Preplans(g)

\* The request of call_router; `no` stands for its uuid.
RequestOf(a, departure, t) ==
  LET g == agent[a]
      span == FindTripSpan(g.plan, g.elem)
  IN [agent |-> a, no |-> g.asked + 1, from |-> g.plan[span.origin].name,
      to |-> g.plan[span.destination].name, departure |-> departure, now |-> t]

\* WokeUp.  The channel is open, see ChannelOutlivesWorkers.
NotifyWakeup(r) ==
  /\ pc[r] = "notify" /\ notify[r] # <<>>
  /\ LET a == Head(notify[r])
         departure == IF \E i \in 1..Len(woken[r]) : woken[r][i] = a
                        THEN now[r] ELSE agent[a].end
         q == RequestOf(a, departure, now[r])
     IN \/ /\ ~MustAsk(agent[a])
           /\ UNCHANGED <<agent, adapterVars>>
        \/ /\ MustAsk(agent[a])
           /\ SendRequest(q)
           /\ agent' = [agent EXCEPT ![a].receiver = q, ![a].asked = @ + 1]
  /\ notify' = [notify EXCEPT ![r] = Tail(@)]
  /\ UNCHANGED <<pc, now, asleep, awake, woken, ending, departing, onLeg, arriving, controller>>

\* Vec::swap_remove
SwapRemove(q, i) ==
  IF i = Len(q) THEN Front(q) ELSE [Front(q) EXCEPT ![i] = Last(q)]

\* Slip: the loop goes on to the next index after a removal.
NextIndex_Skips(i) == i + 1

\* After swap_remove(i) the loop looks at index i again.
NextIndex(i) == i

\* A round of the loop of ActivityEngine::end.
ScanRound(s, t) ==
  IF s.i > Len(s.q) THEN s
  ELSE IF agent[s.q[s.i]].end <= t
    THEN [q |-> SwapRemove(s.q, s.i), i |-> NextIndex(s.i), over |-> Append(s.over, s.q[s.i])]
    ELSE [s EXCEPT !.i = @ + 1]

\* The loop after n rounds.
ScanEnded(q, t, n) ==
  LET scan[k \in 0..n] ==
        IF k = 0 THEN [q |-> q, i |-> 1, over |-> <<>>] ELSE ScanRound(scan[k - 1], t)
  IN scan[n]

EndActivities(r) ==
  LET scan == ScanEnded(awake[r], now[r], Len(awake[r])) IN
    /\ pc[r] = "notify" /\ notify[r] = <<>>
    /\ awake' = [awake EXCEPT ![r] = scan.q]
    /\ ending' = [ending EXCEPT ![r] = woken[r] \o scan.over]
    /\ woken' = [woken EXCEPT ![r] = <<>>]
    /\ pc' = [pc EXCEPT ![r] = "end"]
    /\ UNCHANGED <<now, agent, asleep, notify, departing, onLeg, arriving, controller, adapterVars>>

\* replace_next_trip: an empty answer leaves the plan as it is.
ReplaceNextTrip(g, elements) ==
  IF elements = <<>> THEN g.plan
  ELSE ReplaceTripElements(g.plan, FindTripSpan(g.plan, g.elem), elements)

\* ActivityFinished: if there is a request, its answer is awaited and applied.
NotifyEnd(r) ==
  /\ pc[r] = "end" /\ ending[r] # <<>>
  /\ \E a \in Agents :
       /\ a = Head(ending[r])
       /\ \/ /\ agent[a].receiver = NoRequest
             /\ UNCHANGED <<agent, replies>>
          \/ \E m \in replies :
               /\ m.req = agent[a].receiver
               /\ agent' = [agent EXCEPT ![a].plan = ReplaceNextTrip(agent[a], m.elements),
                                         ![a].receiver = NoRequest]
               /\ replies' = replies \ {m}
       /\ departing' = [departing EXCEPT ![r] = Append(@, a)]
  /\ ending' = [ending EXCEPT ![r] = Tail(@)]
  /\ UNCHANGED <<pc, now, asleep, awake, woken, notify, onLeg, arriving, controller,
                 adapter, chan, tasks, dropped, shutdown>>

\* The sender of the awaited answer was dropped.
ReceivePanics(r) ==
  /\ pc[r] = "end" /\ ending[r] # <<>>
  /\ agent[Head(ending[r])].receiver \in dropped
  /\ pc' = [pc EXCEPT ![r] = "panicked"]
  /\ UNCHANGED <<now, agent, engineVars, controller, adapterVars>>

\* LegEngine::do_step, seen from the agents; after the last tick the engines are
\* drained and the receivers of pending answers dropped.
LegStep(r) ==
  LET left == {departing[r][i] : i \in 1..Len(departing[r])}
      legs == onLeg[r] \cup left
      last == now[r] = EndTick
  IN
    /\ pc[r] = "end" /\ ending[r] = <<>>
    /\ \E done \in SUBSET legs : \E order \in SetToSeqs(done) :
         /\ onLeg' = [onLeg EXCEPT ![r] = legs \ done]
         /\ arriving' = [arriving EXCEPT ![r] = order]
    /\ departing' = [departing EXCEPT ![r] = <<>>]
    /\ agent' = [a \in Agents |->
                   LET g == IF a \in left THEN AdvancePlan(agent[a], now[r]) ELSE agent[a]
                   IN IF last /\ Home[a] = r THEN [g EXCEPT !.receiver = NoRequest] ELSE g]
    /\ now' = [now EXCEPT ![r] = @ + 1]
    /\ pc' = [pc EXCEPT ![r] = IF last THEN "done" ELSE "begin"]
    /\ UNCHANGED <<asleep, awake, woken, notify, ending, controller, adapterVars>>

\* Slip: the adapters are shut down before the workers have been joined.
ShutdownAdapters_Early ==
  /\ controller = "running" /\ adapter = "running"
  /\ controller' = "joining"
  /\ shutdown' = TRUE
  /\ UNCHANGED <<pc, now, agent, engineVars, adapter, chan, tasks, replies, dropped>>

\* Controller::run after the last iteration: the workers have been joined.
ShutdownAdapters ==
  /\ controller = "running"
  /\ \A r \in Ranks : pc[r] = "done"
  /\ controller' = "joining"
  /\ shutdown' = TRUE
  /\ UNCHANGED <<pc, now, agent, engineVars, adapter, chan, tasks, replies, dropped>>

\* The adapter's thread is joined; its panic becomes the controller's.
JoinAdapter ==
  /\ controller = "joining" /\ ChannelClosed
  /\ controller' = IF adapter = "stopped" THEN "finished" ELSE "panicked"
  /\ UNCHANGED <<pc, now, agent, engineVars, adapterVars>>

RankNext(r) ==
  BeginTick(r) \/ NotifyWakeup(r) \/ EndActivities(r) \/ NotifyEnd(r) \/ ReceivePanics(r)
    \/ LegStep(r)

AdapterStep == AdapterNext /\ UNCHANGED <<pc, now, agent, engineVars, controller>>

\* The task of a request of agent a.
TaskStep(a) ==
  /\ \E q \in tasks :
       /\ q.agent = a
       /\ \/ \E e \in Responses : Answer(q, e, agent[a].receiver = q)
          \/ CallFails(q)
  /\ UNCHANGED <<pc, now, agent, engineVars, controller>>

PreFinished == controller = "finished" /\ UNCHANGED preVars

PreNext ==
  \/ \E r \in Ranks : RankNext(r)
  \/ PassBarrier
  \/ AdapterStep
  \/ \E a \in Agents : TaskStep(a)
  \/ ShutdownAdapters \/ JoinAdapter
  \/ PreFinished

PreSpec == PreInit /\ [][PreNext]_preVars

\* Every thread that is not blocked keeps running, and the service answers or
\* fails every call.
PreFairSpec ==
  /\ PreSpec
  /\ \A r \in Ranks : WF_preVars(RankNext(r))
  /\ \A a \in Agents : WF_preVars(TaskStep(a))
  /\ WF_preVars(AdapterStep) /\ WF_preVars(PassBarrier)
  /\ WF_preVars(ShutdownAdapters \/ JoinAdapter)
-----------------------------------------------------------------------------
(* Properties.                                                              *)

Requests == RangeOf(chan) \cup tasks \cup {m.req : m \in replies} \cup dropped

\* At any time an agent is in exactly one of the queues of its rank, once.  No
\* activity ends before its time, and none is still going on in the tick after its
\* end: neither a long sleep nor swap_remove makes the engine miss one.
LeavesOnTime ==
  \A r \in Ranks :
    LET held == AgentsOf(asleep[r]) \o awake[r] \o woken[r] \o ending[r] \o departing[r]
                  \o arriving[r]
    IN /\ Len(held) + Cardinality(onLeg[r]) = Cardinality(AgentsAt(r))
       /\ RangeOf(held) \cup onLeg[r] = AgentsAt(r)
       /\ \A a \in RangeOf(woken[r]) \cup RangeOf(ending[r]) \cup RangeOf(departing[r]) :
            agent[a].end <= now[r]
       /\ pc[r] \in {"begin", "done"} =>
            \A a \in RangeOf(AgentsOf(asleep[r])) \cup RangeOf(awake[r]) :
              agent[a].end >= now[r]

\* An agent with a preplanning horizon has asked for its trip by the end of the
\* tick in which the horizon begins, also if its activity ends in the very tick it
\* wakes up: nobody departs without having asked.
AskedInTime ==
  \A r \in Ranks :
    /\ pc[r] \in {"begin", "done"} =>
         \A i \in 1..Len(asleep[r]) : asleep[r][i].wake >= now[r]
    /\ pc[r] = "end" =>
         \A a \in RangeOf(awake[r]) \cup RangeOf(ending[r]) :
           Preplans(agent[a]) => agent[a].receiver # NoRequest

\* Where the requests of agent a are.
ChanOf(a) == {i \in 1..Len(chan) : chan[i].agent = a}
TasksOf(a) == {q \in tasks : q.agent = a}
RepliesOf(a) == {m \in replies : m.req.agent = a}
DroppedOf(a) == {q \in dropped : q.agent = a}
PlacesOf(a) ==
  {<<"chan", i>> : i \in ChanOf(a)} \cup {<<"task", q>> : q \in TasksOf(a)}
    \cup {<<"reply", m>> : m \in RepliesOf(a)} \cup {<<"dropped", q>> : q \in DroppedOf(a)}

\* a's simulation runs.
Simulating(a) == pc[Home[a]] \notin {"done", "panicked"}

\* While a simulation runs, the requests of an agent that are somewhere between
\* channel, tasks and answers are the one it holds the receiver of, in one place.
OneRequestHeld ==
  \A a \in Agents : Simulating(a) =>
    /\ {q \in Requests : q.agent = a} = {agent[a].receiver} \ {NoRequest}
    /\ Cardinality(PlacesOf(a)) <= 1

\* That request is the only one of its agent, and it is about the trip that the
\* agent is about to make.
OneRequestPerTrip ==
  /\ OneRequestHeld
  /\ \A a \in Agents : Simulating(a) =>
       LET g == agent[a]
           span == FindTripSpan(g.plan, g.elem)
       IN g.receiver # NoRequest =>
            /\ span.origin = g.elem
            /\ g.receiver.from = g.plan[g.elem].name
            /\ g.receiver.to = g.plan[span.destination].name

\* However many trips are replaced, with however many legs, the plan goes through
\* the same main activities and has activities and legs in turn.
MainActivitiesKept ==
  \A a \in Agents :
    /\ WellFormed(agent[a].plan)
    /\ Those(agent[a].plan, MainElements) = Those(Plan[a], MainElements)

\* No simulation thread ever finds the request channel closed (blocking_send would
\* panic): the adapter outlives the workers, whatever fails.
ChannelOutlivesWorkers == ChannelClosed => \A r \in Ranks : pc[r] # "notify"

\* Once the adapter is connected the run comes to its end: the bounded channel, the
\* waiting for answers and the shutdown do not block each other.  A failing call
\* makes the rank that waits for its answer panic and does not let it wait for ever
\* in blocking_recv.  (What the other ranks then wait for in their synchronisation
\* is the subject of MobsimPool.)
RunCompletes ==
  adapter = "running" ~>
    \/ controller = "finished"
    \/ /\ \E r \in Ranks : pc[r] = "panicked"
       /\ \A r \in Ranks : pc[r] \in {"done", "panicked"}

\* What keeps the channel open: the ranks are held at the barrier until the adapter
\* is connected, it stops only when told so, and it is told so only when the workers
\* have been joined.
ChannelInv ==
  /\ pc = [r \in Ranks |-> pc[r]]
  /\ adapter \in {"connecting", "barrier", "panicked"} => \A r \in Ranks : pc[r] = "barrier"
  /\ adapter \in {"stopping", "stopped"} => shutdown
  /\ shutdown => \A r \in Ranks : pc[r] = "done"

\* The request of an agent: none, in the channel, with a task, answered, dropped.
NotAsking(a) ==
  /\ agent[a].receiver = NoRequest
  /\ ChanOf(a) = {} /\ TasksOf(a) = {} /\ RepliesOf(a) = {} /\ DroppedOf(a) = {}
Queued(a) ==
  /\ \E i \in 1..Len(chan) : ChanOf(a) = {i} /\ chan[i] = agent[a].receiver
  /\ TasksOf(a) = {} /\ RepliesOf(a) = {} /\ DroppedOf(a) = {}
Calling(a) ==
  /\ TasksOf(a) = {agent[a].receiver}
  /\ ChanOf(a) = {} /\ RepliesOf(a) = {} /\ DroppedOf(a) = {}
Answered(a) ==
  /\ \E m \in replies : RepliesOf(a) = {m} /\ m.req = agent[a].receiver
  /\ ChanOf(a) = {} /\ TasksOf(a) = {} /\ DroppedOf(a) = {}
Unanswered(a) ==
  /\ DroppedOf(a) = {agent[a].receiver}
  /\ ChanOf(a) = {} /\ TasksOf(a) = {} /\ RepliesOf(a) = {}

RequestInv ==
  /\ IsSequence(chan)
  /\ agent = [a \in Agents |->
                [plan |-> agent[a].plan, elem |-> agent[a].elem, end |-> agent[a].end,
                 receiver |-> agent[a].receiver, asked |-> agent[a].asked]]
  /\ \A a \in Agents :
       /\ agent[a].receiver # NoRequest => agent[a].receiver.agent = a
       /\ Simulating(a) =>
            \/ NotAsking(a)
            \/ /\ agent[a].receiver # NoRequest
               /\ Queued(a) \/ Calling(a) \/ Answered(a) \/ Unanswered(a)
=============================================================================
