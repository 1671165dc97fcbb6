------------------------- MODULE Preplanning_proofs -------------------------
(* Proofs about Preplanning: the routing adapter outlives the workers, a       *)
(* request is never lost or made twice while its simulation runs, agents leave *)
(* and ask in time, and plans keep their main activities whatever the service *)
(* answers.                                                                   *)
EXTENDS Preplanning, FiniteSetTheorems, TLAPS

-----------------------------------------------------------------------------
(* The channel and the requests.                                            *)

LEMMA ChannelInit == PreInit => ChannelInv
  BY DEF PreInit, AdapterInit, ChannelInv

\* A rank changes no state of the adapter but the requests and answers, and only a
\* rank that is past the barrier and has not finished takes a step.
LEMMA RankKeeps ==
  ASSUME NEW r \in Ranks, RankNext(r), ChannelInv
  PROVE  /\ UNCHANGED <<adapter, shutdown>>
         /\ pc[r] \in {"begin", "notify", "end"}
         /\ pc' = [s \in Ranks |-> IF s = r THEN pc'[r] ELSE pc[s]]
PROOF
  <1>1. CASE BeginTick(r)
    BY <1>1 DEF BeginTick, adapterVars, ChannelInv
  <1>2. CASE NotifyWakeup(r)
    BY <1>2 DEF NotifyWakeup, adapterVars, SendRequest, ChannelInv
  <1>3. CASE EndActivities(r)
    BY <1>3 DEF EndActivities, adapterVars, ChannelInv
  <1>4. CASE NotifyEnd(r)
    BY <1>4 DEF NotifyEnd, ChannelInv
  <1>5. CASE ReceivePanics(r)
    BY <1>5 DEF ReceivePanics, adapterVars, ChannelInv
  <1>6. CASE LegStep(r)
    BY <1>6 DEF LegStep, adapterVars, ChannelInv
  <1> QED BY <1>1, <1>2, <1>3, <1>4, <1>5, <1>6 DEF RankNext

LEMMA ChannelStep == ChannelInv /\ [PreNext]_preVars => ChannelInv'
PROOF
  <1> SUFFICES ASSUME ChannelInv, [PreNext]_preVars PROVE ChannelInv' OBVIOUS
  <1>1. ASSUME NEW r \in Ranks, RankNext(r) PROVE ChannelInv'
    BY <1>1, RankKeeps DEF ChannelInv
  <1>2. CASE PassBarrier
    BY <1>2 DEF PassBarrier, ChannelInv
  <1>3. CASE AdapterStep
    BY <1>3 DEF AdapterStep, AdapterNext, Connect, ConnectFails, OnRequest, OnShutdown,
                StopAdapter, ChannelInv
  <1>4. ASSUME NEW a \in Agents, TaskStep(a) PROVE ChannelInv'
    BY <1>4 DEF TaskStep, Answer, CallFails, ChannelInv
  <1>5. CASE ShutdownAdapters
    BY <1>5 DEF ShutdownAdapters, ChannelInv
  <1>6. CASE JoinAdapter
    BY <1>6 DEF JoinAdapter, adapterVars, ChannelInv
  <1>7. CASE UNCHANGED preVars
    BY <1>7 DEF preVars, adapterVars, ChannelInv
  <1> QED BY <1>1, <1>2, <1>3, <1>4, <1>5, <1>6, <1>7 DEF PreNext, PreFinished

\* For any number of ranks and agents, any plans, answers and failures: no simulation
\* thread that is about to call blocking_send finds the adapter's channel closed.
THEOREM AdapterOutlivesWorkers == PreSpec => []ChannelOutlivesWorkers
PROOF
  <1>1. ChannelInv => ChannelOutlivesWorkers
    BY DEF ChannelInv, ChannelOutlivesWorkers, ChannelClosed
  <1> QED BY <1>1, ChannelInit, ChannelStep, PTL DEF PreSpec

-----------------------------------------------------------------------------
(* An agent's request is in one place.                                      *)

LEMMA RequestInit == PreInit => RequestInv
PROOF
  <1> SUFFICES ASSUME PreInit PROVE RequestInv OBVIOUS
  <1>1. chan = <<>> /\ tasks = {} /\ replies = {} /\ dropped = {}
    BY DEF PreInit, AdapterInit
  <1>2. agent = [a \in Agents |->
                  [plan |-> Plan[a], elem |-> 1, end |-> CmpEndTime(Plan[a][1], 0),
                   receiver |-> NoRequest, asked |-> 0]]
    BY Zenon DEF PreInit, AgentAt
  <1> HIDE DEF NoRequest, CmpEndTime
  <1>3. IsSequence(chan) /\ Len(chan) = 0
    BY <1>1, EmptySequence
  <1>4. ASSUME NEW a \in Agents PROVE NotAsking(a) /\ agent[a].receiver = NoRequest
    BY <1>1, <1>2, <1>3 DEF NotAsking, ChanOf, TasksOf, RepliesOf, DroppedOf
  <1> QED BY <1>2, <1>3, <1>4 DEF RequestInv

\* A step that leaves the requests alone and takes no receiver from an agent whose
\* simulation goes on.
LEMMA QuietStep ==
  ASSUME RequestInv, UNCHANGED <<chan, tasks, replies, dropped>>,
         agent' = [a \in Agents |->
                [plan |-> agent'[a].plan, elem |-> agent'[a].elem, end |-> agent'[a].end,
                 receiver |-> agent'[a].receiver, asked |-> agent'[a].asked]],
         \A a \in Agents : agent'[a].receiver \in {agent[a].receiver, NoRequest},
         \A a \in Agents : Simulating(a)' =>
           Simulating(a) /\ agent'[a].receiver = agent[a].receiver
  PROVE  RequestInv'
PROOF
  <1> HIDE DEF NoRequest
  <1>1. ASSUME NEW a \in Agents
        PROVE  /\ ChanOf(a)' = ChanOf(a) /\ TasksOf(a)' = TasksOf(a)
               /\ RepliesOf(a)' = RepliesOf(a) /\ DroppedOf(a)' = DroppedOf(a)
    BY DEF ChanOf, TasksOf, RepliesOf, DroppedOf
  <1>2. ASSUME NEW a \in Agents, Simulating(a)'
        PROVE  /\ NotAsking(a) => NotAsking(a)'
               /\ Queued(a) => Queued(a)'
               /\ Calling(a) => Calling(a)'
               /\ Answered(a) => Answered(a)'
               /\ Unanswered(a) => Unanswered(a)'
    BY <1>1, <1>2 DEF NotAsking, Queued, Calling, Answered, Unanswered
  <1>3. IsSequence(chan)'
    BY DEF RequestInv
  <1>4. ASSUME NEW a \in Agents
        PROVE  /\ agent'[a].receiver # NoRequest => agent'[a].receiver.agent = a
               /\ Simulating(a)' =>
                    \/ NotAsking(a)'
                    \/ /\ agent'[a].receiver # NoRequest
                       /\ Queued(a)' \/ Calling(a)' \/ Answered(a)' \/ Unanswered(a)'
    BY <1>2 DEF RequestInv
  <1> QED BY <1>3, <1>4, Zenon DEF RequestInv

LEMMA AdvanceKeeps ==
  ASSUME NEW g, NEW t,
         g = [plan |-> g.plan, elem |-> g.elem, end |-> g.end, receiver |-> g.receiver,
              asked |-> g.asked]
  PROVE  LET h == AdvancePlan(g, t) IN
           /\ h = [plan |-> h.plan, elem |-> h.elem, end |-> h.end,
                   receiver |-> h.receiver, asked |-> h.asked]
           /\ h.receiver = g.receiver
PROOF
  <1>1. ASSUME NEW e, NEW d, NEW h, h = [g EXCEPT !.elem = e, !.end = d]
        PROVE  /\ h = [plan |-> h.plan, elem |-> h.elem, end |-> h.end,
                       receiver |-> h.receiver, asked |-> h.asked]
               /\ h.receiver = g.receiver
    <2>1. h = [plan |-> g.plan, elem |-> e, end |-> d, receiver |-> g.receiver,
               asked |-> g.asked]
      BY <1>1
    <2> QED BY <2>1
  <1> DEFINE d == IF g.plan[g.elem + 1].kind = "act"
                    THEN CmpEndTime(g.plan[g.elem + 1], t) ELSE None
  <1>2. AdvancePlan(g, t) = [g EXCEPT !.elem = g.elem + 1, !.end = d]
    BY Zenon DEF AdvancePlan
  <1> HIDE DEF d
  <1> QED BY <1>1, <1>2

\* The steps of a rank that leave the requests alone.
LEMMA RankQuiet ==
  ASSUME RequestInv, ChannelInv, NEW r \in Ranks,
         BeginTick(r) \/ EndActivities(r) \/ ReceivePanics(r) \/ LegStep(r)
  PROVE  RequestInv'
PROOF
  <1> DEFINE Whole(g) == g = [plan |-> g.plan, elem |-> g.elem, end |-> g.end,
                              receiver |-> g.receiver, asked |-> g.asked]
  <1>1. /\ DOMAIN agent = Agents /\ \A a \in Agents : Whole(agent[a])
        /\ agent = [a \in Agents |-> agent[a]]
        /\ Home \in [Agents -> Ranks]
    BY PreplanAssumption DEF RequestInv
  <1>2. UNCHANGED <<chan, tasks, replies, dropped>>
    BY DEF BeginTick, EndActivities, ReceivePanics, LegStep, adapterVars
  <1>3. /\ pc[r] \in {"begin", "notify", "end"}
        /\ pc' = [s \in Ranks |-> IF s = r THEN pc'[r] ELSE pc[s]]
    BY RankKeeps DEF RankNext
  <1>4. ASSUME NEW a \in Agents, Simulating(a)' PROVE Simulating(a)
    BY <1>1, <1>3, <1>4 DEF Simulating
  <1>5. CASE BeginTick(r)
    <2>1. agent' = [a \in Agents |->
                      IF \E i \in 1..Len(arriving[r]) : arriving[r][i] = a
                        THEN AdvancePlan(agent[a], now[r]) ELSE agent[a]]
      BY <1>5, Zenon DEF BeginTick
    <2>2. ASSUME NEW a \in Agents
          PROVE  Whole(agent'[a]) /\ agent'[a].receiver = agent[a].receiver
      BY <1>1, <2>1, AdvanceKeeps
    <2>3. agent' = [a \in Agents |-> agent'[a]]
      BY <2>1
    <2> QED BY <1>2, <1>4, <2>2, <2>3, QuietStep
  <1>6. CASE EndActivities(r) \/ ReceivePanics(r)
    <2>1. agent' = agent
      BY <1>6 DEF EndActivities, ReceivePanics
    <2> QED BY <1>1, <1>2, <1>4, <2>1, QuietStep
  <1>7. CASE LegStep(r)
    <2> DEFINE left == {departing[r][i] : i \in 1..Len(departing[r])}
               last == now[r] = EndTick
               G(a) == IF a \in left THEN AdvancePlan(agent[a], now[r]) ELSE agent[a]
    <2>1. agent' = [a \in Agents |-> IF last /\ Home[a] = r
                                       THEN [G(a) EXCEPT !.receiver = NoRequest] ELSE G(a)]
      BY <1>7, Zenon DEF LegStep
    <2>2. ASSUME NEW a \in Agents
          PROVE  Whole(G(a)) /\ G(a).receiver = agent[a].receiver
      BY <1>1, AdvanceKeeps
    <2>3. ASSUME NEW a \in Agents
          PROVE  /\ Whole(agent'[a]) /\ agent'[a].receiver \in {agent[a].receiver, NoRequest}
                 /\ ~(last /\ Home[a] = r) => agent'[a].receiver = agent[a].receiver
      <3> DEFINE g == G(a)
      <3>1. Whole(g) /\ g.receiver = agent[a].receiver
        BY <2>2
      <3>2. agent'[a] = IF last /\ Home[a] = r THEN [g EXCEPT !.receiver = NoRequest] ELSE g
        BY <2>1
      <3> HIDE DEF g, NoRequest
      <3> QED BY <3>1, <3>2
    <2>4. ASSUME NEW a \in Agents, Simulating(a)' PROVE ~(last /\ Home[a] = r)
      <3>1. last => pc'[r] = "done"
        BY <1>7, <1>3 DEF LegStep, ChannelInv
      <3> QED BY <2>4, <3>1 DEF Simulating
    <2>5. agent' = [a \in Agents |-> agent'[a]]
      BY <2>1
    <2> HIDE DEF last, G, NoRequest
    <2> QED BY <1>2, <1>4, <2>3, <2>4, <2>5, QuietStep
  <1> QED BY <1>5, <1>6, <1>7

LEMMA NotifyWakeupKeeps ==
  ASSUME RequestInv, ChannelInv, NEW r \in Ranks, NotifyWakeup(r)
  PROVE  RequestInv'
PROOF
  <1>1. UNCHANGED <<pc, tasks, replies, dropped>>
    BY DEF NotifyWakeup, adapterVars, SendRequest
  <1>2. ASSUME NEW a \in Agents PROVE Simulating(a)' = Simulating(a)
    BY <1>1 DEF Simulating
  <1>3. CASE UNCHANGED <<agent, adapterVars>>
    BY <1>2, <1>3, QuietStep DEF adapterVars, RequestInv
  <1>4. PICK a, departure : a = Head(notify[r]) /\
          \/ UNCHANGED <<agent, adapterVars>>
          \/ /\ MustAsk(agent[a])
             /\ SendRequest(RequestOf(a, departure, now[r]))
             /\ agent' = [agent EXCEPT ![a].receiver = RequestOf(a, departure, now[r]),
                                       ![a].asked = @ + 1]
    BY Zenon DEF NotifyWakeup
  <1> DEFINE q == RequestOf(a, departure, now[r])
  <1>5. q.agent = a /\ q # NoRequest
    BY DEF RequestOf, NoRequest
  <1> HIDE DEF q, NoRequest
  <1>6. CASE /\ agent[a].receiver = NoRequest /\ chan' = Append(chan, q)
             /\ agent' = [agent EXCEPT ![a].receiver = q, ![a].asked = @ + 1]
    <2>1. /\ IsSequence(chan') /\ Len(chan) \in Nat /\ Len(chan') = Len(chan) + 1
          /\ \A i \in 1..Len(chan) : chan'[i] = chan[i]
          /\ chan'[Len(chan) + 1] = q
      BY <1>6, AppendSequence DEF RequestInv
    <2>2. /\ agent' = [b \in Agents |->
                [plan |-> agent'[b].plan, elem |-> agent'[b].elem, end |-> agent'[b].end,
                 receiver |-> agent'[b].receiver, asked |-> agent'[b].asked]]
          /\ \A b \in Agents : agent'[b].receiver = IF b = a THEN q ELSE agent[b].receiver
      <3> DEFINE Whole(g) == g = [plan |-> g.plan, elem |-> g.elem, end |-> g.end,
                                  receiver |-> g.receiver, asked |-> g.asked]
                 n == agent[a].asked + 1
      <3>1. agent = [b \in Agents |-> agent[b]] /\ \A b \in Agents : Whole(agent[b])
        BY DEF RequestInv
      <3>2. agent' = [agent EXCEPT ![a] = [agent[a] EXCEPT !.receiver = q, !.asked = n]]
        BY <1>6, <3>1, Zenon
      <3> HIDE DEF n
      <3>3. ASSUME NEW b \in Agents
            PROVE  /\ Whole(agent'[b])
                   /\ agent'[b].receiver = IF b = a THEN q ELSE agent[b].receiver
        <4>1. CASE b = a
          <5> DEFINE g == agent[a]
                     h == [g EXCEPT !.receiver = q, !.asked = n]
          <5>1. Whole(g) /\ agent'[b] = h
            BY <3>1, <3>2, <4>1
          <5> HIDE DEF g
          <5>2. h = [plan |-> g.plan, elem |-> g.elem, end |-> g.end, receiver |-> q, asked |-> n]
            BY <5>1
          <5> HIDE DEF h
          <5> QED BY <5>1, <5>2, <4>1
        <4>2. CASE b # a
          BY <3>1, <3>2, <4>2
        <4> QED BY <4>1, <4>2
      <3>4. agent' = [b \in Agents |-> agent'[b]]
        BY <3>1, <3>2
      <3> QED BY <3>3, <3>4
    <2>3. ASSUME NEW b \in Agents
          PROVE  /\ TasksOf(b)' = TasksOf(b) /\ RepliesOf(b)' = RepliesOf(b)
                 /\ DroppedOf(b)' = DroppedOf(b)
                 /\ ChanOf(b)' = ChanOf(b) \cup (IF b = a THEN {Len(chan) + 1} ELSE {})
      BY <1>1, <1>5, <2>1 DEF TasksOf, RepliesOf, DroppedOf, ChanOf
    <2>4. ASSUME NEW b \in Agents, b # a
          PROVE  /\ NotAsking(b) => NotAsking(b)'
                 /\ Queued(b) => Queued(b)'
                 /\ Calling(b) => Calling(b)'
                 /\ Answered(b) => Answered(b)'
                 /\ Unanswered(b) => Unanswered(b)'
      <3>1. agent'[b].receiver = agent[b].receiver /\ replies' = replies
        BY <1>1, <2>2, <2>4
      <3> QED BY <2>1, <2>3, <2>4, <3>1 DEF NotAsking, Queued, Calling, Answered, Unanswered
    <2>5. ASSUME a \in Agents, Simulating(a) PROVE Queued(a)'
      <3>1. NotAsking(a)
        BY <1>6, <2>5 DEF RequestInv
      <3>2. Len(chan) + 1 \in 1..Len(chan') /\ ChanOf(a)' = {Len(chan) + 1}
        BY <2>1, <2>3, <2>5, <3>1 DEF NotAsking
      <3> QED BY <2>1, <2>2, <2>3, <2>5, <3>1, <3>2 DEF Queued, NotAsking
    <2>6. ASSUME NEW b \in Agents
          PROVE  /\ agent'[b].receiver # NoRequest => agent'[b].receiver.agent = b
                 /\ Simulating(b)' =>
                      \/ NotAsking(b)'
                      \/ /\ agent'[b].receiver # NoRequest
                         /\ Queued(b)' \/ Calling(b)' \/ Answered(b)' \/ Unanswered(b)'
      BY <1>2, <1>5, <2>2, <2>4, <2>5 DEF RequestInv
    <2> QED BY <2>1, <2>2, <2>6, Zenon DEF RequestInv
  <1> QED BY <1>3, <1>4, <1>6 DEF MustAsk, SendRequest, q

LEMMA NotifyEndKeeps ==
  ASSUME RequestInv, ChannelInv, NEW r \in Ranks, NotifyEnd(r)
  PROVE  RequestInv'
PROOF
  <1>1. UNCHANGED <<pc, chan, tasks, dropped>>
    BY DEF NotifyEnd
  <1>2. ASSUME NEW a \in Agents PROVE Simulating(a)' = Simulating(a)
    BY <1>1 DEF Simulating
  <1>3. CASE UNCHANGED <<agent, replies>>
    BY <1>1, <1>2, <1>3, QuietStep DEF RequestInv
  <1>4. CASE ~UNCHANGED <<agent, replies>>
    <2>1. PICK a \in Agents, m \in replies :
            /\ m.req = agent[a].receiver
            /\ agent' = [agent EXCEPT ![a].plan = ReplaceNextTrip(agent[a], m.elements),
                                      ![a].receiver = NoRequest]
            /\ replies' = replies \ {m}
      BY <1>4, Zenon DEF NotifyEnd
    <2> DEFINE plan == ReplaceNextTrip(agent[a], m.elements)
               Whole(g) == g = [plan |-> g.plan, elem |-> g.elem, end |-> g.end,
                                receiver |-> g.receiver, asked |-> g.asked]
    <2>2. agent' = [agent EXCEPT ![a] = [agent[a] EXCEPT !.plan = plan, !.receiver = NoRequest]]
      <3>1. agent = [b \in Agents |-> agent[b]]
        BY DEF RequestInv
      <3> HIDE DEF NoRequest
      <3> QED BY <2>1, <3>1, Zenon
    <2> HIDE DEF plan, NoRequest
    <2>3. agent = [b \in Agents |-> agent[b]] /\ \A b \in Agents : Whole(agent[b])
      BY DEF RequestInv
    <2>4. ASSUME NEW b \in Agents
          PROVE  /\ Whole(agent'[b])
                 /\ agent'[b].receiver = IF b = a THEN NoRequest ELSE agent[b].receiver
      <3>1. CASE b = a
        <4> DEFINE g == agent[a]
                   h == [g EXCEPT !.plan = plan, !.receiver = NoRequest]
        <4>1. Whole(g) /\ agent'[b] = h
          BY <2>2, <2>3, <3>1
        <4> HIDE DEF g
        <4>2. h = [plan |-> plan, elem |-> g.elem, end |-> g.end, receiver |-> NoRequest,
                   asked |-> g.asked]
          BY <4>1
        <4> HIDE DEF h
        <4> QED BY <4>1, <4>2, <3>1
      <3>2. CASE b # a
        BY <2>2, <2>3, <3>2
      <3> QED BY <3>1, <3>2
    <2>5. agent' = [b \in Agents |->
              [plan |-> agent'[b].plan, elem |-> agent'[b].elem, end |-> agent'[b].end,
               receiver |-> agent'[b].receiver, asked |-> agent'[b].asked]]
      <3>1. agent' = [b \in Agents |-> agent'[b]]
        BY <2>2, <2>3
      <3> QED BY <3>1, <2>4
    <2>6. ASSUME NEW b \in Agents
          PROVE  /\ ChanOf(b)' = ChanOf(b) /\ TasksOf(b)' = TasksOf(b)
                 /\ DroppedOf(b)' = DroppedOf(b) /\ RepliesOf(b)' = RepliesOf(b) \ {m}
      BY <1>1, <2>1 DEF ChanOf, TasksOf, DroppedOf, RepliesOf
    <2>7. CASE agent[a].receiver = NoRequest
      \* no agent's request is NoRequest
      <3>1. ASSUME NEW b \in Agents, Simulating(b)
            PROVE  m \notin RepliesOf(b)
        BY <2>1, <2>7, <3>1 DEF RequestInv, NotAsking, Queued, Calling, Answered, Unanswered,
                                RepliesOf
      <3>2. ASSUME NEW b \in Agents, Simulating(b)
            PROVE  /\ NotAsking(b) => NotAsking(b)'
                   /\ Queued(b) => Queued(b)'
                   /\ Calling(b) => Calling(b)'
                   /\ Answered(b) => Answered(b)'
                   /\ Unanswered(b) => Unanswered(b)'
        <4>1. agent'[b].receiver = agent[b].receiver /\ chan' = chan /\ RepliesOf(b)' = RepliesOf(b)
          <5>1. agent'[b].receiver = agent[b].receiver
            BY <2>4, <2>7
          <5>2. m \notin RepliesOf(b) /\ RepliesOf(b)' = RepliesOf(b) \ {m}
            BY <2>6, <3>1, <3>2
          <5>3. RepliesOf(b)' = RepliesOf(b)
            BY <5>2
          <5> QED BY <1>1, <5>1, <5>3
        <4> QED BY <2>1, <2>6, <4>1 DEF NotAsking, Queued, Calling, Answered, Unanswered, RepliesOf
      <3> QED BY <1>1, <1>2, <2>4, <2>5, <2>7, <3>2 DEF RequestInv
    <2>8. CASE agent[a].receiver # NoRequest
      <3>1. m.req.agent = a
        BY <2>1, <2>8 DEF RequestInv
      <3>2. ASSUME NEW b \in Agents, b # a
            PROVE  /\ NotAsking(b) => NotAsking(b)'
                   /\ Queued(b) => Queued(b)'
                   /\ Calling(b) => Calling(b)'
                   /\ Answered(b) => Answered(b)'
                   /\ Unanswered(b) => Unanswered(b)'
        <4>1. /\ agent'[b].receiver = agent[b].receiver /\ chan' = chan
              /\ RepliesOf(b)' = RepliesOf(b)
          <5>1. agent'[b].receiver = agent[b].receiver
            BY <2>4, <3>2
          <5>2. RepliesOf(b)' = RepliesOf(b)
            BY <2>1, <3>1, <3>2 DEF RepliesOf
          <5> QED BY <1>1, <5>1, <5>2
        <4> QED BY <2>1, <2>6, <4>1 DEF NotAsking, Queued, Calling, Answered, Unanswered, RepliesOf
      <3>3. ASSUME Simulating(a) PROVE NotAsking(a)'
        <4>1. Answered(a)
          BY <2>1, <2>8, <3>1, <3>3 DEF RequestInv, NotAsking, Queued, Calling, Unanswered,
                                        RepliesOf
        <4>2. RepliesOf(a) = {m}
          BY <2>1, <3>1, <4>1 DEF Answered, RepliesOf
        <4> QED BY <2>4, <2>6, <4>1, <4>2 DEF NotAsking, Answered
      <3>4. ASSUME NEW b \in Agents
            PROVE  /\ agent'[b].receiver # NoRequest => agent'[b].receiver.agent = b
                   /\ Simulating(b)' =>
                        \/ NotAsking(b)'
                        \/ /\ agent'[b].receiver # NoRequest
                           /\ Queued(b)' \/ Calling(b)' \/ Answered(b)' \/ Unanswered(b)'
        BY <1>2, <2>4, <3>2, <3>3 DEF RequestInv
      <3>5. IsSequence(chan)'
        BY <1>1 DEF RequestInv
      <3> QED BY <2>5, <3>4, <3>5, Zenon DEF RequestInv
    <2> QED BY <2>7, <2>8
  <1> QED BY <1>3, <1>4

\* A step of the adapter or of a task for agent a's request q, as long as agents of
\* other simulations are left alone.
LEMMA AdapterKeeps ==
  ASSUME RequestInv, ChannelInv, AdapterStep
  PROVE  RequestInv'
PROOF
  <1>1. UNCHANGED <<pc, agent>>
    BY DEF AdapterStep
  <1>2. ASSUME NEW a \in Agents PROVE Simulating(a)' = Simulating(a)
    BY <1>1 DEF Simulating
  <1>3. CASE Connect \/ ConnectFails \/ OnShutdown
    <2>1. UNCHANGED <<chan, tasks, replies, dropped>>
      BY <1>3 DEF Connect, ConnectFails, OnShutdown
    <2> QED BY <1>1, <1>2, <2>1, QuietStep DEF RequestInv
  <1>4. CASE StopAdapter
    <2>1. ASSUME NEW a \in Agents PROVE ~Simulating(a)'
      BY <1>1, <1>4, PreplanAssumption DEF StopAdapter, ChannelInv, Simulating
    <2>2. IsSequence(chan)'
      BY <1>4, EmptySequence DEF StopAdapter
    <2> QED BY <1>1, <2>1, <2>2 DEF RequestInv
  <1>5. CASE OnRequest
    <2>1. /\ chan # <<>> /\ chan' = Tail(chan) /\ UNCHANGED <<replies, dropped>>
          /\ tasks' = tasks \cup {Head(chan)}
      BY <1>5 DEF OnRequest
    <2>2. /\ IsSequence(chan') /\ Head(chan) = chan[1]
          /\ Len(chan) \in Nat /\ Len(chan) >= 1 /\ Len(chan') = Len(chan) - 1
          /\ \A i \in 1..Len(chan') : i + 1 \in 1..Len(chan) /\ chan'[i] = chan[i + 1]
      BY <2>1, TailSequence DEF RequestInv
    <2>3. ASSUME NEW a \in Agents
          PROVE  /\ RepliesOf(a)' = RepliesOf(a) /\ DroppedOf(a)' = DroppedOf(a)
                 /\ TasksOf(a)' = TasksOf(a)
                      \cup (IF chan[1].agent = a THEN {chan[1]} ELSE {})
                 /\ ChanOf(a)' = {i \in 1..Len(chan') : i + 1 \in ChanOf(a)}
                 /\ ChanOf(a) \subseteq 1..Len(chan)
                 /\ 1 \in ChanOf(a) <=> chan[1].agent = a
      BY <2>1, <2>2 DEF RepliesOf, DroppedOf, TasksOf, ChanOf
    <2>4. ASSUME NEW a \in Agents
          PROVE  /\ NotAsking(a) => NotAsking(a)'
                 /\ Calling(a) => Calling(a)'
                 /\ Answered(a) => Answered(a)'
                 /\ Unanswered(a) => Unanswered(a)'
      BY <1>1, <2>1, <2>3 DEF NotAsking, Calling, Answered, Unanswered
    <2>5. ASSUME NEW a \in Agents, Queued(a) PROVE Queued(a)' \/ Calling(a)'
      <3>1. PICK i \in 1..Len(chan) : ChanOf(a) = {i} /\ chan[i] = agent[a].receiver
        BY <2>5 DEF Queued
      <3>2. CASE i = 1
        <4>1. ChanOf(a)' = {} /\ TasksOf(a)' = {agent[a].receiver}
          BY <2>2, <2>3, <2>5, <3>1, <3>2 DEF Queued
        <4> QED BY <1>1, <2>3, <2>5, <4>1 DEF Queued, Calling
      <3>3. CASE i # 1
        <4>1. /\ i - 1 \in 1..Len(chan') /\ ChanOf(a)' = {i - 1} /\ chan'[i - 1] = chan[i]
              /\ TasksOf(a)' = TasksOf(a)
          <5>1. i \in Nat /\ i >= 2 /\ i <= Len(chan)
            BY <2>2, <3>1, <3>3
          <5>2. i - 1 \in 1..Len(chan') /\ chan'[i - 1] = chan[i]
            BY <2>2, <5>1
          <5>3. ChanOf(a)' = {j \in 1..Len(chan') : j + 1 = i}
            BY <2>3, <3>1
          <5>4. ChanOf(a)' = {i - 1}
            BY <5>1, <5>2, <5>3
          <5>5. TasksOf(a)' = TasksOf(a)
            BY <2>3, <3>1, <3>3
          <5> QED BY <5>2, <5>4, <5>5
        <4> QED BY <1>1, <2>3, <2>5, <3>1, <4>1 DEF Queued
      <3> QED BY <3>2, <3>3
    <2> QED BY <1>1, <1>2, <2>2, <2>4, <2>5 DEF RequestInv
  <1> QED BY <1>3, <1>4, <1>5 DEF AdapterStep, AdapterNext

LEMMA TaskKeeps ==
  ASSUME RequestInv, ChannelInv, NEW a \in Agents, TaskStep(a)
  PROVE  RequestInv'
PROOF
  <1>1. UNCHANGED <<pc, agent, chan>>
    BY DEF TaskStep, Answer, CallFails
  <1>2. ASSUME NEW b \in Agents PROVE Simulating(b)' = Simulating(b)
    BY <1>1 DEF Simulating
  <1>3. PICK q \in tasks : q.agent = a /\ (\/ \E e \in Responses : Answer(q, e, agent[a].receiver = q)
                                           \/ CallFails(q))
    BY DEF TaskStep
  <1>4. tasks' = tasks \ {q}
    BY <1>3 DEF Answer, CallFails
  <1>5. ASSUME Simulating(a)
        PROVE  /\ agent[a].receiver = q /\ q # NoRequest /\ TasksOf(a) = {q}
               /\ ChanOf(a) = {} /\ RepliesOf(a) = {} /\ DroppedOf(a) = {}
    <2>1. q \in TasksOf(a)
      BY <1>3 DEF TasksOf
    <2> QED BY <1>5, <2>1 DEF RequestInv, NotAsking, Queued, Calling, Answered, Unanswered
  <1>6. ASSUME NEW b \in Agents
        PROVE  ChanOf(b)' = ChanOf(b) /\ TasksOf(b)' = TasksOf(b) \ {q}
    BY <1>1, <1>4 DEF ChanOf, TasksOf
  <1>7. ASSUME NEW b \in Agents, b # a, RepliesOf(b)' = RepliesOf(b),
               DroppedOf(b)' = DroppedOf(b)
        PROVE  /\ NotAsking(b) => NotAsking(b)'
               /\ Queued(b) => Queued(b)'
               /\ Calling(b) => Calling(b)'
               /\ Answered(b) => Answered(b)'
               /\ Unanswered(b) => Unanswered(b)'
    <2>1. TasksOf(b)' = TasksOf(b)
      BY <1>3, <1>6, <1>7 DEF TasksOf
    <2>2. RepliesOf(b) \subseteq replies /\ RepliesOf(b)' \subseteq replies'
      BY DEF RepliesOf
    <2> QED BY <1>1, <1>6, <1>7, <2>1, <2>2 DEF NotAsking, Queued, Calling, Answered, Unanswered
  <1>8. ASSUME NEW e \in Responses, Answer(q, e, agent[a].receiver = q) PROVE RequestInv'
    <2> DEFINE m == [req |-> q, elements |-> e]
    <2>1. /\ UNCHANGED dropped
          /\ replies' = IF agent[a].receiver = q THEN replies \cup {m} ELSE replies
      BY <1>8 DEF Answer
    <2>2. m.req = q
      OBVIOUS
    <2> HIDE DEF m
    <2>3. ASSUME NEW b \in Agents, b # a
          PROVE  RepliesOf(b)' = RepliesOf(b) /\ DroppedOf(b)' = DroppedOf(b)
      BY <1>3, <2>1, <2>2, <2>3 DEF RepliesOf, DroppedOf
    <2>4. ASSUME Simulating(a) PROVE Answered(a)'
      <3>1. RepliesOf(a)' = {m} /\ m \in replies' /\ DroppedOf(a)' = {} /\ TasksOf(a)' = {}
        BY <1>3, <1>5, <1>6, <2>1, <2>2, <2>4 DEF RepliesOf, DroppedOf
      <3> QED BY <1>1, <1>5, <1>6, <2>2, <2>4, <3>1 DEF Answered
    <2> QED BY <1>1, <1>2, <1>5, <1>7, <2>3, <2>4 DEF RequestInv
  <1>9. CASE CallFails(q)
    <2>1. UNCHANGED replies /\ dropped' = dropped \cup {q}
      BY <1>9 DEF CallFails
    <2>2. ASSUME NEW b \in Agents, b # a
          PROVE  RepliesOf(b)' = RepliesOf(b) /\ DroppedOf(b)' = DroppedOf(b)
      BY <1>3, <2>1, <2>2 DEF RepliesOf, DroppedOf
    <2>3. ASSUME Simulating(a) PROVE Unanswered(a)'
      <3>1. DroppedOf(a)' = {q} /\ RepliesOf(a)' = {} /\ TasksOf(a)' = {}
        BY <1>3, <1>5, <1>6, <2>1, <2>3 DEF RepliesOf, DroppedOf
      <3> QED BY <1>1, <1>5, <1>6, <2>3, <3>1 DEF Unanswered
    <2> QED BY <1>1, <1>2, <1>5, <1>7, <2>2, <2>3 DEF RequestInv
  <1> QED BY <1>3, <1>8, <1>9

LEMMA RequestStep == RequestInv /\ ChannelInv /\ [PreNext]_preVars => RequestInv'
PROOF
  <1> SUFFICES ASSUME RequestInv, ChannelInv, [PreNext]_preVars PROVE RequestInv' OBVIOUS
  <1>1. ASSUME NEW r \in Ranks, RankNext(r) PROVE RequestInv'
    BY <1>1, RankQuiet, NotifyWakeupKeeps, NotifyEndKeeps DEF RankNext
  <1>2. CASE PassBarrier
    <2>1. UNCHANGED <<agent, chan, tasks, replies, dropped>>
      BY <1>2 DEF PassBarrier
    <2>2. ASSUME NEW a \in Agents PROVE Simulating(a)
      BY <1>2, PreplanAssumption DEF PassBarrier, Simulating
    <2> QED BY <2>1, <2>2, QuietStep DEF RequestInv
  <1>3. CASE UNCHANGED <<pc, agent, chan, tasks, replies, dropped>>
    <2>1. ASSUME NEW a \in Agents PROVE Simulating(a)' = Simulating(a)
      BY <1>3 DEF Simulating
    <2> QED BY <1>3, <2>1, QuietStep DEF RequestInv
  <1>4. CASE ShutdownAdapters \/ JoinAdapter \/ UNCHANGED preVars
    BY <1>3, <1>4 DEF ShutdownAdapters, JoinAdapter, preVars, adapterVars
  <1> QED BY <1>1, <1>2, <1>4, AdapterKeeps, TaskKeeps DEF PreNext, PreFinished

LEMMA HeldOnce == RequestInv => OneRequestHeld
PROOF
  <1> SUFFICES ASSUME RequestInv, NEW a \in Agents, Simulating(a)
               PROVE  /\ {q \in Requests : q.agent = a} = {agent[a].receiver} \ {NoRequest}
                      /\ Cardinality(PlacesOf(a)) <= 1
    BY DEF OneRequestHeld
  <1> DEFINE mine == {q \in Requests : q.agent = a}
  <1>1. mine = {chan[i] : i \in ChanOf(a)} \cup TasksOf(a) \cup {m.req : m \in RepliesOf(a)}
                 \cup DroppedOf(a)
    BY DEF Requests, RangeOf, ChanOf, TasksOf, RepliesOf, DroppedOf
  <1>2. ASSUME NEW p, PlacesOf(a) \subseteq {p} PROVE Cardinality(PlacesOf(a)) <= 1
    <2>1. PlacesOf(a) = {} \/ PlacesOf(a) = {p}
      BY <1>2
    <2>2. Cardinality({}) = 0 /\ Cardinality({p}) = 1
      BY FS_EmptySet, FS_Singleton
    <2> QED BY <2>1, <2>2
  <1> HIDE DEF NoRequest
  <1>3. CASE NotAsking(a)
    <2>1. mine = {}
      BY <1>1, <1>3 DEF NotAsking
    <2>2. PlacesOf(a) \subseteq {<<"chan", 1>>}
      BY <1>3 DEF NotAsking, PlacesOf
    <2> QED BY <1>2, <1>3, <2>1, <2>2 DEF NotAsking
  <1>4. CASE agent[a].receiver # NoRequest /\ Queued(a)
    <2>1. PICK i \in 1..Len(chan) : ChanOf(a) = {i} /\ chan[i] = agent[a].receiver
      BY <1>4 DEF Queued
    <2>2. mine = {agent[a].receiver}
      BY <1>1, <1>4, <2>1 DEF Queued
    <2>3. PlacesOf(a) \subseteq {<<"chan", i>>}
      BY <1>4, <2>1 DEF Queued, PlacesOf
    <2> QED BY <1>2, <1>4, <2>2, <2>3
  <1>5. CASE agent[a].receiver # NoRequest /\ Calling(a)
    <2>1. mine = {agent[a].receiver}
      BY <1>1, <1>5 DEF Calling
    <2>2. PlacesOf(a) \subseteq {<<"task", agent[a].receiver>>}
      BY <1>5 DEF Calling, PlacesOf
    <2> QED BY <1>2, <1>5, <2>1, <2>2
  <1>6. CASE agent[a].receiver # NoRequest /\ Answered(a)
    <2>1. PICK m \in replies : RepliesOf(a) = {m} /\ m.req = agent[a].receiver
      BY <1>6 DEF Answered
    <2>2. mine = {agent[a].receiver}
      BY <1>1, <1>6, <2>1 DEF Answered
    <2>3. PlacesOf(a) \subseteq {<<"reply", m>>}
      BY <1>6, <2>1 DEF Answered, PlacesOf
    <2> QED BY <1>2, <1>6, <2>2, <2>3
  <1>7. CASE agent[a].receiver # NoRequest /\ Unanswered(a)
    <2>1. mine = {agent[a].receiver}
      BY <1>1, <1>7 DEF Unanswered
    <2>2. PlacesOf(a) \subseteq {<<"dropped", agent[a].receiver>>}
      BY <1>7 DEF Unanswered, PlacesOf
    <2> QED BY <1>2, <1>7, <2>1, <2>2
  <1> QED BY <1>3, <1>4, <1>5, <1>6, <1>7 DEF RequestInv

\* For any number of ranks and agents and any capacity of the channel: as long as its
\* simulation runs, an agent that waits for an answer has exactly one request, in the
\* channel, with a task, answered or dropped with its task, and an agent that does not
\* wait has none.  No request is lost on the way, made twice or answered twice, in
\* whatever order the tasks end.
THEOREM RequestsAreHeld == PreSpec => []OneRequestHeld
PROOF
  <1> QED BY ChannelInit, ChannelStep, RequestInit, RequestStep, HeldOnce, PTL DEF PreSpec

-----------------------------------------------------------------------------
(* The queues.                                                              *)

Entries == [agent : Agents, wake : Times]

\* No agent has two of the entries.
OneEntryEach(S) == \A e, f \in S : e.agent = f.agent => e = f

\* The agents in a queue.
LEMMA AgentsOfIs ==
  ASSUME NEW q \in Seq(Entries)
  PROVE  /\ AgentsOf(q) \in Seq(Agents) /\ Len(AgentsOf(q)) = Len(q)
         /\ RangeOf(AgentsOf(q)) = {e.agent : e \in RangeOf(q)}
         /\ NoRepeats(AgentsOf(q)) <=> NoRepeats(q) /\ OneEntryEach(RangeOf(q))
PROOF
  <1>1. Len(q) \in Nat /\ \A i \in 1..Len(q) : q[i] \in Entries /\ q[i].agent \in Agents
    <2>1. Len(q) \in Nat /\ \A i \in 1..Len(q) : q[i] \in Entries
      OBVIOUS
    <2> QED BY <2>1 DEF Entries
  <1> DEFINE s == AgentsOf(q)
  <1>2. s = [i \in 1..Len(q) |-> q[i].agent]
    BY DEF AgentsOf
  <1>3. s \in Seq(Agents) /\ Len(s) = Len(q) /\ \A i \in 1..Len(q) : s[i] = q[i].agent
    BY <1>1, <1>2
  <1> HIDE DEF s
  <1>4. RangeOf(s) = {e.agent : e \in RangeOf(q)}
    BY <1>3 DEF RangeOf
  <1>5. NoRepeats(s) => NoRepeats(q) /\ OneEntryEach(RangeOf(q))
    BY <1>3 DEF NoRepeats, OneEntryEach, RangeOf
  <1>6. NoRepeats(q) /\ OneEntryEach(RangeOf(q)) => NoRepeats(s)
    BY <1>3 DEF NoRepeats, OneEntryEach, RangeOf
  <1> QED BY <1>3, <1>4, <1>5, <1>6 DEF s

\* A new entry is put somewhere among the others.
LEMMA InsertAtIs ==
  ASSUME NEW E, NEW q \in Seq(E), NEW x \in E, NEW k \in 0..Len(q)
  PROVE  LET p == InsertAt(q, k + 1, x) IN
           /\ p \in Seq(E) /\ RangeOf(p) = RangeOf(q) \cup {x}
           /\ NoRepeats(q) /\ x \notin RangeOf(q) => NoRepeats(p)
PROOF
  <1> DEFINE u == SubSeq(q, 1, k)
             v == SubSeq(q, k + 1, Len(q))
             w == <<x>>
  <1>1. u \in Seq(E) /\ v \in Seq(E) /\ q = u \o v
    BY SplitAt
  <1>2. InsertAt(q, k + 1, x) = (u \o w) \o v
    <2>1. (k + 1) - 1 = k
      OBVIOUS
    <2> QED BY <2>1 DEF InsertAt
  <1>3. w \in Seq(E) /\ RangeOf(w) = {x} /\ NoRepeats(w)
    <2>1. w \in Seq(E) /\ Len(w) = 1 /\ w[1] = x
      OBVIOUS
    <2> HIDE DEF w
    <2> QED BY <2>1 DEF RangeOf, NoRepeats
  <1> HIDE DEF u, v, w
  <1>4. /\ u \o w \in Seq(E) /\ RangeOf(u \o w) = RangeOf(u) \cup {x}
        /\ NoRepeats(u \o w) <=> NoRepeats(u) /\ x \notin RangeOf(u)
    BY <1>1, <1>3, RangeOfCat
  <1> DEFINE uw == u \o w
  <1> HIDE DEF uw
  <1>5. /\ uw \o v \in Seq(E) /\ RangeOf(uw \o v) = RangeOf(uw) \cup RangeOf(v)
        /\ NoRepeats(uw \o v) <=>
             NoRepeats(uw) /\ NoRepeats(v) /\ RangeOf(uw) \cap RangeOf(v) = {}
    <2>1. uw \in Seq(E)
      BY <1>4 DEF uw
    <2> QED BY <1>1, <2>1, RangeOfCat
  <1>6. /\ RangeOf(q) = RangeOf(u) \cup RangeOf(v)
        /\ NoRepeats(q) <=> NoRepeats(u) /\ NoRepeats(v) /\ RangeOf(u) \cap RangeOf(v) = {}
    BY <1>1, RangeOfCat
  <1> QED BY <1>2, <1>4, <1>5, <1>6 DEF uw

LEMMA AddToQueueIs ==
  ASSUME NEW q \in Seq(Entries), NEW a \in Agents, NEW wake \in Times
  PROVE  LET p == AddToQueue(q, a, wake)
             e == [agent |-> a, wake |-> wake]
         IN  /\ p \in Seq(Entries) /\ RangeOf(p) = RangeOf(q) \cup {e}
             /\ NoRepeats(q) /\ e \notin RangeOf(q) => NoRepeats(p)
PROOF
  <1> DEFINE earlier == {i \in 1..Len(q) : q[i].wake <= wake}
             k == Cardinality(earlier)
             e == [agent |-> a, wake |-> wake]
  <1>1. k \in 0..Len(q)
    <2>1. Len(q) \in Nat
      OBVIOUS
    <2>2. IsFiniteSet(1..Len(q)) /\ Cardinality(1..Len(q)) = Len(q)
      <3> DEFINE n == Len(q)
      <3>1. n \in Nat /\ 1 \in Int /\ n \in Int
        BY <2>1
      <3> HIDE DEF n, earlier
      <3>2. IsFiniteSet(1..n) /\ Cardinality(1..n) = IF 1 > n THEN 0 ELSE n - 1 + 1
        BY <3>1, FS_Interval
      <3>3. Cardinality(1..n) = n
        BY <3>1, <3>2
      <3> QED BY <3>2, <3>3 DEF n
    <2>3. earlier \in SUBSET (1..Len(q))
      OBVIOUS
    <2> HIDE DEF earlier
    <2>4. IsFiniteSet(earlier) /\ k <= Len(q)
      BY <2>2, <2>3, FS_Subset
    <2>5. k \in Nat
      BY <2>4, FS_CardinalityType
    <2> QED BY <2>1, <2>4, <2>5
  <1>2. AddToQueue(q, a, wake) = InsertAt(q, k + 1, e)
    BY DEF AddToQueue
  <1>3. e \in Entries
    BY DEF Entries
  <1> HIDE DEF k, e
  <1>4. LET p == InsertAt(q, k + 1, e) IN
          /\ p \in Seq(Entries) /\ RangeOf(p) = RangeOf(q) \cup {e}
          /\ NoRepeats(q) /\ e \notin RangeOf(q) => NoRepeats(p)
    BY <1>1, <1>3, InsertAtIs
  <1> QED BY <1>2, <1>4 DEF e

\* The entry of agent a in state g[a].
EntryOf(g, a) == [agent |-> a, wake |-> WakeupTime(g[a])]

LEMMA AddAgentsIs ==
  ASSUME NEW q \in Seq(Entries), NEW list \in Seq(Agents), NEW g,
         \A a \in RangeOf(list) : WakeupTime(g[a]) \in Times
  PROVE  LET p == AddAgents(q, list, g) IN
           /\ p \in Seq(Entries)
           /\ RangeOf(p) = RangeOf(q) \cup {EntryOf(g, a) : a \in RangeOf(list)}
           /\ NoRepeats(AgentsOf(q)) /\ NoRepeats(list)
                /\ (\A e \in RangeOf(q) : e.agent \notin RangeOf(list))
              => NoRepeats(AgentsOf(p))
PROOF
  <1>0. Len(list) \in Nat /\ \A i \in 1..Len(list) : list[i] \in Agents
    OBVIOUS
  <1> DEFINE n == Len(list)
             X == Seq(Entries)
             add(x, a) == AddToQueue(x, a, WakeupTime(g[a]))
             step == [c \in (1..n) \X X |-> add(c[2], list[c[1]])]
             Def(f) == [k \in 0..n |-> IF k = 0 THEN q
                          ELSE AddToQueue(f[k - 1], list[k], WakeupTime(g[list[k]]))]
             added == CHOOSE f : f = Def(f)
             before(k) == {list[j] : j \in 1..k}
  <1>a. n \in Nat
    BY <1>0
  <1>1. \A i \in 1..n : list[i] \in Agents /\ list[i] \in RangeOf(list)
    <2> QED BY <1>0 DEF RangeOf
  <1>b. /\ 0 \in 0..n /\ n \in 0..n
        /\ \A i \in 1..n : /\ i \in 0..n /\ i # 0 /\ i - 1 \in 0..n
                          /\ \A j \in 1..(i - 1) : j \in 1..n /\ j # i
        /\ \A k \in 0..n : k = 0 \/ k \in 1..n
    <2> HIDE DEF n
    <2> QED BY <1>a
  <1>2. \A i \in 1..n : WakeupTime(g[list[i]]) \in Times
    BY <1>1
  <1>3. ASSUME NEW x \in X, NEW i \in 1..n
        PROVE  /\ add(x, list[i]) \in X /\ RangeOf(add(x, list[i])) = RangeOf(x) \cup {EntryOf(g, list[i])}
               /\ NoRepeats(x) /\ EntryOf(g, list[i]) \notin RangeOf(x) => NoRepeats(add(x, list[i]))
    BY <1>1, <1>2, AddToQueueIs DEF EntryOf
  <1> HIDE DEF X, add
  <1>4. step \in [(1..n) \X X -> X]
    <2>1. ASSUME NEW c \in (1..n) \X X PROVE add(c[2], list[c[1]]) \in X
      <3>1. c[1] \in 1..n /\ c[2] \in X
        OBVIOUS
      <3> QED BY <1>3, <3>1
    <2> HIDE DEF n
    <2> QED BY <2>1
  <1>5. PICK h \in [0..n -> X] : IsRecursion(h, q, n, step)
    <2>1. q \in X
      BY DEF X
    <2> HIDE DEF n, step
    <2> QED BY <1>a, <1>4, <2>1, RecursionExists
  <1>6. h[0] = q /\ \A i \in 1..n : h[i] = add(h[i - 1], list[i])
    <2>1. \A i \in 0..n : h[i] = IF i = 0 THEN q ELSE step[<<i, h[i - 1]>>]
      <3> HIDE DEF step, n
      <3> QED BY <1>5 DEF IsRecursion
    <2>2. ASSUME NEW i \in 1..n PROVE step[<<i, h[i - 1]>>] = add(h[i - 1], list[i])
      <3>1. h[i - 1] \in X
        BY <1>b
      <3>2. <<i, h[i - 1]>> \in (1..n) \X X
        BY <3>1
      <3> QED BY <3>2
    <2> HIDE DEF step, n
    <2> QED BY <1>b, <2>1, <2>2
  <1>7. h = Def(h)
    <2>2. \A k \in 0..n : h[k] = IF k = 0 THEN q
                             ELSE AddToQueue(h[k - 1], list[k], WakeupTime(g[list[k]]))
      <3> HIDE DEF n
      <3> QED BY <1>6, <1>b DEF add
    <2> HIDE DEF n
    <2> QED BY <2>2
  <1>8. added = Def(added)
    <2> HIDE DEF Def
    <2> QED BY <1>7
  <1>9. AddAgents(q, list, g) = added[n]
    BY Zenon DEF AddAgents
  <1>10. /\ DOMAIN added = 0..n /\ added[0] = q
         /\ \A i \in 1..n : added[i] = add(added[i - 1], list[i])
    <2>1. \A k \in 0..n : added[k] = IF k = 0 THEN q
                             ELSE AddToQueue(added[k - 1], list[k], WakeupTime(g[list[k]]))
      <3> HIDE DEF added
      <3> QED BY <1>8
    <2>2. DOMAIN added = 0..n
      <3> HIDE DEF added
      <3> QED BY <1>8
    <2> HIDE DEF added, n
    <2> QED BY <1>b, <2>1, <2>2 DEF add
  <1> HIDE DEF added, Def, step
  <1> DEFINE P == {k \in 0..n :
                     /\ added[k] \in X
                     /\ RangeOf(added[k]) = RangeOf(q) \cup {EntryOf(g, a) : a \in before(k)}
                     /\ NoRepeats(q) /\ NoRepeats(list)
                          /\ (\A e \in RangeOf(q) : e.agent \notin RangeOf(list))
                        => NoRepeats(added[k])}
  <1>11. 0 \in P
    <2>1. before(0) = {}
      OBVIOUS
    <2>2. q \in X
      BY DEF X
    <2> HIDE DEF before, n
    <2> QED BY <1>10, <1>b, <2>1, <2>2
  <1>12. ASSUME NEW k \in 1..n, k - 1 \in P PROVE k \in P
    <2> DEFINE x == added[k - 1]
               a == list[k]
    <2>1. /\ x \in X /\ RangeOf(x) = RangeOf(q) \cup {EntryOf(g, b) : b \in before(k - 1)}
          /\ NoRepeats(q) /\ NoRepeats(list)
               /\ (\A e \in RangeOf(q) : e.agent \notin RangeOf(list))
             => NoRepeats(x)
      BY <1>12
    <2>2. added[k] = add(x, a) /\ a \in RangeOf(list) /\ k \in 0..n
      <3> HIDE DEF n
      <3> QED BY <1>1, <1>b, <1>10
    <2>3. before(k) = before(k - 1) \cup {a}
      <3>1. \A j : j \in 1..k <=> j \in 1..(k - 1) \/ j = k
        BY <1>a
      <3> QED BY <3>1
    <2>4. NoRepeats(list) => a \notin before(k - 1)
      <3> QED BY <1>b DEF NoRepeats
    <2>5. /\ add(x, a) \in X /\ RangeOf(add(x, a)) = RangeOf(x) \cup {EntryOf(g, a)}
          /\ NoRepeats(x) /\ EntryOf(g, a) \notin RangeOf(x) => NoRepeats(add(x, a))
      BY <1>3, <2>1
    <2> HIDE DEF before, x, a, n
    <2>6. RangeOf(added[k]) = RangeOf(q) \cup {EntryOf(g, b) : b \in before(k)}
      BY <2>1, <2>2, <2>3, <2>5
    <2>7. ASSUME NoRepeats(list), \A e \in RangeOf(q) : e.agent \notin RangeOf(list)
          PROVE  EntryOf(g, a) \notin RangeOf(x)
      <3>1. EntryOf(g, a).agent = a /\ \A b : EntryOf(g, b).agent = b
        BY DEF EntryOf
      <3> QED BY <2>1, <2>2, <2>4, <2>7, <3>1
    <2> QED BY <2>1, <2>2, <2>5, <2>6, <2>7
  <1>13. n \in P
    <2>1. \A k \in 0..n : k \in P
      <3> HIDE DEF P, n
      <3> QED BY <1>a, <1>11, <1>12, UpTo
    <2> HIDE DEF P, n
    <2> QED BY <1>b, <2>1
  <1>14. before(n) = RangeOf(list)
    BY DEF RangeOf
  <1> DEFINE p == added[n]
  <1>15. /\ p \in Seq(Entries)
         /\ RangeOf(p) = RangeOf(q) \cup {EntryOf(g, a) : a \in RangeOf(list)}
         /\ NoRepeats(q) /\ NoRepeats(list)
              /\ (\A e \in RangeOf(q) : e.agent \notin RangeOf(list))
            => NoRepeats(p)
    <2> HIDE DEF before, n
    <2> QED BY <1>13, <1>14 DEF X
  <1> HIDE DEF p
  <1>16. ASSUME NoRepeats(AgentsOf(q)), NoRepeats(list), \A e \in RangeOf(q) : e.agent \notin RangeOf(list)
         PROVE  NoRepeats(AgentsOf(p))
    <2>1. NoRepeats(q) /\ OneEntryEach(RangeOf(q))
      BY <1>16, AgentsOfIs
    <2>2. \A a : EntryOf(g, a).agent = a
      BY DEF EntryOf
    <2>3. OneEntryEach(RangeOf(p))
      <3> SUFFICES ASSUME NEW e \in RangeOf(p), NEW f \in RangeOf(p), e.agent = f.agent PROVE e = f
        BY DEF OneEntryEach
      <3>1. \A d \in RangeOf(p) :
              d \notin RangeOf(q) => d.agent \in RangeOf(list) /\ d = EntryOf(g, d.agent)
        <4> TAKE d \in RangeOf(p)
        <4>1. CASE d \in RangeOf(q)
          BY <4>1
        <4>2. CASE d \notin RangeOf(q)
          <5>1. PICK a \in RangeOf(list) : d = EntryOf(g, a)
            BY <1>15, <4>2
          <5> QED BY <2>2, <5>1
        <4> QED BY <4>1, <4>2
      <3> QED BY <1>16, <2>1, <3>1 DEF OneEntryEach
    <2> QED BY <1>15, <1>16, <2>1, <2>3, AgentsOfIs
  <1> QED BY <1>9, <1>15, <1>16 DEF p

\* Some of the entries, in their order.
LEMMA ThoseEntries ==
  ASSUME NEW q \in Seq(Entries), NEW S
  PROVE  /\ Those(q, S) \in Seq(Entries) /\ RangeOf(Those(q, S)) = RangeOf(q) \cap S
         /\ NoRepeats(AgentsOf(q)) => NoRepeats(AgentsOf(Those(q, S)))
PROOF
  <1> DEFINE p == Those(q, S)
  <1>1. /\ p \in Seq(Entries) /\ RangeOf(p) = RangeOf(q) \cap S
        /\ NoRepeats(q) => NoRepeats(p)
    BY ThoseElements
  <1> HIDE DEF p
  <1>2. NoRepeats(AgentsOf(q)) => NoRepeats(AgentsOf(p))
    BY <1>1, AgentsOfIs DEF OneEntryEach
  <1> QED BY <1>1, <1>2 DEF p

-----------------------------------------------------------------------------
(* The loop over the agents that are awake.                                 *)

\* The last element takes the place of the removed one.
LEMMA SwapRemoveIs ==
  ASSUME NEW E, NEW q \in Seq(E), NEW i \in 1..Len(q)
  PROVE  LET p == SwapRemove(q, i) IN
           /\ p \in Seq(E) /\ Len(p) = Len(q) - 1
           /\ \A j \in 1..Len(p) : p[j] = q[IF j = i THEN Len(q) ELSE j]
PROOF
  <1>1. Len(q) \in Nat /\ Len(q) >= 1 /\ \A j \in 1..Len(q) : q[j] \in E
    OBVIOUS
  <1> DEFINE n == Len(q) - 1
             f == SubSeq(q, 1, n)
             x == q[Len(q)]
  <1>a. n \in Nat /\ n <= Len(q)
    BY <1>1
  <1>2. f \in Seq(E) /\ Len(f) = n /\ n \in Nat /\ \A j \in 1..n : f[j] = q[j]
    <2> HIDE DEF n
    <2> QED BY <1>1, <1>a
  <1>3. SwapRemove(q, i) = IF i = Len(q) THEN f ELSE [f EXCEPT ![i] = x]
    BY Zenon DEF SwapRemove, Front, Last
  <1>4. x \in E /\ \A j \in 1..n : j \in 1..Len(q) /\ j # Len(q)
    BY <1>1
  <1> HIDE DEF f, x
  <1>5. CASE i = Len(q)
    BY <1>2, <1>3, <1>4, <1>5
  <1>6. CASE i # Len(q)
    <2>1. i \in 1..n
      BY <1>1, <1>6
    <2> HIDE DEF n
    <2>2. [f EXCEPT ![i] = x] \in Seq(E) /\ Len([f EXCEPT ![i] = x]) = n
      BY <1>2, <1>4, <2>1
    <2>3. \A j \in 1..n : [f EXCEPT ![i] = x][j] = IF j = i THEN x ELSE q[j]
      BY <1>2, <2>1
    <2> QED BY <1>3, <1>6, <2>2, <2>3 DEF n, x
  <1> QED BY <1>5, <1>6

LEMMA SwapRemoveElements ==
  ASSUME NEW E, NEW q \in Seq(E), NEW i \in 1..Len(q), NoRepeats(q)
  PROVE  LET p == SwapRemove(q, i) IN
           /\ RangeOf(q) = RangeOf(p) \cup {q[i]} /\ q[i] \notin RangeOf(p)
           /\ NoRepeats(p)
PROOF
  <1> DEFINE p == SwapRemove(q, i)
             from(j) == IF j = i THEN Len(q) ELSE j
  <1>1. p \in Seq(E) /\ Len(p) = Len(q) - 1 /\ \A j \in 1..Len(p) : p[j] = q[from(j)]
    BY SwapRemoveIs
  <1>2. Len(q) \in Nat /\ Len(p) = Len(q) - 1
    BY <1>1
  <1> HIDE DEF p
  <1>3. \A j \in 1..Len(p) : from(j) \in 1..Len(q) /\ from(j) # i
    BY <1>1, <1>2
  <1>4. \A j, k \in 1..Len(p) : from(j) = from(k) => j = k
    BY <1>1, <1>2
  <1>5. \A m \in 1..Len(q) : m # i => \E j \in 1..Len(p) : from(j) = m
    <2> SUFFICES ASSUME NEW m \in 1..Len(q), m # i PROVE \E j \in 1..Len(p) : from(j) = m
      OBVIOUS
    <2>1. CASE m = Len(q)
      <3>1. i \in 1..Len(p) /\ from(i) = m
        BY <1>1, <1>2, <2>1
      <3> QED BY <3>1
    <2>2. CASE m # Len(q)
      <3>1. m \in 1..Len(p)
        BY <1>2, <2>2
      <3>2. from(m) = m
        OBVIOUS
      <3> QED BY <3>1, <3>2
    <2> QED BY <2>1, <2>2
  <1> HIDE DEF from
  <1>6. RangeOf(p) \subseteq RangeOf(q) /\ q[i] \in RangeOf(q)
    BY <1>1, <1>3 DEF RangeOf
  <1>7. \A y \in RangeOf(q) : y = q[i] \/ y \in RangeOf(p)
    <2> TAKE y \in RangeOf(q)
    <2>1. PICK m \in 1..Len(q) : y = q[m]
      BY DEF RangeOf
    <2>2. m # i => \E j \in 1..Len(p) : y = p[j]
      BY <1>1, <1>5, <2>1
    <2> QED BY <2>1, <2>2 DEF RangeOf
  <1>8. q[i] \notin RangeOf(p) /\ NoRepeats(p)
    BY <1>1, <1>3, <1>4 DEF RangeOf, NoRepeats
  <1> QED BY <1>6, <1>7, <1>8 DEF p

Scans == [q : Seq(Agents), i : Nat \ {0}, over : Seq(Agents)]

\* What the loop over q has got right so far.
ScanInv(s, q, t) ==
  /\ NoRepeats(s.q) /\ NoRepeats(s.over) /\ RangeOf(s.q) \cap RangeOf(s.over) = {}
  /\ RangeOf(s.q) \cup RangeOf(s.over) = RangeOf(q)
  /\ \A a \in RangeOf(s.over) : agent[a].end <= t
  /\ \A j \in 1..Len(s.q) : j < s.i => ~(agent[s.q[j]].end <= t)

\* How far it has to go.
Remaining(s) == Len(s.q) - s.i + 1

LEMMA ScanRoundIs ==
  ASSUME NEW s \in Scans, NEW t
  PROVE  LET u == ScanRound(s, t) IN
           /\ u \in Scans
           /\ \A q : ScanInv(s, q, t) => ScanInv(u, q, t)
           /\ IF Remaining(s) <= 0 THEN Remaining(u) <= 0 ELSE Remaining(u) = Remaining(s) - 1
PROOF
  <1> DEFINE u == ScanRound(s, t)
             p == s.q
             i == s.i
             o == s.over
  <1>1. p \in Seq(Agents) /\ i \in Nat /\ i >= 1 /\ o \in Seq(Agents)
        /\ s = [q |-> p, i |-> i, over |-> o]
    BY DEF Scans
  <1>2. Len(p) \in Nat
    BY <1>1
  <1>3. CASE i > Len(p)
    <2>1. u = s
      BY <1>3 DEF ScanRound
    <2>2. Remaining(s) <= 0
      BY <1>1, <1>2, <1>3 DEF Remaining
    <2> QED BY <2>1, <2>2
  <1>4. CASE ~(i > Len(p)) /\ agent[p[i]].end <= t
    <2> DEFINE x == p[i]
               r == SwapRemove(p, i)
    <2>1. i \in 1..Len(p) /\ x \in Agents
      BY <1>1, <1>2, <1>4
    <2>2. u = [q |-> r, i |-> i, over |-> Append(o, x)]
      BY <1>4, Zenon DEF ScanRound, NextIndex
    <2>3. /\ r \in Seq(Agents) /\ Len(r) = Len(p) - 1
          /\ \A j \in 1..Len(r) : r[j] = p[IF j = i THEN Len(p) ELSE j]
      BY <1>1, <2>1, SwapRemoveIs
    <2>4. NoRepeats(p) => RangeOf(p) = RangeOf(r) \cup {x} /\ x \notin RangeOf(r) /\ NoRepeats(r)
      BY <1>1, <2>1, SwapRemoveElements
    <2>5. /\ Append(o, x) \in Seq(Agents) /\ RangeOf(Append(o, x)) = RangeOf(o) \cup {x}
          /\ NoRepeats(o) /\ x \notin RangeOf(o) => NoRepeats(Append(o, x))
      BY <1>1, <2>1, RangeOfAppend
    <2>6. x \in RangeOf(p)
      BY <2>1 DEF RangeOf
    <2>7. u \in Scans
      BY <1>1, <2>2, <2>3, <2>5 DEF Scans
    <2>8. /\ (Len(p) - 1) - i + 1 = (Len(p) - i + 1) - 1
          /\ ~(Len(p) - i + 1 <= 0)
      BY <1>1, <1>2, <1>4
    <2>9. \A j \in 1..Len(r) : j < i => j \in 1..Len(p) /\ r[j] = p[j]
      BY <1>1, <1>2, <2>3
    <2>10. agent[x].end <= t
      BY <1>4
    <2>11. u.q = r /\ u.i = i /\ u.over = Append(o, x)
      BY <2>2
    <2> HIDE DEF r, x, u
    <2>12. ASSUME NEW q, ScanInv(s, q, t) PROVE ScanInv(u, q, t)
      <3>1. /\ NoRepeats(p) /\ NoRepeats(o) /\ RangeOf(p) \cap RangeOf(o) = {}
            /\ RangeOf(p) \cup RangeOf(o) = RangeOf(q)
            /\ \A a \in RangeOf(o) : agent[a].end <= t
            /\ \A j \in 1..Len(p) : j < i => ~(agent[p[j]].end <= t)
        BY <2>12 DEF ScanInv
      <3> HIDE DEF p, i, o
      <3>2. \A j \in 1..Len(r) : j < i => ~(agent[r[j]].end <= t)
        BY <2>9, <3>1
      <3>3. \A a \in RangeOf(Append(o, x)) : agent[a].end <= t
        BY <2>5, <2>10, <3>1
      <3>4. /\ RangeOf(r) \cap RangeOf(Append(o, x)) = {} /\ NoRepeats(Append(o, x)) /\ NoRepeats(r)
            /\ RangeOf(r) \cup RangeOf(Append(o, x)) = RangeOf(q)
        BY <2>4, <2>5, <2>6, <3>1
      <3> QED BY <2>11, <3>2, <3>3, <3>4 DEF ScanInv
    <2>13. Remaining(u) = Remaining(s) - 1 /\ ~(Remaining(s) <= 0)
      BY <2>3, <2>8, <2>11 DEF Remaining
    <2> QED BY <2>7, <2>12, <2>13 DEF u
  <1>5. CASE ~(i > Len(p)) /\ ~(agent[p[i]].end <= t)
    <2>1. u = [s EXCEPT !.i = i + 1]
      BY <1>5, Zenon DEF ScanRound
    <2>2. u = [q |-> p, i |-> i + 1, over |-> o]
      BY <1>1, <2>1
    <2>3. u \in Scans
      BY <1>1, <2>2 DEF Scans
    <2>4. /\ Len(p) - (i + 1) + 1 = (Len(p) - i + 1) - 1
          /\ ~(Len(p) - i + 1 <= 0)
      BY <1>1, <1>2, <1>5
    <2>5. u.q = p /\ u.i = i + 1 /\ u.over = o
      BY <2>2
    <2>6. \A j \in 1..Len(p) : j < i + 1 => j < i \/ j = i
      BY <1>1, <1>2
    <2> HIDE DEF u
    <2>7. ASSUME NEW q, ScanInv(s, q, t) PROVE ScanInv(u, q, t)
      <3> QED BY <1>5, <2>5, <2>6, <2>7 DEF ScanInv
    <2>8. Remaining(u) = Remaining(s) - 1 /\ ~(Remaining(s) <= 0)
      BY <2>4, <2>5 DEF Remaining
    <2> QED BY <2>3, <2>7, <2>8 DEF u
  <1> QED BY <1>3, <1>4, <1>5

\* s has divided q into those whose activity is over and those who stay.
Divided(s, q, t) ==
  /\ s.q \in Seq(Agents) /\ NoRepeats(s.q) /\ s.over \in Seq(Agents) /\ NoRepeats(s.over)
  /\ RangeOf(s.q) \cap RangeOf(s.over) = {} /\ RangeOf(s.q) \cup RangeOf(s.over) = RangeOf(q)
  /\ \A a \in RangeOf(s.over) : agent[a].end <= t
  /\ \A a \in RangeOf(s.q) : agent[a].end > t

\* As many rounds as there are agents are enough.
LEMMA ScanEndedIs ==
  ASSUME NEW q \in Seq(Agents), NoRepeats(q), NEW t \in Int,
         \A a \in RangeOf(q) : agent[a].end \in Int
  PROVE  Divided(ScanEnded(q, t, Len(q)), q, t)
PROOF
  <1>0. Len(q) \in Nat
    OBVIOUS
  <1> DEFINE n == Len(q)
             x == [q |-> q, i |-> 1, over |-> <<>>]
             step == [c \in (1..n) \X Scans |-> ScanRound(c[2], t)]
             Def(f) == [k \in 0..n |-> IF k = 0 THEN [q |-> q, i |-> 1, over |-> <<>>]
                                       ELSE ScanRound(f[k - 1], t)]
             scan == CHOOSE f : f = Def(f)
  <1>a. n \in Nat
    BY <1>0
  <1>b. /\ 0 \in 0..n /\ n \in 0..n
        /\ \A i \in 1..n : i \in 0..n /\ i # 0 /\ i - 1 \in 0..n
        /\ \A k \in 0..n : k = 0 \/ k \in 1..n
    <2> HIDE DEF n
    <2> QED BY <1>a
  <1>1. x \in Scans /\ ScanInv(x, q, t) /\ Remaining(x) = n
    <2>1. x.q = q /\ x.i = 1 /\ x.over = <<>>
      OBVIOUS
    <2>2. x \in Scans
      BY DEF Scans
    <2> HIDE DEF x
    <2>3. ScanInv(x, q, t)
      <3>1. \A j \in 1..Len(q) : ~(j < 1)
        BY <1>0
      <3> QED BY <2>1, <3>1, RangeOfEmpty DEF ScanInv
    <2>4. Remaining(x) = n
      BY <1>0, <2>1 DEF Remaining
    <2> QED BY <2>2, <2>3, <2>4
  <1>2. step \in [(1..n) \X Scans -> Scans]
    <2>1. ASSUME NEW c \in (1..n) \X Scans PROVE ScanRound(c[2], t) \in Scans
      <3>1. c[2] \in Scans
        OBVIOUS
      <3> QED BY <3>1, ScanRoundIs
    <2> HIDE DEF n
    <2> QED BY <2>1
  <1>3. PICK h \in [0..n -> Scans] : IsRecursion(h, x, n, step)
    <2> HIDE DEF n, step, x
    <2> QED BY <1>a, <1>1, <1>2, RecursionExists
  <1>4. h[0] = x /\ \A i \in 1..n : h[i] = ScanRound(h[i - 1], t)
    <2>1. \A i \in 0..n : h[i] = IF i = 0 THEN x ELSE step[<<i, h[i - 1]>>]
      <3> HIDE DEF step, n, x
      <3> QED BY <1>3 DEF IsRecursion
    <2>2. ASSUME NEW i \in 1..n PROVE step[<<i, h[i - 1]>>] = ScanRound(h[i - 1], t)
      <3>1. h[i - 1] \in Scans
        BY <1>b
      <3>2. <<i, h[i - 1]>> \in (1..n) \X Scans
        BY <3>1
      <3> HIDE DEF n
      <3> QED BY <3>2
    <2> HIDE DEF step, n, x
    <2> QED BY <1>b, <2>1, <2>2
  <1>5. h = Def(h)
    <2>1. \A k \in 0..n : h[k] = IF k = 0 THEN [q |-> q, i |-> 1, over |-> <<>>]
                                 ELSE ScanRound(h[k - 1], t)
      <3> HIDE DEF n
      <3> QED BY <1>4, <1>b
    <2> HIDE DEF n
    <2> QED BY <2>1
  <1>6. scan = Def(scan)
    <2> HIDE DEF Def
    <2> QED BY <1>5
  <1>7. ScanEnded(q, t, n) = scan[n]
    BY Zenon DEF ScanEnded
  <1>8. scan[0] = x /\ \A i \in 1..n : scan[i] = ScanRound(scan[i - 1], t)
    <2>1. \A k \in 0..n : scan[k] = IF k = 0 THEN [q |-> q, i |-> 1, over |-> <<>>]
                                    ELSE ScanRound(scan[k - 1], t)
      <3> HIDE DEF scan
      <3> QED BY <1>6
    <2> HIDE DEF scan, n
    <2> QED BY <1>b, <2>1
  <1> HIDE DEF scan, Def, step
  <1> DEFINE P == {k \in 0..n : scan[k] \in Scans /\ ScanInv(scan[k], q, t) /\ Remaining(scan[k]) <= n - k}
  <1>9. 0 \in P
    <2> HIDE DEF x, n
    <2> QED BY <1>a, <1>1, <1>8, <1>b
  <1>10. ASSUME NEW k \in 1..n, k - 1 \in P PROVE k \in P
    <2> DEFINE s == scan[k - 1]
    <2>1. s \in Scans /\ ScanInv(s, q, t) /\ Remaining(s) <= n - (k - 1)
      BY <1>10
    <2>2. scan[k] = ScanRound(s, t)
      BY <1>8
    <2> HIDE DEF s
    <2>3. /\ scan[k] \in Scans /\ ScanInv(scan[k], q, t)
          /\ IF Remaining(s) <= 0 THEN Remaining(scan[k]) <= 0 ELSE Remaining(scan[k]) = Remaining(s) - 1
      BY <2>1, <2>2, ScanRoundIs
    <2>4. Remaining(s) \in Int /\ Remaining(scan[k]) \in Int
      <3>1. ASSUME NEW u \in Scans PROVE Remaining(u) \in Int
        <4>1. u.q \in Seq(Agents) /\ u.i \in Nat
          BY DEF Scans
        <4>2. Len(u.q) \in Nat
          BY <4>1
        <4> QED BY <4>1, <4>2 DEF Remaining
      <3> QED BY <2>1, <2>3, <3>1
    <2>5. k \in 0..n /\ k \in Nat /\ k <= n
      <3> HIDE DEF n
      <3> QED BY <1>a
    <2> HIDE DEF n
    <2>6. Remaining(scan[k]) <= n - k
      BY <1>a, <2>1, <2>3, <2>4, <2>5
    <2> QED BY <2>3, <2>5, <2>6
  <1>11. n \in P
    <2>1. \A k \in 0..n : k \in P
      <3> HIDE DEF P, n
      <3> QED BY <1>a, <1>9, <1>10, UpTo
    <2> HIDE DEF P, n
    <2> QED BY <1>b, <2>1
  <1> DEFINE s == scan[n]
  <1>12. s \in Scans /\ ScanInv(s, q, t) /\ Remaining(s) <= n - n
    BY <1>11
  <1>13. Remaining(s) <= 0
    <2> HIDE DEF s, n
    <2> QED BY <1>a, <1>12
  <1> HIDE DEF s, n
  <1>14. s.q \in Seq(Agents) /\ s.over \in Seq(Agents) /\ Len(s.q) \in Nat /\ s.i \in Nat
    <2>1. s.q \in Seq(Agents) /\ s.over \in Seq(Agents) /\ s.i \in Nat
      BY <1>12 DEF Scans
    <2> QED BY <2>1
  <1>15. ASSUME NEW a \in RangeOf(s.q) PROVE agent[a].end > t
    <2>1. PICK j \in 1..Len(s.q) : a = s.q[j]
      BY DEF RangeOf
    <2>2. j < s.i
      BY <1>13, <1>14 DEF Remaining
    <2>3. ~(agent[a].end <= t)
      BY <1>12, <2>1, <2>2 DEF ScanInv
    <2>4. agent[a].end \in Int
      BY <1>12 DEF ScanInv
    <2> QED BY <2>3, <2>4
  <1>16. Divided(s, q, t)
    BY <1>12, <1>14, <1>15 DEF ScanInv, Divided
  <1> QED BY <1>7, <1>16 DEF s, n

-----------------------------------------------------------------------------
(* Plans and the agents that go through them.                               *)

AtActivity(g) ==
  g.elem % 2 = 1 /\ g.end \in Times /\ (g.elem = Len(g.plan) => g.end > EndTick)
OnTheWay(g) == g.elem % 2 = 0 /\ g.receiver = NoRequest

\* What g holds the receiver of is about the trip from the activity it is at.
AsksForNext(g) ==
  /\ g.elem < Len(g.plan) /\ IsMain(g.plan[g.elem])
  /\ g.receiver.from = g.plan[g.elem].name
  /\ g.receiver.to = g.plan[FindTripSpan(g.plan, g.elem).destination].name

\* g goes through the main activities of plan p.
Follows(g, p) ==
  /\ IsPlan(g.plan) /\ Those(g.plan, MainElements) = Those(p, MainElements)
  /\ g.elem \in 1..Len(g.plan)
  /\ g.receiver # NoRequest => AsksForNext(g)

IsAgent(g) ==
  g = [plan |-> g.plan, elem |-> g.elem, end |-> g.end, receiver |-> g.receiver,
       asked |-> g.asked]

LEMMA PlanElements ==
  ASSUME NEW p, IsPlan(p)
  PROVE  /\ p \in Seq(Elements) /\ Len(p) \in Nat /\ Len(p) >= 1 /\ Len(p) % 2 = 1
         /\ \A i \in 1..Len(p) :
              IF i % 2 = 1 THEN p[i] \in Activities /\ p[i].kind = "act" /\ p[i].dur < Never - EndTick
                                  /\ (p[i].horizon # None => IsMain(p[i]))
              ELSE p[i] \in Legs /\ p[i].kind = "leg" /\ ~IsMain(p[i])
         /\ LastsToTheEnd(p[Len(p)]) /\ IsMain(p[Len(p)])
PROOF
  <1>1. p \in Seq(Elements) /\ WellFormed(p) /\ LastsToTheEnd(p[Len(p)])
    BY DEF IsPlan
  <1>2. Len(p) \in Nat /\ \A i \in 1..Len(p) : p[i] \in Elements
    BY <1>1
  <1>3. Len(p) % 2 = 1 /\ \A i \in 1..Len(p) : p[i].kind = (IF i % 2 = 1 THEN "act" ELSE "leg")
    BY <1>1 DEF WellFormed
  <1>4. Len(p) >= 1
    BY <1>2, <1>3
  <1>5. ASSUME NEW i \in 1..Len(p), i % 2 = 1
        PROVE  /\ p[i] \in Activities /\ p[i].kind = "act" /\ p[i].dur < Never - EndTick
               /\ (p[i].horizon # None => IsMain(p[i]))
    <2>1. p[i].kind = "act" /\ p[i] \in Legs \cup Activities
      BY <1>2, <1>3, <1>5 DEF Elements
    <2>2. p[i] \in Activities
      BY <2>1 DEF Legs
    <2>3. p[i].dur < Never - EndTick /\ (p[i].horizon # None => IsMain(p[i]))
      BY <2>1 DEF IsPlan
    <2> QED BY <2>1, <2>2, <2>3
  <1>6. ASSUME NEW i \in 1..Len(p), ~(i % 2 = 1)
        PROVE  p[i] \in Legs /\ p[i].kind = "leg" /\ ~IsMain(p[i])
    <2>1. p[i].kind = "leg" /\ p[i] \in Legs \cup Activities
      BY <1>2, <1>3, <1>6 DEF Elements
    <2>2. p[i] \in Legs
      BY <2>1 DEF Activities
    <2>3. ~IsMain(p[i])
      BY <2>1 DEF IsMain
    <2> QED BY <2>1, <2>2, <2>3
  <1>7. IsMain(p[Len(p)])
    BY <1>1 DEF LastsToTheEnd
  <1> QED BY <1>1, <1>2, <1>3, <1>4, <1>5, <1>6, <1>7

LEMMA CmpEndTimeIs ==
  ASSUME NEW act \in Activities, act.dur < Never - EndTick, NEW t \in 0..EndTick
  PROVE  /\ CmpEndTime(act, t) \in Times
         /\ LastsToTheEnd(act) => CmpEndTime(act, t) > EndTick
PROOF
  <1>1. act.end \in Times \cup {None} /\ act.dur \in Times \cup {None}
    BY DEF Activities
  <1>2. Never \in Nat /\ EndTick \in Nat /\ EndTick < Never
    BY NeverAssumption, PreplanAssumption
  <1>3. CmpEndTime(act, t) \in Times
    BY <1>1, <1>2 DEF CmpEndTime, Times, None
  <1>4. LastsToTheEnd(act) => CmpEndTime(act, t) > EndTick
    BY <1>1, <1>2 DEF CmpEndTime, Times, None, LastsToTheEnd
  <1> QED BY <1>3, <1>4

LEMMA AdvancePlanIs ==
  ASSUME NEW g, NEW t, IsAgent(g)
  PROVE  LET h == AdvancePlan(g, t)
             next == g.plan[g.elem + 1]
         IN  /\ IsAgent(h) /\ h.plan = g.plan /\ h.elem = g.elem + 1 /\ h.receiver = g.receiver
             /\ h.end = IF next.kind = "act" THEN CmpEndTime(next, t) ELSE None
PROOF
  <1> DEFINE d == IF g.plan[g.elem + 1].kind = "act"
                    THEN CmpEndTime(g.plan[g.elem + 1], t) ELSE None
             e == g.elem + 1
             h == AdvancePlan(g, t)
  <1>1. h = [g EXCEPT !.elem = e, !.end = d]
    BY Zenon DEF AdvancePlan
  <1> HIDE DEF d, e, h
  <1>2. IsAgent(h) /\ h.plan = g.plan /\ h.elem = e /\ h.receiver = g.receiver /\ h.end = d
    <2>1. h = [plan |-> g.plan, elem |-> e, end |-> d, receiver |-> g.receiver,
               asked |-> g.asked]
      BY <1>1 DEF IsAgent
    <2> QED BY <2>1 DEF IsAgent
  <1> QED BY <1>2 DEF d, e, h

\* A leg ends with an activity, an activity that is not the last one with a leg.
LEMMA AdvanceTurns ==
  ASSUME NEW g, NEW p, NEW t \in 0..EndTick, IsAgent(g), Follows(g, p), g.receiver = NoRequest
  PROVE  LET h == AdvancePlan(g, t) IN
           /\ IsAgent(h) /\ h.plan = g.plan /\ h.receiver = NoRequest
           /\ OnTheWay(g) => Follows(h, p) /\ AtActivity(h)
           /\ AtActivity(g) /\ g.elem # Len(g.plan) => Follows(h, p) /\ OnTheWay(h)
PROOF
  <1> DEFINE h == AdvancePlan(g, t)
             next == g.plan[g.elem + 1]
             n == Len(g.plan)
  <1>1. /\ IsAgent(h) /\ h.plan = g.plan /\ h.elem = g.elem + 1 /\ h.receiver = g.receiver
        /\ h.end = IF next.kind = "act" THEN CmpEndTime(next, t) ELSE None
    BY AdvancePlanIs
  <1>2. IsPlan(g.plan) /\ g.elem \in 1..n
    BY DEF Follows
  <1>3. n \in Nat /\ n % 2 = 1
    BY <1>2, PlanElements
  <1>4. g.elem % 2 = 0 => g.elem + 1 \in 1..n /\ (g.elem + 1) % 2 = 1
    <2> HIDE DEF n
    <2> QED BY <1>2, <1>3
  <1>5. g.elem % 2 = 1 /\ g.elem # n => g.elem + 1 \in 1..n /\ (g.elem + 1) % 2 = 0
    <2> HIDE DEF n
    <2> QED BY <1>2, <1>3
  <1>6. g.elem + 1 \in 1..n =>
          IF (g.elem + 1) % 2 = 1
            THEN next \in Activities /\ next.kind = "act" /\ next.dur < Never - EndTick
            ELSE next.kind = "leg"
    BY <1>2, PlanElements
  <1>7. g.elem + 1 = n => LastsToTheEnd(next)
    BY <1>2, PlanElements
  <1> HIDE DEF h, next, n
  <1>8. g.elem + 1 \in 1..n => Follows(h, p)
    BY <1>1 DEF Follows, n
  <1>9. ASSUME OnTheWay(g) PROVE AtActivity(h)
    <2>1. g.elem + 1 \in 1..n /\ (g.elem + 1) % 2 = 1
      BY <1>4, <1>9 DEF OnTheWay
    <2>2. h.end = CmpEndTime(next, t)
      BY <1>1, <1>6, <2>1
    <2>3. h.end \in Times /\ (LastsToTheEnd(next) => h.end > EndTick)
      BY <1>6, <2>1, <2>2, CmpEndTimeIs
    <2> QED BY <1>1, <1>7, <2>1, <2>3 DEF AtActivity, n
  <1>10. ASSUME AtActivity(g), g.elem # n PROVE OnTheWay(h)
    <2>1. g.elem + 1 \in 1..n /\ (g.elem + 1) % 2 = 0
      BY <1>5, <1>10 DEF AtActivity
    <2> QED BY <1>1, <2>1 DEF OnTheWay
  <1>11. (OnTheWay(g) \/ (AtActivity(g) /\ g.elem # n)) => Follows(h, p)
    BY <1>4, <1>5, <1>8 DEF OnTheWay, AtActivity
  <1> QED BY <1>1, <1>9, <1>10, <1>11 DEF h, n

\* Nobody wakes up after the end of the activity.
LEMMA WakeupTimeIs ==
  ASSUME NEW g, NEW p, Follows(g, p), AtActivity(g)
  PROVE  WakeupTime(g) \in Times /\ WakeupTime(g) <= g.end
PROOF
  <1>1. IsPlan(g.plan) /\ g.elem \in 1..Len(g.plan) /\ g.elem % 2 = 1 /\ g.end \in Times
    BY DEF Follows, AtActivity
  <1>2. g.plan[g.elem] \in Activities
    BY <1>1, PlanElements
  <1>3. CurrElement(g).horizon \in Times \cup {None}
    BY <1>2 DEF CurrElement, Activities
  <1> QED BY <1>1, <1>3, NeverAssumption DEF WakeupTime, Times, None

\* Only at a main activity a trip is asked for.
LEMMA PreplansIs ==
  ASSUME NEW g, NEW p, Follows(g, p), AtActivity(g), Preplans(g)
  PROVE  g.elem < Len(g.plan) /\ IsMain(g.plan[g.elem])
PROOF
  <1>1. IsPlan(g.plan) /\ g.elem \in 1..Len(g.plan) /\ g.elem % 2 = 1
    BY DEF Follows, AtActivity
  <1>2. g.plan[g.elem].horizon # None => IsMain(g.plan[g.elem])
    BY <1>1, PlanElements
  <1> QED BY <1>2 DEF Preplans, NextLegExists, CurrElement

\* The trip from main activity i leads to the next main activity.
LEMMA SpanStartsHere ==
  ASSUME NEW p, IsPlan(p), NEW i \in 1..Len(p), i < Len(p), IsMain(p[i])
  PROVE  LET s == FindTripSpan(p, i) IN
           /\ s.origin = i /\ s.destination \in 1..Len(p) /\ s.destination - i > 1
           /\ IsMain(p[s.destination])
           /\ \A k \in 1..Len(p) : IsMain(p[k]) => k <= i \/ k >= s.destination
PROOF
  <1> DEFINE n == Len(p)
             mains == MainsFrom(p, i)
             spans == TripSpans(p, i)
             First(s) == s \in spans /\ \A t \in spans : s.origin <= t.origin
             s == FindTripSpan(p, i)
  <1>1. n \in Nat /\ IsMain(p[n]) /\ \A k \in 1..n : IsMain(p[k]) => k % 2 = 1
    BY PlanElements
  <1>2. \A k : k \in mains <=> k \in i..n /\ IsMain(p[k])
    BY DEF MainsFrom
  <1>3. \A t : t \in spans <=> /\ t \in [origin : mains, destination : mains]
                               /\ t.destination - t.origin > 1
                               /\ \A k \in mains : k <= t.origin \/ k >= t.destination
    BY DEF TripSpans
  <1>a. i \in 1..n /\ i < n
    OBVIOUS
  <1> HIDE DEF n, mains, spans
  <1>4. PICK d \in {k \in (i + 1)..n : IsMain(p[k])} :
          \A k \in {k \in (i + 1)..n : IsMain(p[k])} : d <= k
    <2>1. n \in {k \in (i + 1)..n : IsMain(p[k])} /\ (i + 1)..n \subseteq Nat
      BY <1>1, <1>a
    <2> QED BY <2>1, LeastNumber
  <1>5. d \in i..n /\ d - i > 1 /\ i \in i..n
    <2>1. d # i + 1
      BY <1>1, <1>4, <1>a
    <2> QED BY <1>1, <1>4, <1>a, <2>1
  <1>6. \A k \in mains : k <= i \/ k >= d
    BY <1>1, <1>2, <1>4, <1>a
  <1>7. [origin |-> i, destination |-> d] \in spans
    BY <1>2, <1>3, <1>4, <1>5, <1>6
  <1>8. \A t \in spans : t.origin \in i..n
    BY <1>2, <1>3
  <1>9. First([origin |-> i, destination |-> d])
    BY <1>1, <1>7, <1>8
  <1>10. s = CHOOSE t \in TripSpans(p, i) : \A u \in TripSpans(p, i) : t.origin <= u.origin
    BY Zenon DEF FindTripSpan
  <1>11. First(s)
    <2>1. s = CHOOSE t \in spans : \A u \in spans : t.origin <= u.origin
      BY <1>10 DEF spans
    <2> HIDE DEF s
    <2> QED BY <1>9, <2>1
  <1> HIDE DEF s
  <1>12. s.origin = i
    <2>1. s \in spans /\ s.origin <= i /\ s.origin \in i..n
      BY <1>7, <1>8, <1>11
    <2> QED BY <1>1, <1>a, <2>1
  <1>13. /\ s.destination \in mains /\ s.destination - i > 1
         /\ \A k \in mains : k <= i \/ k >= s.destination
    BY <1>3, <1>11, <1>12
  <1>14. s.destination \in 1..n /\ IsMain(p[s.destination])
    BY <1>1, <1>2, <1>13, <1>a
  <1>15. ASSUME NEW k \in 1..n, IsMain(p[k]) PROVE k <= i \/ k >= s.destination
    <2>1. CASE k <= i
      BY <2>1
    <2>2. CASE ~(k <= i)
      <3>1. k \in mains
        BY <1>1, <1>2, <1>15, <1>a, <2>2
      <3> QED BY <1>13, <3>1
    <2> QED BY <2>1, <2>2
  <1> QED BY <1>12, <1>13, <1>14, <1>15 DEF n, s

\* Which elements are main activities.
LEMMA MainsAre ==
  ASSUME NEW e \in Elements
  PROVE  e \in MainElements <=> IsMain(e)
PROOF
  <1>1. CASE e \in Legs
    BY <1>1 DEF MainElements, Legs, Activities, IsMain
  <1>2. CASE e \in Activities
    BY <1>2 DEF MainElements, Activities, IsMain
  <1> QED BY <1>1, <1>2 DEF Elements

\* The elements between two main activities are no main activities.
LEMMA NoMains ==
  ASSUME NEW q \in Seq(Elements), \A i \in 1..Len(q) : ~IsMain(q[i])
  PROVE  Those(q, MainElements) = <<>>
PROOF
  <1>1. \A i \in 1..Len(q) : q[i] \in Elements
    OBVIOUS
  <1>2. RangeOf(q) \cap MainElements = {}
    BY <1>1, MainsAre DEF RangeOf
  <1> QED BY <1>2, ThoseNone

\* A plan remains one, with the same main activities, if the trip from main activity i
\* is replaced by another one.
LEMMA ReplaceTripIs ==
  ASSUME NEW p, IsPlan(p), NEW i \in 1..Len(p), i < Len(p), IsMain(p[i]), NEW e, IsTrip(e)
  PROVE  LET r == ReplaceTripElements(p, FindTripSpan(p, i), e) IN
           /\ IsPlan(r) /\ Those(r, MainElements) = Those(p, MainElements)
           /\ i \in 1..Len(r) /\ i # Len(r)
PROOF
  <1> DEFINE d == FindTripSpan(p, i).destination
             n == Len(p)
             l == Len(e)
             h == SubSeq(p, 1, i)
             u == SubSeq(p, i + 1, n)
             m == SubSeq(u, 1, d - 1 - i)
             v == SubSeq(u, d - i, Len(u))
             w == SubSeq(p, d, n)
             r == (h \o e) \o w
             Kept(q) == Those(q, MainElements)
  <1>1. /\ FindTripSpan(p, i).origin = i /\ d \in 1..n /\ d - i > 1 /\ IsMain(p[d])
        /\ \A k \in 1..n : IsMain(p[k]) => k <= i \/ k >= d
    BY SpanStartsHere
  <1>2. /\ p \in Seq(Elements) /\ n \in Nat /\ n % 2 = 1
        /\ LastsToTheEnd(p[n]) /\ i \in 1..n /\ i < n
    BY PlanElements
  <1>3. ASSUME NEW k \in 1..n
        PROVE  /\ p[k].kind = (IF k % 2 = 1 THEN "act" ELSE "leg")
               /\ p[k].kind = "act" => p[k].dur < Never - EndTick /\ (p[k].horizon # None => IsMain(p[k]))
               /\ IsMain(p[k]) => k % 2 = 1
    BY PlanElements
  <1>4. i % 2 = 1 /\ d % 2 = 1
    BY <1>1, <1>3
  <1>5. e \in Seq(Elements) /\ l \in Nat /\ l % 2 = 1
    <2>1. e \in Seq(Elements) /\ l % 2 = 1
      BY DEF IsTrip
    <2> QED BY <2>1
  <1>6. ASSUME NEW k \in 1..l
        PROVE  /\ e[k].kind = (IF k % 2 = 1 THEN "leg" ELSE "act")
               /\ e[k].kind = "act" => e[k].dur < Never - EndTick /\ e[k].horizon = None
               /\ ~IsMain(e[k])
    BY DEF IsTrip, IsMain
  <1>7. ReplaceTripElements(p, FindTripSpan(p, i), e) = r
    BY <1>1 DEF ReplaceTripElements
  <1>8. /\ h \in Seq(Elements) /\ Len(h) = i /\ \A k \in 1..i : h[k] = p[k]
        /\ u \in Seq(Elements) /\ Len(u) = n - i /\ \A k \in 1..(n - i) : u[k] = p[i + k]
        /\ p = h \o u
    <2>1. i \in 0..n
      BY <1>2
    <2> HIDE DEF n, d
    <2>2. h \in Seq(Elements) /\ u \in Seq(Elements) /\ p = h \o u
      BY <1>2, <2>1, SplitAt DEF n
    <2>3. Len(h) = i /\ \A k \in 1..i : h[k] = p[k]
      BY <1>2, <2>1 DEF n
    <2>4. Len(u) = n - i /\ \A k \in 1..(n - i) : u[k] = p[i + k]
      BY <1>2, <2>1, SuffixIs DEF n
    <2> QED BY <2>2, <2>3, <2>4
  <1> HIDE DEF d, n, l, h, u, r, Kept
  <1>9. d - 1 - i \in 0..Len(u) /\ (d - 1 - i) + 1 = d - i
    BY <1>1, <1>2, <1>8
  <1>10. /\ m \in Seq(Elements) /\ Len(m) = d - 1 - i /\ \A k \in 1..(d - 1 - i) : m[k] = u[k]
         /\ v \in Seq(Elements) /\ Len(v) = Len(u) - (d - 1 - i)
         /\ \A k \in 1..Len(v) : v[k] = u[(d - 1 - i) + k]
         /\ u = m \o v
    <2> DEFINE c == d - 1 - i
    <2>1. v = SubSeq(u, c + 1, Len(u)) /\ c \in 0..Len(u)
      BY <1>9
    <2> HIDE DEF c
    <2>2. SubSeq(u, 1, c) \in Seq(Elements) /\ v \in Seq(Elements) /\ u = SubSeq(u, 1, c) \o v
      BY <1>8, <2>1, SplitAt
    <2>3. Len(SubSeq(u, 1, c)) = c /\ \A k \in 1..c : SubSeq(u, 1, c)[k] = u[k]
      BY <1>8, <2>1
    <2>4. Len(v) = Len(u) - c /\ \A k \in 1..(Len(u) - c) : v[k] = u[c + k]
      <3> DEFINE x == SubSeq(u, c + 1, Len(u))
      <3>1. Len(x) = Len(u) - c /\ \A k \in 1..(Len(u) - c) : x[k] = u[c + k]
        BY <1>8, <2>1, SuffixIs
      <3> HIDE DEF x, v
      <3>2. v = x
        BY <2>1 DEF x
      <3> QED BY <3>1, <3>2
    <2> QED BY <2>2, <2>3, <2>4 DEF c
  <1>11. w \in Seq(Elements) /\ Len(w) = n - d + 1 /\ \A k \in 1..(n - d + 1) : w[k] = p[(d - 1) + k]
    <2> DEFINE c == d - 1
    <2>1. w = SubSeq(p, c + 1, Len(p)) /\ c \in 0..Len(p) /\ Len(p) - c = n - d + 1
      BY <1>1, <1>2 DEF n
    <2> HIDE DEF c, w
    <2>2. w \in Seq(Elements) /\ Len(w) = Len(p) - c /\ \A k \in 1..(Len(p) - c) : w[k] = p[c + k]
      BY <1>2, <2>1, SuffixIs
    <2> QED BY <2>1, <2>2 DEF c
  <1>12. v = w
    <2>1. Len(v) = Len(w)
      BY <1>1, <1>2, <1>8, <1>10, <1>11
    <2>2. ASSUME NEW k \in 1..Len(v) PROVE v[k] = w[k]
      <3>1. /\ (d - 1 - i) + k \in 1..(n - i) /\ i + ((d - 1 - i) + k) = (d - 1) + k
            /\ k \in 1..(n - d + 1)
        BY <1>1, <1>2, <1>8, <1>10
      <3>2. u[(d - 1 - i) + k] = p[(d - 1) + k]
        BY <1>8, <3>1
      <3>3. v[k] = u[(d - 1 - i) + k]
        BY <1>10
      <3>4. w[k] = p[(d - 1) + k]
        BY <1>11, <3>1
      <3> QED BY <3>2, <3>3, <3>4
    <2> HIDE DEF v, w
    <2> QED BY <1>10, <1>11, <2>1, <2>2, SequencesEqual
  <1> HIDE DEF m, v, w
  <1>13. Kept(m) = <<>> /\ Kept(e) = <<>>
    <2>1. \A k \in 1..Len(m) : ~IsMain(m[k])
      <3> TAKE k \in 1..Len(m)
      <3>1. /\ k \in 1..(n - i) /\ k \in 1..(d - 1 - i) /\ i + k \in 1..n /\ ~(i + k <= i)
            /\ ~(i + k >= d)
        BY <1>1, <1>2, <1>10
      <3>2. m[k] = p[i + k]
        BY <1>8, <1>10, <3>1
      <3> QED BY <1>1, <3>1, <3>2
    <2>2. \A k \in 1..Len(e) : ~IsMain(e[k])
      BY <1>6 DEF l
    <2> QED BY <1>5, <1>10, <2>1, <2>2, NoMains DEF Kept
  <1>14. Kept(p) = Kept(h) \o Kept(w)
    <2>1. Kept(p) = Kept(h) \o Kept(u) /\ Kept(u) = Kept(m) \o Kept(v)
      <3>1. Those(h \o u, MainElements) = Those(h, MainElements) \o Those(u, MainElements)
        BY <1>8, ThoseCat
      <3>2. Those(m \o v, MainElements) = Those(m, MainElements) \o Those(v, MainElements)
        BY <1>10, ThoseCat
      <3> QED BY <1>8, <1>10, <3>1, <3>2 DEF Kept
    <2>2. Kept(v) \in Seq(Elements)
      BY <1>10, ThoseElements DEF Kept
    <2>3. <<>> \o Kept(v) = Kept(v)
      BY <2>2
    <2> QED BY <1>12, <1>13, <2>1, <2>3
  <1>15. h \o e \in Seq(Elements) /\ Kept(r) = Kept(h) \o Kept(w)
    <2>1. h \o e \in Seq(Elements)
      BY <1>5, <1>8, CatIs
    <2>2. Kept(r) = Kept(h \o e) \o Kept(w) /\ Kept(h \o e) = Kept(h) \o Kept(e)
      <3> DEFINE c == h \o e
      <3>a. c \in Seq(Elements)
        BY <2>1
      <3> HIDE DEF c
      <3>1. Those(c \o w, MainElements) = Those(c, MainElements) \o Those(w, MainElements)
        BY <1>11, <3>a, ThoseCat
      <3>2. Those(h \o e, MainElements) = Those(h, MainElements) \o Those(e, MainElements)
        BY <1>5, <1>8, ThoseCat
      <3> QED BY <3>1, <3>2 DEF Kept, r, c
    <2>3. Kept(h) \in Seq(Elements)
      BY <1>8, ThoseElements DEF Kept
    <2>4. Kept(h) \o <<>> = Kept(h)
      BY <2>3
    <2> QED BY <1>13, <2>1, <2>2, <2>4
  <1>16. /\ r \in Seq(Elements) /\ Len(r) = i + l + (n - d + 1)
         /\ \A k \in 1..Len(r) :
              r[k] = IF k <= i THEN p[k] ELSE IF k <= i + l THEN e[k - i]
                     ELSE p[(d - 1) + (k - (i + l))]
    <2>1. /\ Len(h \o e) = i + l
          /\ \A k \in 1..(i + l) : (h \o e)[k] = IF k <= i THEN h[k] ELSE e[k - i]
      <3> DEFINE c == h \o e
      <3>1. /\ Len(c) = Len(h) + Len(e)
            /\ \A k \in 1..Len(c) : c[k] = IF k <= Len(h) THEN h[k] ELSE e[k - Len(h)]
        BY <1>5, <1>8, CatIs
      <3>2. Len(h) = i /\ Len(e) = l
        BY <1>8 DEF l
      <3> HIDE DEF c
      <3>3. Len(c) = i + l /\ \A k \in 1..(i + l) : c[k] = IF k <= i THEN h[k] ELSE e[k - i]
        BY <3>1, <3>2
      <3> QED BY <3>3 DEF c
    <2> DEFINE c == h \o e
    <2>2. c \in Seq(Elements) /\ r = c \o w
      BY <1>15 DEF r
    <2>3. Len(c) = i + l /\ \A k \in 1..(i + l) : c[k] = IF k <= i THEN h[k] ELSE e[k - i]
      BY <2>1
    <2> HIDE DEF c
    <2>4. /\ r \in Seq(Elements) /\ Len(r) = Len(c) + Len(w)
          /\ \A k \in 1..Len(r) : r[k] = IF k <= Len(c) THEN c[k] ELSE w[k - Len(c)]
      BY <1>11, <2>2, CatIs
    <2>5. Len(r) = i + l + (n - d + 1)
      BY <1>11, <2>3, <2>4
    <2>6. ASSUME NEW k \in 1..Len(r)
          PROVE  r[k] = IF k <= i THEN p[k] ELSE IF k <= i + l THEN e[k - i]
                        ELSE p[(d - 1) + (k - (i + l))]
      <3>a. i \in Nat /\ l \in Nat /\ d \in Nat /\ n \in Nat /\ k \in Nat /\ k >= 1
            /\ k <= i + l + (n - d + 1)
        BY <1>1, <1>2, <1>5, <2>5
      <3>1. CASE k <= i
        <4>1. k \in 1..(i + l) /\ k \in 1..i
          BY <3>a, <3>1
        <4> QED BY <1>8, <2>3, <2>4, <3>1, <4>1, <3>a
      <3>2. CASE ~(k <= i) /\ k <= i + l
        <4>1. k \in 1..(i + l)
          BY <3>a, <3>2
        <4> QED BY <2>3, <2>4, <3>2, <4>1
      <3>3. CASE ~(k <= i + l)
        <4>1. k - (i + l) \in 1..(n - d + 1) /\ ~(k <= i)
          BY <3>a, <3>3
        <4> QED BY <1>11, <2>3, <2>4, <3>3, <4>1
      <3> QED BY <3>1, <3>2, <3>3
    <2> QED BY <2>4, <2>5, <2>6
  <1>17. i \in Nat /\ i >= 1 /\ l \in Nat /\ l >= 1 /\ d \in Nat /\ d <= n /\ n \in Nat /\ i < d
    BY <1>1, <1>2, <1>5
  <1>18. Len(r) % 2 = 1
    <2>1. l % 2 = 1 /\ n % 2 = 1
      BY <1>2, <1>5
    <2>2. (i + l + (n - d + 1)) % 2 = 1
      BY <1>4, <1>17, <2>1
    <2> QED BY <1>16, <2>2
  <1>19. i \in 1..Len(r) /\ i # Len(r)
    BY <1>16, <1>17
  <1>20. r[Len(r)] = p[n]
    <2>1. Len(r) \in 1..Len(r) /\ ~(Len(r) <= i) /\ ~(Len(r) <= i + l) /\ (d - 1) + (Len(r) - (i + l)) = n
      BY <1>16, <1>17
    <2> QED BY <1>16, <2>1
  <1>21. ASSUME NEW k \in 1..Len(r)
         PROVE  /\ r[k].kind = (IF k % 2 = 1 THEN "act" ELSE "leg")
                /\ r[k].kind = "act" => r[k].dur < Never - EndTick /\ (r[k].horizon # None => IsMain(r[k]))
    <2>a. k \in Nat /\ k >= 1 /\ k <= i + l + (n - d + 1)
      BY <1>16, <1>17
    <2>1. CASE k <= i
      <3>1. k \in 1..n /\ r[k] = p[k]
        BY <1>16, <1>17, <2>a, <2>1
      <3> QED BY <1>3, <3>1
    <2>2. CASE ~(k <= i) /\ k <= i + l
      <3>1. k - i \in 1..l /\ ((k - i) % 2 = 1 <=> k % 2 # 1)
        BY <1>4, <1>17, <2>a, <2>2
      <3>2. r[k] = e[k - i]
        BY <1>16, <2>2
      <3> QED BY <1>6, <3>1, <3>2
    <2>3. CASE ~(k <= i + l)
      <3> DEFINE j == (d - 1) + (k - (i + l))
      <3>1. j \in 1..n /\ (j % 2 = 1 <=> k % 2 = 1) /\ ~(k <= i)
        BY <1>4, <1>5, <1>17, <2>a, <2>3
      <3>2. r[k] = p[j]
        BY <1>16, <2>3, <3>1
      <3> HIDE DEF j
      <3> QED BY <1>3, <3>1, <3>2
    <2> QED BY <2>1, <2>2, <2>3
  <1>22. IsPlan(r)
    <2>1. WellFormed(r)
      BY <1>18, <1>21 DEF WellFormed
    <2> QED BY <1>2, <1>16, <1>20, <1>21, <2>1 DEF IsPlan
  <1> QED BY <1>7, <1>14, <1>15, <1>19, <1>22 DEF Kept

-----------------------------------------------------------------------------
(* Counting.                                                                *)

\* A sequence without repetitions is as long as its set of elements is large.
LEMMA LenIsCardinality ==
  ASSUME NEW E, NEW q \in Seq(E), NoRepeats(q)
  PROVE  IsFiniteSet(RangeOf(q)) /\ Cardinality(RangeOf(q)) = Len(q)
PROOF
  <1> DEFINE n == Len(q)
             S == RangeOf(q)
  <1>1. n \in Nat /\ q = [i \in 1..n |-> q[i]]
    OBVIOUS
  <1>2. \A i \in 1..n : q[i] \in S
    BY DEF RangeOf
  <1>3. \A x \in S : \E i \in 1..n : q[i] = x
    BY DEF RangeOf
  <1>4. \A i, j \in 1..n : q[i] = q[j] => i = j
    BY DEF NoRepeats
  <1> HIDE DEF n, S
  <1>5. q \in [1..n -> S]
    BY <1>1, <1>2
  <1>6. q \in Bijection(1..n, S)
    BY <1>3, <1>4, <1>5 DEF Bijection, Injection, Surjection, IsInjective
  <1>7. ExistsBijection(1..n, S)
    BY <1>6 DEF ExistsBijection
  <1>8. IsFiniteSet(1..n)
    <2>1. 1 \in Int /\ n \in Int
      BY <1>1
    <2> QED BY <2>1, FS_Interval
  <1>9. IsFiniteSet(S)
    BY <1>7, <1>8, FS_Bijection
  <1>10. Cardinality(S) = n
    BY <1>1, <1>7, FS_CountingElements
  <1> QED BY <1>9, <1>10 DEF n, S

\* All elements of a set, in some order.
LEMMA SetToSeqsIs ==
  ASSUME NEW S, IsFiniteSet(S), NEW q \in SetToSeqs(S)
  PROVE  q \in Seq(S) /\ NoRepeats(q) /\ RangeOf(q) = S
PROOF
  <1> DEFINE n == Cardinality(S)
  <1>1. n \in Nat
    BY FS_CardinalityType
  <1>2. q \in [1..n -> S] /\ \A i, j \in 1..n : i # j => q[i] # q[j]
    BY DEF SetToSeqs
  <1>3. IsFiniteSet(1..n) /\ Cardinality(1..n) = n
    BY <1>1, FS_Interval
  <1>4. q \in Injection(1..n, S)
    BY <1>2 DEF Injection, IsInjective
  <1>5. q \in Surjection(1..n, S)
    BY <1>3, <1>4, FS_Injection
  <1> HIDE DEF n
  <1>6. q \in Seq(S) /\ Len(q) = n
    BY <1>1, <1>2
  <1>7. RangeOf(q) = S
    BY <1>2, <1>5, <1>6 DEF Surjection, RangeOf
  <1> QED BY <1>2, <1>6, <1>7 DEF NoRepeats

-----------------------------------------------------------------------------
(* The agents of a rank: where they are and what they do there.             *)

ListsInv ==
  /\ pc \in [Ranks -> {"barrier", "begin", "notify", "end", "done", "panicked"}]
  /\ now \in [Ranks -> Nat]
  /\ asleep \in [Ranks -> Seq(Entries)] /\ awake \in [Ranks -> Seq(Agents)]
  /\ woken \in [Ranks -> Seq(Agents)] /\ notify \in [Ranks -> Seq(Agents)]
  /\ ending \in [Ranks -> Seq(Agents)] /\ departing \in [Ranks -> Seq(Agents)]
  /\ onLeg \in [Ranks -> SUBSET Agents] /\ arriving \in [Ranks -> Seq(Agents)]

\* What has been answered is an answer to a request.
AnswersInv ==
  /\ \A q \in RangeOf(chan) \cup tasks : q # NoRequest
  /\ \A m \in replies : m.req # NoRequest /\ m.elements \in Responses

\* Which of its lists a rank uses when.
PhaseInv(r) ==
  /\ pc[r] # "done" => now[r] <= EndTick
  /\ pc[r] \in {"barrier", "begin", "done"} =>
       woken[r] = <<>> /\ notify[r] = <<>> /\ ending[r] = <<>> /\ departing[r] = <<>>
  /\ pc[r] = "notify" =>
       /\ ending[r] = <<>> /\ departing[r] = <<>> /\ arriving[r] = <<>>
       /\ RangeOf(notify[r]) \subseteq RangeOf(awake[r]) \cup RangeOf(woken[r])
  /\ pc[r] \in {"end", "panicked"} => woken[r] = <<>> /\ notify[r] = <<>> /\ arriving[r] = <<>>

Asleep(r) == {e.agent : e \in RangeOf(asleep[r])}
Awake(r) == RangeOf(awake[r])
Leaving(r) == RangeOf(woken[r]) \cup RangeOf(ending[r])
Between(r) == RangeOf(departing[r]) \cup RangeOf(arriving[r])

\* A, B, C, D and E have nothing in common and are S together.
Partition(S, A, B, C, D, E) ==
  /\ S = A \cup B \cup C \cup D \cup E
  /\ A \cap B = {} /\ A \cap C = {} /\ A \cap D = {} /\ A \cap E = {}
  /\ B \cap C = {} /\ B \cap D = {} /\ B \cap E = {}
  /\ C \cap D = {} /\ C \cap E = {} /\ D \cap E = {}

PlacesInv(r) ==
  /\ NoRepeats(AgentsOf(asleep[r])) /\ NoRepeats(awake[r]) /\ NoRepeats(woken[r])
  /\ NoRepeats(ending[r]) /\ NoRepeats(departing[r]) /\ NoRepeats(arriving[r])
  /\ Partition(AgentsAt(r), Asleep(r), Awake(r), Leaving(r), Between(r), onLeg[r])

\* What the agents in them are doing.
StatesInv(r) ==
  /\ \A e \in RangeOf(asleep[r]) : e.wake = WakeupTime(agent[e.agent])
  /\ \A a \in Asleep(r) \cup Awake(r) \cup Leaving(r) \cup RangeOf(departing[r]) :
       AtActivity(agent[a])
  /\ \A a \in Leaving(r) \cup RangeOf(departing[r]) : agent[a].end <= now[r]
  /\ \A a \in RangeOf(departing[r]) : agent[a].receiver = NoRequest
  /\ \A a \in onLeg[r] \cup RangeOf(arriving[r]) : OnTheWay(agent[a])

\* Nobody oversleeps.
TimesInv(r) ==
  /\ pc[r] \in {"barrier", "begin", "done"} =>
       /\ \A e \in RangeOf(asleep[r]) : e.wake >= now[r]
       /\ \A a \in Awake(r) : agent[a].end >= now[r]
  /\ pc[r] \in {"notify", "end"} => \A e \in RangeOf(asleep[r]) : e.wake > now[r]
  /\ pc[r] = "end" => \A a \in Awake(r) : agent[a].end > now[r]

\* Who is still to ask is still to be notified.
HasAsked(g) == Preplans(g) => g.receiver # NoRequest
AskedInv(r) ==
  /\ pc[r] \in {"barrier", "begin"} => \A a \in Awake(r) : HasAsked(agent[a])
  /\ pc[r] = "notify" =>
       \A a \in (Awake(r) \cup RangeOf(woken[r])) \ RangeOf(notify[r]) : HasAsked(agent[a])
  /\ pc[r] = "end" => \A a \in Awake(r) \cup RangeOf(ending[r]) : HasAsked(agent[a])

RankInv(r) == PhaseInv(r) /\ PlacesInv(r) /\ StatesInv(r) /\ TimesInv(r) /\ AskedInv(r)

DayInv ==
  /\ ListsInv /\ AnswersInv
  /\ \A a \in Agents : Follows(agent[a], Plan[a])
  /\ \A r \in Ranks : RankInv(r)

Lists(r) == <<now[r], asleep[r], awake[r], woken[r], notify[r], ending[r], departing[r],
              onLeg[r], arriving[r]>>

LEMMA AgentsAre ==
  ASSUME RequestInv
  PROVE  agent = [a \in Agents |-> agent[a]] /\ \A a \in Agents : IsAgent(agent[a])
  BY DEF RequestInv, IsAgent

\* What does not touch a rank and its agents.
LEMMA RankUntouched ==
  ASSUME NEW r, RankInv(r), UNCHANGED <<pc[r], Lists(r)>>,
         \A a \in AgentsAt(r) : agent'[a] = agent[a]
  PROVE  RankInv(r)'
PROOF
  <1>1. /\ pc'[r] = pc[r] /\ now'[r] = now[r] /\ asleep'[r] = asleep[r] /\ awake'[r] = awake[r]
        /\ woken'[r] = woken[r] /\ notify'[r] = notify[r] /\ ending'[r] = ending[r]
        /\ departing'[r] = departing[r] /\ onLeg'[r] = onLeg[r] /\ arriving'[r] = arriving[r]
    BY DEF Lists
  <1>2. /\ Asleep(r)' = Asleep(r) /\ Awake(r)' = Awake(r) /\ Leaving(r)' = Leaving(r)
        /\ Between(r)' = Between(r) /\ AgentsAt(r)' = AgentsAt(r)
    BY <1>1 DEF Asleep, Awake, Leaving, Between, AgentsAt
  <1>3. PhaseInv(r)'
    BY <1>1 DEF RankInv, PhaseInv
  <1>4. PlacesInv(r)'
    BY <1>1, <1>2 DEF RankInv, PlacesInv
  <1>5. /\ Asleep(r) \cup Awake(r) \cup Leaving(r) \cup Between(r) \cup onLeg[r] \subseteq AgentsAt(r)
        /\ RangeOf(departing[r]) \cup RangeOf(arriving[r]) \subseteq Between(r)
        /\ \A e \in RangeOf(asleep[r]) : e.agent \in Asleep(r)
        /\ RangeOf(ending[r]) \subseteq Leaving(r) /\ RangeOf(woken[r]) \subseteq Leaving(r)
    BY DEF RankInv, PlacesInv, Partition, Between, Asleep, Leaving
  <1> DEFINE S == AgentsAt(r)
  <1>6. StatesInv(r)'
    BY <1>1, <1>2, <1>5 DEF RankInv, StatesInv
  <1>7. TimesInv(r)'
    BY <1>1, <1>2, <1>5 DEF RankInv, TimesInv
  <1>8. AskedInv(r)'
    BY <1>1, <1>2, <1>5 DEF RankInv, AskedInv
  <1> QED BY <1>3, <1>4, <1>6, <1>7, <1>8 DEF RankInv

\* A rank changes its own lists and agents only.
LEMMA RankAlone ==
  ASSUME DayInv, NEW r \in Ranks, RankNext(r), ChannelInv,
         \A a \in Agents : a \notin AgentsAt(r) => agent'[a] = agent[a],
         ListsInv', AnswersInv', \A a \in Agents : Follows(agent'[a], Plan[a]), RankInv(r)'
  PROVE  DayInv'
PROOF
  <1>1. ASSUME NEW s \in Ranks, s # r PROVE RankInv(s)'
    <2>1. UNCHANGED <<pc[s], Lists(s)>>
      <3>1. pc'[s] = pc[s]
        BY <1>1, RankKeeps
      <3>2. UNCHANGED Lists(s)
        <4>1. CASE BeginTick(r)
          BY <1>1, <4>1 DEF BeginTick, Lists
        <4>2. CASE NotifyWakeup(r)
          BY <1>1, <4>2 DEF NotifyWakeup, Lists
        <4>3. CASE EndActivities(r)
          BY <1>1, <4>3 DEF EndActivities, Lists
        <4>4. CASE NotifyEnd(r)
          BY <1>1, <4>4 DEF NotifyEnd, Lists
        <4>5. CASE ReceivePanics(r)
          BY <1>1, <4>5 DEF ReceivePanics, engineVars, Lists
        <4>6. CASE LegStep(r)
          BY <1>1, <4>6 DEF LegStep, Lists
        <4> QED BY <4>1, <4>2, <4>3, <4>4, <4>5, <4>6 DEF RankNext
      <3> QED BY <3>1, <3>2
    <2>2. \A a \in AgentsAt(s) : a \in Agents /\ a \notin AgentsAt(r)
      BY <1>1 DEF AgentsAt
    <2> QED BY <2>1, <2>2, RankUntouched DEF DayInv
  <1> QED BY <1>1 DEF DayInv

-----------------------------------------------------------------------------
(* The steps preserve DayInv.                                               *)

\* What a rank's invariant says of its lists.
LEMMA RankFacts ==
  ASSUME DayInv, NEW r \in Ranks
  PROVE  /\ PhaseInv(r) /\ PlacesInv(r) /\ StatesInv(r) /\ TimesInv(r) /\ AskedInv(r)
         /\ now[r] \in Nat /\ asleep[r] \in Seq(Entries) /\ awake[r] \in Seq(Agents)
         /\ woken[r] \in Seq(Agents) /\ notify[r] \in Seq(Agents) /\ ending[r] \in Seq(Agents)
         /\ departing[r] \in Seq(Agents) /\ onLeg[r] \subseteq Agents /\ arriving[r] \in Seq(Agents)
  BY DEF DayInv, ListsInv, RankInv

LEMMA DayReceivePanics ==
  ASSUME DayInv, ChannelInv, NEW r \in Ranks, ReceivePanics(r)
  PROVE  DayInv'
PROOF
  <1>1. /\ pc[r] = "end" /\ pc' = [pc EXCEPT ![r] = "panicked"]
        /\ UNCHANGED <<now, agent, asleep, awake, woken, notify, ending, departing, onLeg, arriving,
                       chan, tasks, replies>>
    BY DEF ReceivePanics, engineVars, adapterVars
  <1>2. ListsInv' /\ pc'[r] = "panicked"
    BY <1>1 DEF DayInv, ListsInv
  <1>3. AnswersInv'
    BY <1>1 DEF DayInv, AnswersInv
  <1>4. PhaseInv(r)'
    BY <1>1, <1>2, RankFacts DEF PhaseInv
  <1>5. PlacesInv(r)'
    <2>1. /\ Asleep(r)' = Asleep(r) /\ Awake(r)' = Awake(r) /\ Leaving(r)' = Leaving(r)
          /\ Between(r)' = Between(r) /\ AgentsAt(r)' = AgentsAt(r)
      BY <1>1 DEF Asleep, Awake, Leaving, Between, AgentsAt
    <2> QED BY <1>1, <2>1, RankFacts DEF PlacesInv
  <1>6. StatesInv(r)'
    BY <1>1, RankFacts DEF StatesInv, Asleep, Awake, Leaving
  <1>7. TimesInv(r)' /\ AskedInv(r)'
    BY <1>2 DEF TimesInv, AskedInv
  <1>8. \A a \in Agents : Follows(agent'[a], Plan[a])
    BY <1>1 DEF DayInv
  <1>9. RankNext(r)
    BY DEF RankNext
  <1> QED BY <1>1, <1>2, <1>3, <1>4, <1>5, <1>6, <1>7, <1>8, <1>9, RankAlone DEF RankInv

LEMMA DayEndActivities ==
  ASSUME DayInv, ChannelInv, NEW r \in Ranks, EndActivities(r)
  PROVE  DayInv'
PROOF
  <1> DEFINE s == ScanEnded(awake[r], now[r], Len(awake[r]))
             t == now[r]
             q == s.q
             o == s.over
             w == woken[r]
  <1>1. /\ pc[r] = "notify" /\ notify[r] = <<>>
        /\ awake' = [awake EXCEPT ![r] = q] /\ ending' = [ending EXCEPT ![r] = w \o o]
        /\ woken' = [woken EXCEPT ![r] = <<>>] /\ pc' = [pc EXCEPT ![r] = "end"]
        /\ UNCHANGED <<now, agent, asleep, notify, departing, onLeg, arriving, chan, tasks, replies>>
    BY DEF EndActivities, adapterVars
  <1>a. /\ PhaseInv(r) /\ PlacesInv(r) /\ StatesInv(r) /\ TimesInv(r) /\ AskedInv(r)
        /\ t \in Nat /\ awake[r] \in Seq(Agents) /\ w \in Seq(Agents)
    BY RankFacts
  <1>2. \A a \in Awake(r) : agent[a].end \in Int
    BY <1>a, NeverAssumption DEF StatesInv, AtActivity, Times
  <1>3. /\ q \in Seq(Agents) /\ NoRepeats(q) /\ o \in Seq(Agents) /\ NoRepeats(o)
        /\ RangeOf(q) \cap RangeOf(o) = {} /\ RangeOf(q) \cup RangeOf(o) = RangeOf(awake[r])
        /\ \A a \in RangeOf(o) : agent[a].end <= t
        /\ \A a \in RangeOf(q) : agent[a].end > t
    <2> DEFINE x == awake[r]
    <2>1. /\ x \in Seq(Agents) /\ NoRepeats(x) /\ \A a \in RangeOf(x) : agent[a].end \in Int
          /\ t \in Int
      BY <1>a, <1>2 DEF PlacesInv, Awake
    <2> HIDE DEF x, t
    <2>2. Divided(ScanEnded(x, t, Len(x)), x, t)
      BY <2>1, ScanEndedIs
    <2> QED BY <2>2 DEF x, t, Divided
  <1> HIDE DEF s, t, q, o, w
  <1>4. /\ w \o o \in Seq(Agents) /\ RangeOf(w \o o) = RangeOf(w) \cup RangeOf(o)
        /\ NoRepeats(w \o o) <=> NoRepeats(w) /\ NoRepeats(o) /\ RangeOf(w) \cap RangeOf(o) = {}
    BY <1>a, <1>3, RangeOfCat
  <1>5. /\ pc'[r] = "end" /\ awake'[r] = q /\ ending'[r] = w \o o /\ woken'[r] = <<>>
        /\ <<>> \in Seq(Agents)
    BY <1>1 DEF DayInv, ListsInv
  <1>6. ListsInv'
    BY <1>1, <1>3, <1>4, <1>5 DEF DayInv, ListsInv
  <1>7. AnswersInv'
    BY <1>1 DEF DayInv, AnswersInv
  <1>8. /\ ending[r] = <<>> /\ departing[r] = <<>> /\ arriving[r] = <<>> /\ now[r] <= EndTick
    BY <1>1, <1>a DEF PhaseInv
  <1>9. PhaseInv(r)'
    BY <1>1, <1>5, <1>8 DEF PhaseInv
  <1>10. /\ Asleep(r)' = Asleep(r) /\ Awake(r)' = RangeOf(q)
         /\ Leaving(r)' = Leaving(r) \cup RangeOf(o) /\ Leaving(r) = RangeOf(w)
         /\ Between(r)' = Between(r) /\ AgentsAt(r)' = AgentsAt(r)
         /\ Awake(r) = RangeOf(q) \cup RangeOf(o)
    BY <1>1, <1>3, <1>4, <1>5, <1>8, RangeOfEmpty
       DEF Asleep, Awake, Leaving, Between, AgentsAt, w
  <1>11. Partition(AgentsAt(r), Asleep(r), Awake(r), Leaving(r), Between(r), onLeg[r])
         /\ NoRepeats(w)
    BY <1>a DEF PlacesInv, w
  <1>12. PlacesInv(r)'
    <2>1. Partition(AgentsAt(r), Asleep(r), Awake(r), Leaving(r), Between(r), onLeg[r])'
      BY <1>1, <1>3, <1>10, <1>11 DEF Partition
    <2>2. NoRepeats(w \o o)
      BY <1>3, <1>4, <1>10, <1>11 DEF Partition
    <2> QED BY <1>1, <1>3, <1>5, <1>a, <2>1, <2>2, RangeOfEmpty DEF PlacesInv
  <1>13. StatesInv(r)'
    BY <1>1, <1>3, <1>a, <1>10 DEF StatesInv, t
  <1>14. TimesInv(r)'
    BY <1>1, <1>3, <1>5, <1>a, <1>10 DEF TimesInv, t
  <1>15. AskedInv(r)'
    <2>1. RangeOf(notify[r]) = {}
      BY <1>1, RangeOfEmpty
    <2>2. \A a \in Awake(r) \cup RangeOf(w) : HasAsked(agent[a])
      BY <1>1, <1>a, <2>1 DEF AskedInv, w
    <2>3. RangeOf(ending'[r]) = RangeOf(w) \cup RangeOf(o)
      BY <1>4, <1>5
    <2> QED BY <1>1, <1>5, <1>10, <2>2, <2>3 DEF AskedInv
  <1>16. \A a \in Agents : Follows(agent'[a], Plan[a])
    BY <1>1 DEF DayInv
  <1>17. RankNext(r)
    BY DEF RankNext
  <1> QED BY <1>1, <1>6, <1>7, <1>9, <1>12, <1>13, <1>14, <1>15, <1>16, <1>17, RankAlone DEF RankInv

\* When an agent wakes up and what it asks for depends on its place in the plan.
LEMMA SamePlace ==
  ASSUME NEW g, NEW h, h.plan = g.plan, h.elem = g.elem, h.end = g.end
  PROVE  /\ WakeupTime(h) = WakeupTime(g)
         /\ AtActivity(h) <=> AtActivity(g)
         /\ Preplans(h) <=> Preplans(g)
  BY DEF WakeupTime, AtActivity, Preplans, NextLegExists, CurrElement

\* The agent that is told asks if it has to; the others do nothing.
LEMMA AskingIs ==
  ASSUME DayInv, RequestInv, NEW r \in Ranks, NotifyWakeup(r)
  PROVE  LET a == Head(notify[r]) IN
           /\ a \in Agents /\ a \in Awake(r) \cup RangeOf(woken[r])
           /\ \A b \in Agents : b # a => agent'[b] = agent[b]
           /\ agent'[a].plan = agent[a].plan /\ agent'[a].elem = agent[a].elem
           /\ agent'[a].end = agent[a].end
           /\ Follows(agent'[a], Plan[a]) /\ HasAsked(agent'[a])
           /\ \/ UNCHANGED <<chan, tasks, replies>>
              \/ \E q : q # NoRequest /\ chan' = Append(chan, q) /\ UNCHANGED <<tasks, replies>>
PROOF
  <1> DEFINE a == Head(notify[r])
             g == agent[a]
  <1>1. pc[r] = "notify" /\ notify[r] # <<>>
    BY DEF NotifyWakeup
  <1>2. a \in Agents /\ a \in Awake(r) \cup RangeOf(woken[r])
    <2>1. notify[r] \in Seq(Agents) /\ RangeOf(notify[r]) \subseteq Awake(r) \cup RangeOf(woken[r])
      BY <1>1, RankFacts DEF PhaseInv, Awake
    <2>2. a \in Agents /\ a \in RangeOf(notify[r])
      BY <1>1, <2>1, RangeOfTail
    <2> QED BY <2>1, <2>2
  <1>3. AtActivity(g) /\ Follows(g, Plan[a]) /\ IsAgent(g)
    <2>1. a \in Awake(r) \cup Leaving(r)
      BY <1>2 DEF Leaving
    <2> QED BY <1>2, <2>1, RankFacts, AgentsAre DEF StatesInv, DayInv
  <1>4. CASE ~MustAsk(g) /\ UNCHANGED <<agent, adapterVars>>
    <2>1. HasAsked(g)
      BY <1>4 DEF MustAsk, HasAsked
    <2> QED BY <1>2, <1>3, <1>4, <2>1 DEF adapterVars
  <1>5. ASSUME NEW departure, MustAsk(g), SendRequest(RequestOf(a, departure, now[r])),
               agent' = [agent EXCEPT ![a].receiver = RequestOf(a, departure, now[r]),
                                      ![a].asked = @ + 1]
        PROVE  /\ \A b \in Agents : b # a => agent'[b] = agent[b]
               /\ agent'[a].plan = g.plan /\ agent'[a].elem = g.elem /\ agent'[a].end = g.end
               /\ Follows(agent'[a], Plan[a]) /\ HasAsked(agent'[a])
               /\ \E q : q # NoRequest /\ chan' = Append(chan, q) /\ UNCHANGED <<tasks, replies>>
    <2> DEFINE q == RequestOf(a, departure, now[r])
               h == agent'[a]
               span == FindTripSpan(g.plan, g.elem)
    <2>1. q.from = g.plan[span.origin].name /\ q.to = g.plan[span.destination].name /\ q # NoRequest
      BY DEF RequestOf, NoRequest
    <2> HIDE DEF q, NoRequest
    <2>2. chan' = Append(chan, q) /\ UNCHANGED <<tasks, replies>>
      BY <1>5 DEF SendRequest, q
    <2>3. h = [g EXCEPT !.receiver = q, !.asked = @ + 1] /\ \A b \in Agents : b # a => agent'[b] = agent[b]
      BY <1>2, <1>5, AgentsAre DEF q
    <2>4. h = [plan |-> g.plan, elem |-> g.elem, end |-> g.end, receiver |-> q, asked |-> g.asked + 1]
      BY <1>3, <2>3 DEF IsAgent
    <2>5. h.plan = g.plan /\ h.elem = g.elem /\ h.end = g.end /\ h.receiver = q
      BY <2>4
    <2> HIDE DEF h, g
    <2>6. Preplans(g)
      BY <1>5 DEF MustAsk, g
    <2>7. g.elem < Len(g.plan) /\ IsMain(g.plan[g.elem]) /\ IsPlan(g.plan) /\ g.elem \in 1..Len(g.plan)
      BY <1>3, <2>6, PreplansIs DEF Follows
    <2>8. span.origin = g.elem
      BY <2>7, SpanStartsHere
    <2>9. Follows(h, Plan[a])
      BY <1>3, <2>1, <2>5, <2>7, <2>8 DEF Follows, AsksForNext
    <2>10. HasAsked(h)
      BY <2>1, <2>5 DEF HasAsked
    <2>11. \E x : x # NoRequest /\ chan' = Append(chan, x) /\ UNCHANGED <<tasks, replies>>
      BY <2>1, <2>2
    <2> QED BY <2>3, <2>5, <2>9, <2>10, <2>11 DEF h, g
  <1>6. \E departure :
          \/ ~MustAsk(g) /\ UNCHANGED <<agent, adapterVars>>
          \/ /\ MustAsk(g) /\ SendRequest(RequestOf(a, departure, now[r]))
             /\ agent' = [agent EXCEPT ![a].receiver = RequestOf(a, departure, now[r]),
                                       ![a].asked = @ + 1]
    BY Zenon DEF NotifyWakeup
  <1> QED BY <1>2, <1>4, <1>5, <1>6

LEMMA DayNotifyWakeup ==
  ASSUME DayInv, RequestInv, ChannelInv, NEW r \in Ranks, NotifyWakeup(r)
  PROVE  DayInv'
PROOF
  <1> DEFINE a == Head(notify[r])
  <1>1. /\ pc[r] = "notify" /\ notify[r] # <<>> /\ notify' = [notify EXCEPT ![r] = Tail(@)]
        /\ UNCHANGED <<pc, now, asleep, awake, woken, ending, departing, onLeg, arriving>>
    BY DEF NotifyWakeup
  <1>2. /\ a \in Agents /\ a \in Awake(r) \cup RangeOf(woken[r])
        /\ \A b \in Agents : b # a => agent'[b] = agent[b]
        /\ agent'[a].plan = agent[a].plan /\ agent'[a].elem = agent[a].elem
        /\ agent'[a].end = agent[a].end
        /\ Follows(agent'[a], Plan[a]) /\ HasAsked(agent'[a])
        /\ \/ UNCHANGED <<chan, tasks, replies>>
           \/ \E q : q # NoRequest /\ chan' = Append(chan, q) /\ UNCHANGED <<tasks, replies>>
    BY AskingIs
  <1>a. /\ PhaseInv(r) /\ PlacesInv(r) /\ StatesInv(r) /\ TimesInv(r) /\ AskedInv(r)
        /\ notify[r] \in Seq(Agents)
    BY RankFacts
  <1>3. /\ Tail(notify[r]) \in Seq(Agents)
        /\ RangeOf(notify[r]) = {a} \cup RangeOf(Tail(notify[r]))
    BY <1>1, <1>a, RangeOfTail
  <1> HIDE DEF a
  <1>4. notify'[r] = Tail(notify[r])
    BY <1>1 DEF DayInv, ListsInv
  <1>5. ListsInv'
    BY <1>1, <1>3 DEF DayInv, ListsInv
  <1>6. AnswersInv'
    <2>1. \A q : chan' = Append(chan, q) => RangeOf(chan') = RangeOf(chan) \cup {q}
      <3> SUFFICES ASSUME NEW q, chan' = Append(chan, q) PROVE RangeOf(chan') = RangeOf(chan) \cup {q}
        OBVIOUS
      <3> DEFINE E == RangeOf(chan) \cup {q}
      <3>1. chan \in Seq(RangeOf(chan)) /\ Len(chan) \in Nat
        BY DEF RequestInv, IsSequence, RangeOf
      <3>2. \A i \in 1..Len(chan) : chan[i] \in E
        BY DEF RangeOf
      <3>3. chan \in Seq(E) /\ q \in E
        <4>1. chan = [i \in 1..Len(chan) |-> chan[i]]
          BY <3>1
        <4> HIDE DEF E
        <4> QED BY <3>1, <3>2, <4>1 DEF E
      <3> HIDE DEF E
      <3> QED BY <3>3, RangeOfAppend
    <2> QED BY <1>2, <2>1 DEF DayInv, AnswersInv
  <1>7. \A b \in Agents : /\ agent'[b].plan = agent[b].plan /\ agent'[b].elem = agent[b].elem
                          /\ agent'[b].end = agent[b].end
                          /\ HasAsked(agent[b]) => HasAsked(agent'[b])
    BY <1>2
  <1>8. \A b \in Agents : /\ WakeupTime(agent'[b]) = WakeupTime(agent[b])
                          /\ AtActivity(agent'[b]) <=> AtActivity(agent[b])
    BY <1>7, SamePlace
  <1>9. \A b \in AgentsAt(r) : b \in Agents
    BY DEF AgentsAt
  <1>10. /\ Asleep(r)' = Asleep(r) /\ Awake(r)' = Awake(r) /\ Leaving(r)' = Leaving(r)
         /\ Between(r)' = Between(r) /\ AgentsAt(r)' = AgentsAt(r)
    BY <1>1 DEF Asleep, Awake, Leaving, Between, AgentsAt
  <1>11. Partition(AgentsAt(r), Asleep(r), Awake(r), Leaving(r), Between(r), onLeg[r])
    BY <1>a DEF PlacesInv
  <1>12. PhaseInv(r)'
    BY <1>1, <1>3, <1>4, <1>a DEF PhaseInv
  <1>13. PlacesInv(r)'
    BY <1>1, <1>a, <1>10 DEF PlacesInv
  <1>14. StatesInv(r)'
    <2>1. /\ \A e \in RangeOf(asleep[r]) : e.agent \in Agents
          /\ Asleep(r) \cup Awake(r) \cup Leaving(r) \subseteq Agents
      BY <1>9, <1>11 DEF Partition, Asleep
    <2>2. RangeOf(departing[r]) = {} /\ RangeOf(arriving[r]) = {}
      BY <1>1, <1>a, RangeOfEmpty DEF PhaseInv
    <2>3. \A b \in onLeg[r] : b \in Agents /\ b # a
      BY <1>2, <1>9, <1>11 DEF Partition, Leaving
    <2> QED BY <1>1, <1>2, <1>7, <1>8, <1>10, <1>a, <2>1, <2>2, <2>3 DEF StatesInv
  <1>15. TimesInv(r)'
    BY <1>1, <1>a DEF TimesInv
  <1>16. AskedInv(r)'
    <2>1. \A b \in Awake(r) \cup RangeOf(woken[r]) : b \in Agents
      BY <1>9, <1>11 DEF Partition, Leaving
    <2>2. \A b \in (Awake(r) \cup RangeOf(woken[r])) \ RangeOf(notify'[r]) : HasAsked(agent'[b])
      BY <1>1, <1>2, <1>3, <1>4, <1>7, <1>a, <2>1 DEF AskedInv
    <2> QED BY <1>1, <1>10, <2>2 DEF AskedInv
  <1>17. \A b \in Agents : Follows(agent'[b], Plan[b])
    BY <1>2 DEF DayInv
  <1>18. \A b \in Agents : b \notin AgentsAt(r) => agent'[b] = agent[b]
    <2>1. a \in AgentsAt(r)
      BY <1>2, <1>11 DEF Partition, Leaving
    <2> QED BY <1>2, <2>1
  <1>19. RankNext(r)
    BY DEF RankNext
  <1> QED BY <1>5, <1>6, <1>12, <1>13, <1>14, <1>15, <1>16, <1>17, <1>18, <1>19, RankAlone
          DEF RankInv

\* An answer changes the plan behind the place the agent is at.
LEMMA AnsweringIs ==
  ASSUME DayInv, RequestInv, NEW r \in Ranks, NotifyEnd(r)
  PROVE  LET a == Head(ending[r]) IN
           /\ a \in Agents /\ a \in RangeOf(ending[r])
           /\ \A b \in Agents : b # a => agent'[b] = agent[b]
           /\ agent'[a].receiver = NoRequest /\ agent'[a].end = agent[a].end
           /\ AtActivity(agent'[a]) /\ Follows(agent'[a], Plan[a])
           /\ replies' \subseteq replies
PROOF
  <1> DEFINE a == Head(ending[r])
             g == agent[a]
  <1>1. a \in Agents /\ a \in RangeOf(ending[r])
    <2>1. ending[r] \in Seq(Agents) /\ ending[r] # <<>>
      BY RankFacts DEF NotifyEnd
    <2> QED BY <2>1, RangeOfTail
  <1>2. AtActivity(g) /\ Follows(g, Plan[a]) /\ IsAgent(g)
    <2>1. a \in Leaving(r)
      BY <1>1 DEF Leaving
    <2> QED BY <1>1, <2>1, RankFacts, AgentsAre DEF StatesInv, DayInv
  <1>3. CASE g.receiver = NoRequest /\ UNCHANGED <<agent, replies>>
    BY <1>1, <1>2, <1>3
  <1>4. ASSUME NEW m \in replies, m.req = g.receiver, replies' = replies \ {m},
               agent' = [agent EXCEPT ![a].plan = ReplaceNextTrip(g, m.elements),
                                      ![a].receiver = NoRequest]
        PROVE  /\ \A b \in Agents : b # a => agent'[b] = agent[b]
               /\ agent'[a].receiver = NoRequest /\ agent'[a].end = g.end
               /\ AtActivity(agent'[a]) /\ Follows(agent'[a], Plan[a])
    <2> DEFINE h == agent'[a]
               p == ReplaceNextTrip(g, m.elements)
    <2>1. AsksForNext(g) /\ m.elements \in Responses
      BY <1>2, <1>4 DEF DayInv, AnswersInv, Follows
    <2> HIDE DEF p, NoRequest
    <2>2. h = [g EXCEPT !.plan = p, !.receiver = NoRequest] /\ \A b \in Agents : b # a => agent'[b] = agent[b]
      BY <1>1, <1>4, AgentsAre DEF p
    <2>3. h = [plan |-> p, elem |-> g.elem, end |-> g.end, receiver |-> NoRequest, asked |-> g.asked]
      BY <1>2, <2>2 DEF IsAgent
    <2>4. h.plan = p /\ h.elem = g.elem /\ h.end = g.end /\ h.receiver = NoRequest
      BY <2>3
    <2> HIDE DEF h, g
    <2>5. /\ IsPlan(g.plan) /\ Those(g.plan, MainElements) = Those(Plan[a], MainElements)
          /\ g.elem \in 1..Len(g.plan) /\ g.elem < Len(g.plan) /\ IsMain(g.plan[g.elem])
      BY <1>2, <2>1 DEF Follows, AsksForNext
    <2>6. /\ IsPlan(p) /\ Those(p, MainElements) = Those(g.plan, MainElements)
          /\ g.elem \in 1..Len(p) /\ g.elem # Len(p)
      <3>1. CASE m.elements = <<>>
        <4>1. p = g.plan
          BY <3>1 DEF ReplaceNextTrip, p
        <4>2. Len(g.plan) \in Nat
          BY <2>5, PlanElements
        <4> QED BY <2>5, <4>1, <4>2
      <3>2. CASE m.elements # <<>>
        <4>1. IsTrip(m.elements)
          BY <2>1, <3>2, PreplanAssumption
        <4>2. p = ReplaceTripElements(g.plan, FindTripSpan(g.plan, g.elem), m.elements)
          BY <3>2, Zenon DEF ReplaceNextTrip, p
        <4> QED BY <2>5, <4>1, <4>2, ReplaceTripIs
      <3> QED BY <3>1, <3>2
    <2>7. AtActivity(h)
      BY <1>2, <2>4, <2>6 DEF AtActivity
    <2>8. Follows(h, Plan[a])
      BY <2>4, <2>5, <2>6 DEF Follows
    <2> QED BY <2>2, <2>4, <2>7, <2>8 DEF h
  <1>5. PICK b \in Agents :
          /\ b = a
          /\ \/ agent[b].receiver = NoRequest /\ UNCHANGED <<agent, replies>>
             \/ \E m \in replies :
                  /\ m.req = agent[b].receiver
                  /\ agent' = [agent EXCEPT ![b].plan = ReplaceNextTrip(agent[b], m.elements),
                                            ![b].receiver = NoRequest]
                  /\ replies' = replies \ {m}
    BY Zenon DEF NotifyEnd
  <1>6. \/ g.receiver = NoRequest /\ UNCHANGED <<agent, replies>>
        \/ \E m \in replies :
             /\ m.req = g.receiver
             /\ agent' = [agent EXCEPT ![a].plan = ReplaceNextTrip(g, m.elements),
                                       ![a].receiver = NoRequest]
             /\ replies' = replies \ {m}
    BY <1>5, Zenon
  <1> HIDE DEF g, NoRequest
  <1>7. replies' \subseteq replies
    BY <1>6
  <1> QED BY <1>1, <1>3, <1>4, <1>6, <1>7 DEF g

LEMMA DayNotifyEnd ==
  ASSUME DayInv, RequestInv, ChannelInv, NEW r \in Ranks, NotifyEnd(r)
  PROVE  DayInv'
PROOF
  <1> DEFINE a == Head(ending[r])
  <1>1. /\ pc[r] = "end" /\ ending[r] # <<>> /\ ending' = [ending EXCEPT ![r] = Tail(@)]
        /\ departing' = [departing EXCEPT ![r] = Append(@, a)]
        /\ UNCHANGED <<pc, now, asleep, awake, woken, notify, onLeg, arriving, chan, tasks>>
    BY DEF NotifyEnd
  <1>2. /\ a \in Agents /\ a \in RangeOf(ending[r])
        /\ \A b \in Agents : b # a => agent'[b] = agent[b]
        /\ agent'[a].receiver = NoRequest /\ agent'[a].end = agent[a].end
        /\ AtActivity(agent'[a]) /\ Follows(agent'[a], Plan[a])
        /\ replies' \subseteq replies
    BY AnsweringIs
  <1>a. /\ PhaseInv(r) /\ PlacesInv(r) /\ StatesInv(r) /\ TimesInv(r) /\ AskedInv(r)
        /\ ending[r] \in Seq(Agents) /\ departing[r] \in Seq(Agents)
    BY RankFacts
  <1> DEFINE e == Tail(ending[r])
             d == Append(departing[r], a)
  <1>3. /\ e \in Seq(Agents) /\ RangeOf(ending[r]) = {a} \cup RangeOf(e)
        /\ NoRepeats(e) /\ a \notin RangeOf(e)
    BY <1>1, <1>a, RangeOfTail DEF PlacesInv
  <1>4. Partition(AgentsAt(r), Asleep(r), Awake(r), Leaving(r), Between(r), onLeg[r])
    BY <1>a DEF PlacesInv
  <1>5. a \in Leaving(r) /\ a \notin RangeOf(departing[r])
    BY <1>2, <1>4 DEF Partition, Leaving, Between
  <1>6. d \in Seq(Agents) /\ RangeOf(d) = RangeOf(departing[r]) \cup {a} /\ NoRepeats(d)
    BY <1>2, <1>5, <1>a, RangeOfAppend DEF PlacesInv
  <1>7. ending'[r] = e /\ departing'[r] = d
    BY <1>1 DEF DayInv, ListsInv
  <1>8. ListsInv'
    BY <1>1, <1>3, <1>6 DEF DayInv, ListsInv
  <1>9. AnswersInv'
    BY <1>1, <1>2 DEF DayInv, AnswersInv
  <1> HIDE DEF a, d, e
  <1>10. woken[r] = <<>> /\ notify[r] = <<>> /\ arriving[r] = <<>> /\ now[r] <= EndTick
    BY <1>1, <1>a DEF PhaseInv
  <1>11. /\ Asleep(r)' = Asleep(r) /\ Awake(r)' = Awake(r) /\ AgentsAt(r)' = AgentsAt(r)
         /\ Leaving(r)' = RangeOf(e) /\ Leaving(r) = {a} \cup RangeOf(e)
         /\ Between(r)' = Between(r) \cup {a} /\ Between(r) = RangeOf(departing[r])
    BY <1>1, <1>3, <1>6, <1>7, <1>10, RangeOfEmpty DEF Asleep, Awake, Leaving, Between, AgentsAt
  <1>12. PhaseInv(r)'
    BY <1>1, <1>10 DEF PhaseInv
  <1>13. PlacesInv(r)'
    <2>1. Partition(AgentsAt(r), Asleep(r), Awake(r), Leaving(r), Between(r), onLeg[r])'
      BY <1>1, <1>3, <1>4, <1>11 DEF Partition
    <2> QED BY <1>1, <1>3, <1>6, <1>7, <1>a, <2>1 DEF PlacesInv
  <1>14. \A b \in AgentsAt(r) : b \in Agents
    BY DEF AgentsAt
  <1>15. /\ \A x \in RangeOf(asleep[r]) : x.agent \in Agents /\ x.agent # a
         /\ \A b \in Awake(r) \cup RangeOf(e) \cup RangeOf(departing[r]) \cup onLeg[r] :
              b \in Agents /\ b # a
    <2>1. \A x \in RangeOf(asleep[r]) : x.agent \in Asleep(r)
      BY DEF Asleep
    <2> QED BY <1>3, <1>4, <1>11, <1>14, <2>1 DEF Partition
  <1>16. StatesInv(r)'
    <2>1. \A b \in Asleep(r) : b \in Agents /\ b # a
      BY <1>15 DEF Asleep
    <2>2. /\ \A b \in Asleep(r) \cup Awake(r) \cup RangeOf(e) \cup RangeOf(d) : AtActivity(agent'[b])
      BY <1>2, <1>6, <1>11, <1>15, <1>a, <2>1 DEF StatesInv
    <2>3. \A x \in RangeOf(asleep[r]) : x.wake = WakeupTime(agent'[x.agent])
      BY <1>2, <1>15, <1>a DEF StatesInv
    <2>4. \A b \in RangeOf(e) \cup RangeOf(d) : agent'[b].end <= now[r]
      BY <1>2, <1>5, <1>6, <1>11, <1>15, <1>a DEF StatesInv
    <2>5. \A b \in RangeOf(d) : agent'[b].receiver = NoRequest
      BY <1>2, <1>6, <1>15, <1>a DEF StatesInv
    <2>6. \A b \in onLeg[r] \cup RangeOf(arriving[r]) : OnTheWay(agent'[b])
      BY <1>2, <1>10, <1>15, <1>a, RangeOfEmpty DEF StatesInv
    <2> QED BY <1>1, <1>7, <1>11, <2>2, <2>3, <2>4, <2>5, <2>6 DEF StatesInv
  <1>17. TimesInv(r)'
    BY <1>1, <1>2, <1>11, <1>15, <1>a DEF TimesInv
  <1>18. AskedInv(r)'
    <2>1. \A b \in Awake(r) \cup RangeOf(e) : HasAsked(agent'[b])
      BY <1>1, <1>2, <1>3, <1>15, <1>a DEF AskedInv
    <2> QED BY <1>1, <1>7, <1>11, <2>1 DEF AskedInv
  <1>19. \A b \in Agents : Follows(agent'[b], Plan[b])
    BY <1>2 DEF DayInv
  <1>20. \A b \in Agents : b \notin AgentsAt(r) => agent'[b] = agent[b]
    BY <1>2, <1>4, <1>5 DEF Partition
  <1>21. RankNext(r)
    BY DEF RankNext
  <1> QED BY <1>8, <1>9, <1>12, <1>13, <1>16, <1>17, <1>18, <1>19, <1>20, <1>21, RankAlone
          DEF RankInv

\* An agent that drops the receiver of an answer stays where it is.
LEMMA DroppingReceiver ==
  ASSUME NEW g, NEW p, IsAgent(g)
  PROVE  LET h == [g EXCEPT !.receiver = NoRequest] IN
           /\ h.plan = g.plan /\ h.elem = g.elem /\ h.end = g.end /\ h.receiver = NoRequest
           /\ Follows(g, p) => Follows(h, p)
           /\ OnTheWay(g) => OnTheWay(h)
PROOF
  <1> DEFINE h == [g EXCEPT !.receiver = NoRequest]
  <1> HIDE DEF NoRequest
  <1>1. h = [plan |-> g.plan, elem |-> g.elem, end |-> g.end, receiver |-> NoRequest, asked |-> g.asked]
    BY DEF IsAgent
  <1>2. h.plan = g.plan /\ h.elem = g.elem /\ h.end = g.end /\ h.receiver = NoRequest
    BY <1>1
  <1> HIDE DEF h
  <1>3. Follows(g, p) => Follows(h, p)
    BY <1>2 DEF Follows
  <1>4. OnTheWay(g) => OnTheWay(h)
    BY <1>2 DEF OnTheWay
  <1> QED BY <1>2, <1>3, <1>4 DEF h

\* Who departs goes on to a leg; the others stay as they are, but after the last tick
\* nobody waits for an answer any more.
LEMMA LeavingIs ==
  ASSUME DayInv, RequestInv, NEW r \in Ranks, LegStep(r)
  PROVE  /\ \A a \in RangeOf(departing[r]) : OnTheWay(agent'[a]) /\ Follows(agent'[a], Plan[a])
         /\ \A a \in Agents \ RangeOf(departing[r]) :
              /\ agent'[a].plan = agent[a].plan /\ agent'[a].elem = agent[a].elem
              /\ agent'[a].end = agent[a].end /\ Follows(agent'[a], Plan[a])
              /\ OnTheWay(agent[a]) => OnTheWay(agent'[a])
              /\ a \notin AgentsAt(r) \/ now[r] # EndTick => agent'[a] = agent[a]
PROOF
  <1> DEFINE left == RangeOf(departing[r])
             t == now[r]
             last == t = EndTick
             G(a) == IF a \in left THEN AdvancePlan(agent[a], t) ELSE agent[a]
  <1>1. agent' = [a \in Agents |-> IF last /\ Home[a] = r
                                     THEN [G(a) EXCEPT !.receiver = NoRequest] ELSE G(a)]
    BY Zenon DEF LegStep, RangeOf
  <1>a. /\ PhaseInv(r) /\ PlacesInv(r) /\ StatesInv(r) /\ t \in Nat /\ left \subseteq Agents
        /\ pc[r] = "end"
    BY RankFacts, RangeOfIn DEF LegStep
  <1>2. t \in 0..EndTick
    BY <1>a, PreplanAssumption DEF PhaseInv
  <1>3. ASSUME NEW a \in left
        PROVE  OnTheWay(agent'[a]) /\ Follows(agent'[a], Plan[a])
    <2> DEFINE g == agent[a]
               h == AdvancePlan(g, t)
    <2>1. /\ IsAgent(g) /\ Follows(g, Plan[a]) /\ AtActivity(g) /\ g.receiver = NoRequest
          /\ g.end <= t /\ a \in Agents
      BY <1>a, AgentsAre DEF StatesInv, DayInv
    <2>2. g.elem # Len(g.plan)
      <3>1. g.end \in Int /\ EndTick \in Int
        BY <2>1, NeverAssumption, PreplanAssumption DEF AtActivity, Times
      <3> HIDE DEF t, g
      <3> QED BY <1>2, <2>1, <3>1 DEF AtActivity
    <2>3. IsAgent(h) /\ Follows(h, Plan[a]) /\ OnTheWay(h)
      <3> HIDE DEF t, g
      <3> QED BY <1>2, <2>1, <2>2, AdvanceTurns
    <2>4. agent'[a] = IF last /\ Home[a] = r THEN [h EXCEPT !.receiver = NoRequest] ELSE h
      <3> HIDE DEF left, t, NoRequest
      <3> QED BY <1>1, <1>3, <2>1
    <2> HIDE DEF h, NoRequest, last
    <2> QED BY <2>3, <2>4, DroppingReceiver
  <1>4. ASSUME NEW a \in Agents \ left
        PROVE  /\ agent'[a].plan = agent[a].plan /\ agent'[a].elem = agent[a].elem
               /\ agent'[a].end = agent[a].end /\ Follows(agent'[a], Plan[a])
               /\ OnTheWay(agent[a]) => OnTheWay(agent'[a])
               /\ a \notin AgentsAt(r) \/ now[r] # EndTick => agent'[a] = agent[a]
    <2> DEFINE g == agent[a]
    <2>1. IsAgent(g) /\ Follows(g, Plan[a])
      BY AgentsAre DEF DayInv
    <2>2. agent'[a] = IF last /\ Home[a] = r THEN [g EXCEPT !.receiver = NoRequest] ELSE g
      <3> HIDE DEF left, t, NoRequest
      <3> QED BY <1>1, <1>4
    <2>3. last /\ Home[a] = r => a \in AgentsAt(r) /\ now[r] = EndTick
      BY DEF AgentsAt
    <2> HIDE DEF NoRequest, last, g
    <2>4. agent'[a] = g \/ agent'[a] = [g EXCEPT !.receiver = NoRequest]
      BY <2>2
    <2> QED BY <2>1, <2>2, <2>3, <2>4, DroppingReceiver DEF g
  <1> QED BY <1>3, <1>4

LEMMA DayLegStep ==
  ASSUME DayInv, RequestInv, ChannelInv, NEW r \in Ranks, LegStep(r)
  PROVE  DayInv'
PROOF
  <1> DEFINE left == RangeOf(departing[r])
             legs == onLeg[r] \cup left
             last == now[r] = EndTick
  <1>1. /\ pc[r] = "end" /\ ending[r] = <<>> /\ departing' = [departing EXCEPT ![r] = <<>>]
        /\ now' = [now EXCEPT ![r] = @ + 1]
        /\ pc' = [pc EXCEPT ![r] = IF last THEN "done" ELSE "begin"]
        /\ UNCHANGED <<asleep, awake, woken, notify, ending, chan, tasks, replies>>
    BY DEF LegStep, adapterVars
  <1>2. PICK done \in SUBSET legs : \E order \in SetToSeqs(done) :
          /\ onLeg' = [onLeg EXCEPT ![r] = legs \ done]
          /\ arriving' = [arriving EXCEPT ![r] = order]
    BY Zenon DEF LegStep, RangeOf
  <1>3. PICK order \in SetToSeqs(done) :
          /\ onLeg' = [onLeg EXCEPT ![r] = legs \ done]
          /\ arriving' = [arriving EXCEPT ![r] = order]
    BY <1>2
  <1>a. /\ PhaseInv(r) /\ PlacesInv(r) /\ StatesInv(r) /\ TimesInv(r) /\ AskedInv(r)
        /\ now[r] \in Nat /\ left \subseteq Agents /\ onLeg[r] \subseteq Agents
        /\ asleep[r] \in Seq(Entries)
    BY RankFacts, RangeOfIn
  <1>4. order \in Seq(Agents) /\ NoRepeats(order) /\ RangeOf(order) = done
    <2>1. IsFiniteSet(done) /\ done \subseteq Agents
      BY <1>a, FS_Subset, PreplanAssumption
    <2>2. order \in Seq(done) /\ NoRepeats(order) /\ RangeOf(order) = done
      BY <2>1, SetToSeqsIs
    <2>3. order \in Seq(Agents)
      BY <2>1, <2>2
    <2> QED BY <2>2, <2>3
  <1>5. /\ \A a \in left : OnTheWay(agent'[a]) /\ Follows(agent'[a], Plan[a])
        /\ \A a \in Agents \ left :
             /\ agent'[a].plan = agent[a].plan /\ agent'[a].elem = agent[a].elem
             /\ agent'[a].end = agent[a].end /\ Follows(agent'[a], Plan[a])
             /\ OnTheWay(agent[a]) => OnTheWay(agent'[a])
             /\ a \notin AgentsAt(r) \/ ~last => agent'[a] = agent[a]
    BY LeavingIs
  <1> HIDE DEF left
  <1>6. /\ departing'[r] = <<>> /\ onLeg'[r] = legs \ done /\ arriving'[r] = order
        /\ now'[r] = now[r] + 1 /\ pc'[r] = IF last THEN "done" ELSE "begin"
    BY <1>1, <1>3 DEF DayInv, ListsInv
  <1>7. ListsInv'
    <2>1. departing' \in [Ranks -> Seq(Agents)] /\ now' \in [Ranks -> Nat]
      BY <1>1 DEF DayInv, ListsInv
    <2>2. pc' \in [Ranks -> {"barrier", "begin", "notify", "end", "done", "panicked"}]
      BY <1>1 DEF DayInv, ListsInv
    <2>3. onLeg' \in [Ranks -> SUBSET Agents] /\ arriving' \in [Ranks -> Seq(Agents)]
      BY <1>3, <1>4, <1>a DEF DayInv, ListsInv
    <2> QED BY <1>1, <2>1, <2>2, <2>3 DEF DayInv, ListsInv
  <1>8. AnswersInv'
    BY <1>1 DEF DayInv, AnswersInv
  <1>9. woken[r] = <<>> /\ notify[r] = <<>> /\ arriving[r] = <<>> /\ now[r] <= EndTick
    BY <1>1, <1>a DEF PhaseInv
  <1>10. PhaseInv(r)'
    <2>1. pc'[r] # "done" => now[r] + 1 <= EndTick
      BY <1>6, <1>9, <1>a, PreplanAssumption
    <2> QED BY <1>1, <1>6, <1>9, <2>1 DEF PhaseInv
  <1>11. Partition(AgentsAt(r), Asleep(r), Awake(r), Leaving(r), Between(r), onLeg[r])
    BY <1>a DEF PlacesInv
  <1>12. /\ Asleep(r)' = Asleep(r) /\ Awake(r)' = Awake(r) /\ AgentsAt(r)' = AgentsAt(r)
         /\ Leaving(r)' = Leaving(r) /\ Leaving(r) = {}
         /\ Between(r)' = done /\ Between(r) = left
    BY <1>1, <1>4, <1>6, <1>9, RangeOfEmpty DEF Asleep, Awake, Leaving, Between, AgentsAt, left
  <1>13. PlacesInv(r)'
    <2>1. Partition(AgentsAt(r), Asleep(r), Awake(r), Leaving(r), Between(r), onLeg[r])'
      BY <1>6, <1>11, <1>12 DEF Partition
    <2> QED BY <1>1, <1>4, <1>6, <1>a, <2>1, RangeOfEmpty DEF PlacesInv
  <1>14. \A a \in AgentsAt(r) : a \in Agents
    BY DEF AgentsAt
  <1>15. \A a \in Asleep(r) \cup Awake(r) : a \in Agents \ left
    BY <1>11, <1>12, <1>14 DEF Partition
  <1>16. \A e \in RangeOf(asleep[r]) : e.agent \in Asleep(r) /\ e.wake \in Int
    <2>1. \A e \in RangeOf(asleep[r]) : e \in Entries
      BY <1>a, RangeOfIn
    <2> QED BY <2>1, NeverAssumption DEF Asleep, Entries, Times
  <1>17. \A a \in Asleep(r) \cup Awake(r) :
           /\ WakeupTime(agent'[a]) = WakeupTime(agent[a])
           /\ AtActivity(agent'[a]) /\ agent'[a].end = agent[a].end /\ agent[a].end \in Int
    <2>1. \A a \in Asleep(r) \cup Awake(r) : AtActivity(agent[a])
      BY <1>a DEF StatesInv
    <2> QED BY <1>5, <1>15, <2>1, SamePlace, NeverAssumption DEF AtActivity, Times
  <1>18. StatesInv(r)'
    <2>1. \A e \in RangeOf(asleep[r]) : e.wake = WakeupTime(agent'[e.agent])
      BY <1>16, <1>17, <1>a DEF StatesInv
    <2>2. \A a \in legs : OnTheWay(agent'[a])
      BY <1>5, <1>a DEF StatesInv
    <2>3. \A a \in onLeg'[r] \cup RangeOf(arriving'[r]) : a \in legs
      BY <1>4, <1>6
    <2> QED BY <1>1, <1>6, <1>12, <1>17, <2>1, <2>2, <2>3, RangeOfEmpty DEF StatesInv
  <1>19. TimesInv(r)'
    <2>1. /\ \A e \in RangeOf(asleep[r]) : e.wake >= now[r] + 1
          /\ \A a \in Awake(r) : agent'[a].end >= now[r] + 1
      BY <1>1, <1>16, <1>17, <1>a DEF TimesInv
    <2>2. pc'[r] \notin {"notify", "end"}
      BY <1>6
    <2> QED BY <1>1, <1>6, <1>12, <2>1, <2>2 DEF TimesInv
  <1>20. AskedInv(r)'
    <2>1. ASSUME ~last PROVE \A a \in Awake(r) : HasAsked(agent'[a])
      BY <1>1, <1>5, <1>15, <1>a, <2>1 DEF AskedInv
    <2>2. pc'[r] \in {"barrier", "begin"} => ~last
      BY <1>6
    <2>3. pc'[r] \notin {"notify", "end"}
      BY <1>6
    <2> QED BY <1>12, <2>1, <2>2, <2>3 DEF AskedInv
  <1>21. \A a \in Agents : Follows(agent'[a], Plan[a])
    BY <1>5
  <1>22. \A a \in Agents : a \notin AgentsAt(r) => agent'[a] = agent[a]
    BY <1>5, <1>11, <1>12 DEF Partition
  <1>23. RankNext(r)
    BY DEF RankNext
  <1> QED BY <1>7, <1>8, <1>10, <1>13, <1>18, <1>19, <1>20, <1>21, <1>22, <1>23, RankAlone
          DEF RankInv

\* The entries that are due and the others.
LEMMA DueOrLater ==
  ASSUME NEW q \in Seq(Entries), NEW t \in 0..EndTick, NoRepeats(AgentsOf(q))
  PROVE  LET due == Those(q, Due(t))
             later == Those(q, Later(t))
         IN  /\ due \in Seq(Entries) /\ later \in Seq(Entries)
             /\ NoRepeats(AgentsOf(due)) /\ NoRepeats(AgentsOf(later))
             /\ RangeOf(due) \cup RangeOf(later) = RangeOf(q)
             /\ {e.agent : e \in RangeOf(due)} \cap {e.agent : e \in RangeOf(later)} = {}
             /\ \A e \in RangeOf(later) : e.wake > t
PROOF
  <1> DEFINE due == Those(q, Due(t))
             later == Those(q, Later(t))
  <1>1. /\ due \in Seq(Entries) /\ RangeOf(due) = RangeOf(q) \cap Due(t)
        /\ later \in Seq(Entries) /\ RangeOf(later) = RangeOf(q) \cap Later(t)
        /\ NoRepeats(AgentsOf(due)) /\ NoRepeats(AgentsOf(later))
    BY ThoseEntries
  <1>2. OneEntryEach(RangeOf(q)) /\ RangeOf(q) \subseteq Entries
    BY AgentsOfIs, RangeOfIn
  <1>3. /\ t \in Int /\ t >= 0 /\ Never \in Int
    BY NeverAssumption, PreplanAssumption
  <1>4. \A e \in Entries : e \in Due(t) \/ e \in Later(t)
    <2> SUFFICES ASSUME NEW e \in Entries PROVE e \in Due(t) \/ e \in Later(t)
      OBVIOUS
    <2>1. e = [agent |-> e.agent, wake |-> e.wake] /\ e.agent \in Agents /\ e.wake \in 0..Never
      BY DEF Entries, Times
    <2>2. e.wake \in 0..t \/ e.wake \in t + 1..Never
      BY <1>3, <2>1
    <2> QED BY <2>1, <2>2 DEF Due, Later
  <1>5. /\ \A e \in Later(t) : e.wake > t
        /\ Due(t) \cap Later(t) = {}
    BY <1>3 DEF Due, Later
  <1> HIDE DEF due, later
  <1>6. RangeOf(due) \cup RangeOf(later) = RangeOf(q)
    BY <1>1, <1>2, <1>4
  <1>7. {e.agent : e \in RangeOf(due)} \cap {e.agent : e \in RangeOf(later)} = {}
    <2>1. \A e \in RangeOf(due), f \in RangeOf(later) : e # f
      BY <1>1, <1>5
    <2> QED BY <1>1, <1>2, <2>1 DEF OneEntryEach
  <1>8. \A e \in RangeOf(later) : e.wake > t
    BY <1>1, <1>5
  <1> QED BY <1>1, <1>6, <1>7, <1>8 DEF due, later

\* The agents that arrive begin their next activity; nobody else moves.
LEMMA ArrivingIs ==
  ASSUME DayInv, RequestInv, NEW r \in Ranks, BeginTick(r)
  PROVE  /\ \A a \in RangeOf(arriving[r]) :
              AtActivity(agent'[a]) /\ Follows(agent'[a], Plan[a])
         /\ \A a \in Agents \ RangeOf(arriving[r]) : agent'[a] = agent[a]
PROOF
  <1> DEFINE list == RangeOf(arriving[r])
             t == now[r]
  <1>1. agent' = [a \in Agents |-> IF a \in list THEN AdvancePlan(agent[a], t) ELSE agent[a]]
    <2>1. agent' = [a \in Agents |-> IF \E i \in 1..Len(arriving[r]) : arriving[r][i] = a
                                       THEN AdvancePlan(agent[a], now[r]) ELSE agent[a]]
      BY Zenon DEF BeginTick
    <2>2. \A a : (\E i \in 1..Len(arriving[r]) : arriving[r][i] = a) <=> a \in list
      BY DEF RangeOf
    <2> HIDE DEF list
    <2> QED BY <2>1, <2>2
  <1>a. /\ PhaseInv(r) /\ StatesInv(r) /\ t \in Nat /\ list \subseteq Agents /\ pc[r] = "begin"
    BY RankFacts, RangeOfIn DEF BeginTick
  <1>2. t \in 0..EndTick
    BY <1>a, PreplanAssumption DEF PhaseInv
  <1>3. ASSUME NEW a \in list PROVE AtActivity(agent'[a]) /\ Follows(agent'[a], Plan[a])
    <2> DEFINE g == agent[a]
    <2>1. IsAgent(g) /\ Follows(g, Plan[a]) /\ OnTheWay(g) /\ g.receiver = NoRequest /\ a \in Agents
      BY <1>a, AgentsAre DEF StatesInv, DayInv, OnTheWay
    <2>2. agent'[a] = AdvancePlan(g, t)
      <3> HIDE DEF list, t
      <3> QED BY <1>1, <1>3, <2>1
    <2> HIDE DEF g, t
    <2> QED BY <1>2, <2>1, <2>2, AdvanceTurns
  <1>4. ASSUME NEW a \in Agents \ list PROVE agent'[a] = agent[a]
    <2> HIDE DEF list, t
    <2> QED BY <1>1, <1>4
  <1> QED BY <1>3, <1>4

\* The queue with the agents that arrive.
LEMMA QueueIs ==
  ASSUME DayInv, RequestInv, NEW r \in Ranks, BeginTick(r)
  PROVE  LET queue == AddAgents(asleep[r], arriving[r], agent') IN
           /\ queue \in Seq(Entries) /\ NoRepeats(AgentsOf(queue))
           /\ {e.agent : e \in RangeOf(queue)} = Asleep(r) \cup RangeOf(arriving[r])
           /\ \A e \in RangeOf(queue) : e.wake = WakeupTime(agent'[e.agent])
PROOF
  <1> DEFINE list == RangeOf(arriving[r])
             queue == AddAgents(asleep[r], arriving[r], agent')
             new == {EntryOf(agent', a) : a \in list}
  <1>1. /\ PlacesInv(r) /\ StatesInv(r) /\ asleep[r] \in Seq(Entries) /\ arriving[r] \in Seq(Agents)
        /\ list \subseteq Agents
    BY RankFacts, RangeOfIn
  <1>2. /\ \A a \in list : AtActivity(agent'[a]) /\ Follows(agent'[a], Plan[a])
        /\ \A a \in Agents \ list : agent'[a] = agent[a]
    BY ArrivingIs
  <1>3. \A a \in list : WakeupTime(agent'[a]) \in Times
    BY <1>2, WakeupTimeIs
  <1>4. Partition(AgentsAt(r), Asleep(r), Awake(r), Leaving(r), Between(r), onLeg[r])
    BY <1>1 DEF PlacesInv
  <1>5. /\ \A e \in RangeOf(asleep[r]) : e.agent \notin list /\ e.agent \in Agents
        /\ list \subseteq AgentsAt(r)
    BY <1>4 DEF Partition, Asleep, Between, AgentsAt
  <1>6. /\ queue \in Seq(Entries) /\ RangeOf(queue) = RangeOf(asleep[r]) \cup new
        /\ NoRepeats(AgentsOf(queue))
    BY <1>1, <1>3, <1>5, AddAgentsIs DEF PlacesInv
  <1> HIDE DEF queue, list
  <1>7. {e.agent : e \in RangeOf(queue)} = Asleep(r) \cup list
    <2>1. {e.agent : e \in new} = list
      <3>1. \A a \in list : EntryOf(agent', a).agent = a
        BY DEF EntryOf
      <3>2. \A x : (\E e \in new : x = e.agent) <=> \E a \in list : x = EntryOf(agent', a).agent
        OBVIOUS
      <3> QED BY <3>1, <3>2
    <2> HIDE DEF new
    <2>2. {e.agent : e \in RangeOf(asleep[r]) \cup new}
            = {e.agent : e \in RangeOf(asleep[r])} \cup {e.agent : e \in new}
      OBVIOUS
    <2> QED BY <1>6, <2>1, <2>2 DEF Asleep
  <1>8. ASSUME NEW e \in RangeOf(queue) PROVE e.wake = WakeupTime(agent'[e.agent])
    <2>1. CASE e \in RangeOf(asleep[r])
      BY <1>1, <1>2, <1>5, <2>1 DEF StatesInv
    <2>2. CASE e \in new
      BY <2>2 DEF EntryOf
    <2> QED BY <1>6, <2>1, <2>2
  <1> QED BY <1>6, <1>7, <1>8 DEF queue, list

LEMMA DayBeginTick ==
  ASSUME DayInv, RequestInv, ChannelInv, NEW r \in Ranks, BeginTick(r)
  PROVE  DayInv'
PROOF
  <1> DEFINE list == RangeOf(arriving[r])
             t == now[r]
             over == {a \in Agents : agent'[a].end <= t}
             waiting == {a \in Agents : agent'[a].end > t}
             queue == AddAgents(asleep[r], arriving[r], agent')
             popped == AgentsOf(Those(queue, Due(t)))
             later == Those(queue, Later(t))
             stay == Those(popped, waiting)
             leave == Those(popped, over)
  <1>1. /\ pc[r] = "begin" /\ pc' = [pc EXCEPT ![r] = "notify"]
        /\ notify' = [notify EXCEPT ![r] = woken'[r] \o awake'[r]]
        /\ arriving' = [arriving EXCEPT ![r] = <<>>]
        /\ UNCHANGED <<now, ending, departing, onLeg, chan, tasks, replies>>
    BY DEF BeginTick, adapterVars, Notified
  <1>2. /\ asleep' = [asleep EXCEPT ![r] = later]
        /\ awake' = [awake EXCEPT ![r] = @ \o stay]
        /\ woken' = [woken EXCEPT ![r] = leave]
    <2> DEFINE moved == [a \in Agents |-> IF \E i \in 1..Len(arriving[r]) : arriving[r][i] = a
                                            THEN AdvancePlan(agent[a], t) ELSE agent[a]]
    <2>1. agent' = moved
      BY Zenon DEF BeginTick
    <2>2. over = {a \in Agents : moved[a].end <= t}
      BY <2>1, Zenon
    <2>3. waiting = {a \in Agents : StaysAwake(moved[a], t)}
      BY <2>1, Zenon DEF StaysAwake
    <2> QED BY <2>1, <2>2, <2>3, Zenon DEF BeginTick
  <1>a. /\ PhaseInv(r) /\ PlacesInv(r) /\ StatesInv(r) /\ TimesInv(r) /\ AskedInv(r)
        /\ t \in Nat /\ list \subseteq Agents /\ awake[r] \in Seq(Agents)
    BY RankFacts, RangeOfIn
  <1>3. /\ woken[r] = <<>> /\ notify[r] = <<>> /\ ending[r] = <<>> /\ departing[r] = <<>>
        /\ t \in 0..EndTick
    BY <1>1, <1>a, PreplanAssumption DEF PhaseInv
  <1>4. /\ \A a \in list : AtActivity(agent'[a]) /\ Follows(agent'[a], Plan[a])
        /\ \A a \in Agents \ list : agent'[a] = agent[a]
    BY ArrivingIs
  <1>5. /\ queue \in Seq(Entries) /\ NoRepeats(AgentsOf(queue))
        /\ {e.agent : e \in RangeOf(queue)} = Asleep(r) \cup list
        /\ \A e \in RangeOf(queue) : e.wake = WakeupTime(agent'[e.agent])
    BY QueueIs
  <1>6. Partition(AgentsAt(r), Asleep(r), Awake(r), Leaving(r), Between(r), onLeg[r])
    BY <1>a DEF PlacesInv
  <1>7. Leaving(r) = {} /\ Between(r) = list
    BY <1>3, RangeOfEmpty DEF Leaving, Between
  <1> DEFINE S == RangeOf(popped)
             L == {e.agent : e \in RangeOf(later)}
  <1>8. /\ popped \in Seq(Agents) /\ NoRepeats(popped) /\ later \in Seq(Entries)
        /\ NoRepeats(AgentsOf(later)) /\ S \cup L = Asleep(r) \cup list /\ S \cap L = {}
        /\ \A e \in RangeOf(later) : e.wake > t /\ e.wake = WakeupTime(agent'[e.agent])
    <2> DEFINE due == Those(queue, Due(t))
    <2> HIDE DEF queue, t
    <2>1. /\ due \in Seq(Entries) /\ later \in Seq(Entries)
          /\ NoRepeats(AgentsOf(due)) /\ NoRepeats(AgentsOf(later))
          /\ RangeOf(due) \cup RangeOf(later) = RangeOf(queue)
          /\ {e.agent : e \in RangeOf(due)} \cap {e.agent : e \in RangeOf(later)} = {}
          /\ \A e \in RangeOf(later) : e.wake > t
      BY <1>3, <1>5, DueOrLater
    <2>2. popped = AgentsOf(due)
      OBVIOUS
    <2> HIDE DEF due, later, popped, list
    <2>3. popped \in Seq(Agents) /\ S = {e.agent : e \in RangeOf(due)}
      BY <2>1, <2>2, AgentsOfIs
    <2>4. {e.agent : e \in RangeOf(due)} \cup L = {e.agent : e \in RangeOf(queue)}
      BY <2>1
    <2> QED BY <1>5, <2>1, <2>2, <2>3, <2>4
  <1> HIDE DEF queue, popped, later, list
  <1>9. \A a \in AgentsAt(r) : a \in Agents
    BY DEF AgentsAt
  <1>10. S \cup L \subseteq Agents /\ S \cup L \cup Awake(r) \subseteq AgentsAt(r)
    BY <1>6, <1>7, <1>8, <1>9 DEF Partition
  <1>11. \A a \in S \cup L \cup Awake(r) :
           AtActivity(agent'[a]) /\ agent'[a].end \in Int
    <2>1. \A a \in Asleep(r) \cup Awake(r) : AtActivity(agent[a])
      BY <1>a DEF StatesInv
    <2>2. \A a \in Asleep(r) \cup Awake(r) : a \in Agents \ list
      BY <1>6, <1>7, <1>9 DEF Partition
    <2>3. \A a \in S \cup L \cup Awake(r) : AtActivity(agent'[a])
      BY <1>4, <1>8, <2>1, <2>2
    <2> QED BY <2>3, NeverAssumption DEF AtActivity, Times
  <1>12. /\ stay \in Seq(Agents) /\ NoRepeats(stay) /\ RangeOf(stay) = S \cap waiting
         /\ leave \in Seq(Agents) /\ NoRepeats(leave) /\ RangeOf(leave) = S \cap over
    BY <1>8, ThoseElements
  <1>13. /\ S = RangeOf(stay) \cup RangeOf(leave) /\ RangeOf(stay) \cap RangeOf(leave) = {}
         /\ \A a \in RangeOf(leave) : agent'[a].end <= t
    <2>1. \A a \in S : a \in Agents /\ (agent'[a].end <= t \/ agent'[a].end > t)
      BY <1>10, <1>11, <1>a
    <2>2. \A a \in S : ~(agent'[a].end <= t /\ agent'[a].end > t)
      BY <1>11, <1>a
    <2> QED BY <1>12, <2>1, <2>2
  <1> HIDE DEF stay, leave, S, L
  <1>14. /\ asleep'[r] = later /\ awake'[r] = awake[r] \o stay /\ woken'[r] = leave
         /\ notify'[r] = leave \o awake'[r] /\ arriving'[r] = <<>> /\ pc'[r] = "notify"
    BY <1>1, <1>2 DEF DayInv, ListsInv
  <1>15. /\ awake'[r] \in Seq(Agents) /\ RangeOf(awake'[r]) = Awake(r) \cup RangeOf(stay)
         /\ NoRepeats(awake'[r])
         /\ notify'[r] \in Seq(Agents) /\ RangeOf(notify'[r]) = RangeOf(leave) \cup RangeOf(awake'[r])
    <2>1. Awake(r) \cap RangeOf(stay) = {}
      BY <1>6, <1>7, <1>8, <1>13 DEF Partition
    <2>2. /\ awake'[r] \in Seq(Agents) /\ RangeOf(awake'[r]) = Awake(r) \cup RangeOf(stay)
          /\ NoRepeats(awake'[r])
      <3>1. NoRepeats(awake[r]) /\ Awake(r) = RangeOf(awake[r])
        BY <1>a DEF Awake, PlacesInv
      <3> DEFINE q == awake[r] \o stay
      <3>2. /\ q \in Seq(Agents) /\ RangeOf(q) = RangeOf(awake[r]) \cup RangeOf(stay)
            /\ NoRepeats(awake[r]) /\ NoRepeats(stay) /\ RangeOf(awake[r]) \cap RangeOf(stay) = {}
                 => NoRepeats(q)
        BY <1>12, <1>a, RangeOfCat
      <3>3. awake'[r] = q
        BY <1>14
      <3> HIDE DEF q
      <3> QED BY <1>12, <2>1, <3>1, <3>2, <3>3
    <2> DEFINE w == awake'[r]
    <2>3. w \in Seq(Agents) /\ leave \in Seq(Agents) /\ notify'[r] = leave \o w
      BY <1>12, <1>14, <2>2
    <2> HIDE DEF w
    <2>4. leave \o w \in Seq(Agents) /\ RangeOf(leave \o w) = RangeOf(leave) \cup RangeOf(w)
      BY <2>3, RangeOfCat
    <2>5. notify'[r] \in Seq(Agents) /\ RangeOf(notify'[r]) = RangeOf(leave) \cup RangeOf(w)
      BY <2>3, <2>4
    <2> QED BY <2>2, <2>5 DEF w
  <1>16. ListsInv'
    <2>1. asleep' \in [Ranks -> Seq(Entries)]
      BY <1>2, <1>8 DEF DayInv, ListsInv
    <2>2. awake' \in [Ranks -> Seq(Agents)]
      <3>1. awake' = [awake EXCEPT ![r] = awake[r] \o stay]
        BY <1>2
      <3> QED BY <1>14, <1>15, <3>1 DEF DayInv, ListsInv
    <2>3. woken' \in [Ranks -> Seq(Agents)]
      BY <1>2, <1>12 DEF DayInv, ListsInv
    <2>4. notify' \in [Ranks -> Seq(Agents)]
      BY <1>1, <1>14, <1>15 DEF DayInv, ListsInv
    <2>5. arriving' \in [Ranks -> Seq(Agents)]
      BY <1>1 DEF DayInv, ListsInv
    <2>6. pc' \in [Ranks -> {"barrier", "begin", "notify", "end", "done", "panicked"}]
      BY <1>1 DEF DayInv, ListsInv
    <2> QED BY <1>1, <2>1, <2>2, <2>3, <2>4, <2>5, <2>6 DEF DayInv, ListsInv
  <1>17. AnswersInv'
    BY <1>1 DEF DayInv, AnswersInv
  <1>18. PhaseInv(r)'
    BY <1>1, <1>3, <1>14, <1>15, <1>a DEF PhaseInv
  <1>19. /\ Asleep(r)' = L /\ Awake(r)' = Awake(r) \cup RangeOf(stay)
         /\ Leaving(r)' = RangeOf(leave) /\ Between(r)' = {} /\ AgentsAt(r)' = AgentsAt(r)
    <2>1. ending'[r] = <<>> /\ departing'[r] = <<>>
      BY <1>1, <1>3
    <2> QED BY <1>14, <1>15, <2>1, RangeOfEmpty DEF Asleep, Awake, Leaving, Between, AgentsAt, L
  <1>20. PlacesInv(r)'
    <2>1. Partition(AgentsAt(r), L, Awake(r) \cup RangeOf(stay), RangeOf(leave), {}, onLeg[r])
      BY <1>6, <1>7, <1>8, <1>13 DEF Partition
    <2>2. Partition(AgentsAt(r), Asleep(r), Awake(r), Leaving(r), Between(r), onLeg[r])'
      BY <1>1, <1>19, <2>1 DEF Partition
    <2>3. NoRepeats(ending'[r]) /\ NoRepeats(departing'[r]) /\ NoRepeats(arriving'[r])
      BY <1>1, <1>3, <1>14, RangeOfEmpty
    <2> QED BY <1>8, <1>12, <1>14, <1>15, <2>2, <2>3 DEF PlacesInv
  <1>21. StatesInv(r)'
    <2>1. \A e \in RangeOf(asleep'[r]) : e.wake = WakeupTime(agent'[e.agent])
      BY <1>8, <1>14
    <2>2. RangeOf(departing'[r]) = {} /\ RangeOf(arriving'[r]) = {}
      BY <1>1, <1>3, <1>14, RangeOfEmpty
    <2>3. \A a \in Asleep(r)' \cup Awake(r)' \cup Leaving(r)' : AtActivity(agent'[a])
      BY <1>11, <1>13, <1>19
    <2>4. \A a \in Leaving(r)' : agent'[a].end <= now'[r]
      BY <1>1, <1>13, <1>19
    <2>5. \A a \in onLeg'[r] : OnTheWay(agent'[a])
      <3>1. \A a \in onLeg[r] : a \in Agents \ list
        BY <1>6, <1>7, <1>9 DEF Partition
      <3> QED BY <1>1, <1>4, <1>a, <3>1 DEF StatesInv
    <2> QED BY <2>1, <2>2, <2>3, <2>4, <2>5 DEF StatesInv
  <1>22. TimesInv(r)'
    BY <1>1, <1>8, <1>14 DEF TimesInv
  <1>23. AskedInv(r)'
    BY <1>14, <1>15, <1>19 DEF AskedInv
  <1>24. \A a \in Agents : Follows(agent'[a], Plan[a])
    BY <1>4 DEF DayInv
  <1>25. \A a \in Agents : a \notin AgentsAt(r) => agent'[a] = agent[a]
    BY <1>4, <1>6, <1>7 DEF Partition
  <1>26. RankNext(r)
    BY DEF RankNext
  <1> QED BY <1>16, <1>17, <1>18, <1>20, <1>21, <1>22, <1>23, <1>24, <1>25, <1>26, RankAlone
          DEF RankInv

\* The adapter and the controller leave the ranks alone.
LEMMA DayAside ==
  ASSUME DayInv, UNCHANGED <<pc, now, agent, engineVars>>, AnswersInv'
  PROVE  DayInv'
PROOF
  <1>1. UNCHANGED <<pc, now, agent, asleep, awake, woken, notify, ending, departing, onLeg, arriving>>
    BY DEF engineVars
  <1>2. ListsInv'
    BY <1>1 DEF DayInv, ListsInv
  <1>3. ASSUME NEW r \in Ranks PROVE RankInv(r)'
    <2>1. UNCHANGED <<pc[r], Lists(r)>>
      BY <1>1 DEF Lists
    <2>2. \A a \in AgentsAt(r) : agent'[a] = agent[a]
      BY <1>1
    <2> QED BY <2>1, <2>2, RankUntouched DEF DayInv
  <1>4. \A a \in Agents : Follows(agent[a], Plan[a])'
    BY <1>1 DEF DayInv
  <1> QED BY <1>2, <1>3, <1>4 DEF DayInv

\* The ranks pass the barrier and begin their day.
LEMMA DayPassBarrier ==
  ASSUME DayInv, PassBarrier
  PROVE  DayInv'
PROOF
  <1>1. /\ pc' = [r \in Ranks |-> "begin"] /\ \A r \in Ranks : pc[r] = "barrier"
        /\ UNCHANGED <<now, agent, asleep, awake, woken, notify, ending, departing, onLeg, arriving,
                       chan, tasks, replies>>
    BY DEF PassBarrier, engineVars
  <1>2. ListsInv'
    BY <1>1 DEF DayInv, ListsInv
  <1>3. AnswersInv'
    BY <1>1 DEF DayInv, AnswersInv
  <1>4. ASSUME NEW r \in Ranks PROVE RankInv(r)'
    <2>1. pc[r] = "barrier" /\ pc'[r] = "begin"
      BY <1>1
    <2>a. /\ PhaseInv(r) /\ PlacesInv(r) /\ StatesInv(r) /\ TimesInv(r) /\ AskedInv(r)
      BY RankFacts
    <2>2. PhaseInv(r)'
      BY <1>1, <2>1, <2>a DEF PhaseInv
    <2>3. PlacesInv(r)'
      BY <1>1, <2>a DEF PlacesInv, Asleep, Awake, Leaving, Between, AgentsAt
    <2>4. StatesInv(r)'
      BY <1>1, <2>a DEF StatesInv, Asleep, Awake, Leaving
    <2>5. TimesInv(r)'
      BY <1>1, <2>1, <2>a DEF TimesInv, Awake
    <2>6. AskedInv(r)'
      BY <1>1, <2>1, <2>a DEF AskedInv, Awake
    <2> QED BY <2>2, <2>3, <2>4, <2>5, <2>6 DEF RankInv
  <1>5. \A a \in Agents : Follows(agent[a], Plan[a])'
    BY <1>1 DEF DayInv
  <1> QED BY <1>2, <1>3, <1>4, <1>5 DEF DayInv

\* What the adapter's thread takes from the channel are requests.
LEMMA DayAdapterStep ==
  ASSUME DayInv, RequestInv, AdapterStep
  PROVE  DayInv'
PROOF
  <1>1. UNCHANGED <<pc, now, agent, engineVars>>
    BY DEF AdapterStep
  <1>2. AnswersInv
    BY DEF DayInv
  <1>3. AnswersInv'
    <2>1. CASE OnRequest
      <3> DEFINE S == {chan[i] : i \in 1..Len(chan)}
      <3>1. /\ chan # <<>> /\ chan' = Tail(chan) /\ tasks' = tasks \cup {Head(chan)}
            /\ replies' = replies
        BY <2>1 DEF OnRequest
      <3>2. chan \in Seq(S)
        BY DEF RequestInv, IsSequence
      <3> HIDE DEF S
      <3>3. RangeOf(chan) = {Head(chan)} \cup RangeOf(Tail(chan))
        BY <3>1, <3>2, RangeOfTail
      <3> QED BY <1>2, <3>1, <3>3 DEF AnswersInv
    <2>2. CASE StopAdapter
      <3>1. chan' = <<>> /\ tasks' = {} /\ replies' = replies
        BY <2>2 DEF StopAdapter
      <3> QED BY <1>2, <3>1, RangeOfEmpty DEF AnswersInv
    <2>3. CASE Connect \/ ConnectFails \/ OnShutdown
      <3>1. UNCHANGED <<chan, tasks, replies>>
        BY <2>3 DEF Connect, ConnectFails, OnShutdown
      <3> QED BY <1>2, <3>1 DEF AnswersInv
    <2> QED BY <2>1, <2>2, <2>3 DEF AdapterStep, AdapterNext
  <1> QED BY <1>1, <1>3, DayAside

\* A task answers its own request with what the service returns.
LEMMA DayTaskStep ==
  ASSUME DayInv, NEW a \in Agents, TaskStep(a)
  PROVE  DayInv'
PROOF
  <1>1. UNCHANGED <<pc, now, agent, engineVars>>
    BY DEF TaskStep
  <1>2. AnswersInv
    BY DEF DayInv
  <1>3. PICK q \in tasks : \/ \E e \in Responses : Answer(q, e, agent[a].receiver = q)
                           \/ CallFails(q)
    BY DEF TaskStep
  <1>4. AnswersInv'
    <2>1. CASE \E e \in Responses : Answer(q, e, agent[a].receiver = q)
      <3>1. PICK e \in Responses : Answer(q, e, agent[a].receiver = q)
        BY <2>1
      <3>2. /\ chan' = chan /\ tasks' \subseteq tasks
            /\ replies' \subseteq replies \cup {[req |-> q, elements |-> e]}
        BY <3>1 DEF Answer
      <3>3. q # NoRequest
        BY <1>2, <1>3 DEF AnswersInv
      <3> HIDE DEF NoRequest
      <3>4. \A m \in replies' : m.req # NoRequest /\ m.elements \in Responses
        BY <1>2, <3>1, <3>2, <3>3 DEF AnswersInv
      <3> QED BY <1>2, <3>2, <3>4 DEF AnswersInv
    <2>2. CASE CallFails(q)
      <3>1. chan' = chan /\ tasks' \subseteq tasks /\ replies' = replies
        BY <2>2 DEF CallFails
      <3> QED BY <1>2, <3>1 DEF AnswersInv
    <2> QED BY <1>3, <2>1, <2>2
  <1> QED BY <1>1, <1>4, DayAside

LEMMA DayStep == DayInv /\ RequestInv /\ ChannelInv /\ [PreNext]_preVars => DayInv'
PROOF
  <1> SUFFICES ASSUME DayInv, RequestInv, ChannelInv, [PreNext]_preVars PROVE DayInv'
    OBVIOUS
  <1>1. ASSUME NEW r \in Ranks, RankNext(r) PROVE DayInv'
    BY <1>1, DayBeginTick, DayNotifyWakeup, DayEndActivities, DayNotifyEnd, DayReceivePanics,
       DayLegStep DEF RankNext
  <1>2. CASE PassBarrier
    BY <1>2, DayPassBarrier
  <1>3. CASE AdapterStep
    BY <1>3, DayAdapterStep
  <1>4. ASSUME NEW a \in Agents, TaskStep(a) PROVE DayInv'
    BY <1>4, DayTaskStep
  <1>5. CASE ShutdownAdapters \/ JoinAdapter \/ UNCHANGED preVars
    <2>1. UNCHANGED <<pc, now, agent, engineVars, chan, tasks, replies>>
      BY <1>5 DEF ShutdownAdapters, JoinAdapter, preVars, adapterVars
    <2>2. AnswersInv'
      BY <2>1 DEF DayInv, AnswersInv
    <2> QED BY <2>1, <2>2, DayAside
  <1> QED BY <1>1, <1>2, <1>3, <1>4, <1>5 DEF PreNext, PreFinished

-----------------------------------------------------------------------------
(* The beginning of the day.                                                *)

\* At the beginning an agent is at the first activity of its plan.
LEMMA AgentAtIs ==
  ASSUME NEW p, IsPlan(p)
  PROVE  Follows(AgentAt(p), p) /\ AtActivity(AgentAt(p))
PROOF
  <1> DEFINE g == AgentAt(p)
  <1>1. /\ Len(p) \in Nat /\ Len(p) >= 1 /\ 1 \in 1..Len(p)
    BY PlanElements
  <1>2. /\ p[1] \in Activities /\ p[1].dur < Never - EndTick /\ LastsToTheEnd(p[Len(p)])
    <2>1. 1 % 2 = 1
      OBVIOUS
    <2> QED BY <1>1, <2>1, PlanElements
  <1>3. 0 \in 0..EndTick
    BY NeverAssumption, PreplanAssumption
  <1>4. /\ CmpEndTime(p[1], 0) \in Times
        /\ LastsToTheEnd(p[1]) => CmpEndTime(p[1], 0) > EndTick
    BY <1>2, <1>3, CmpEndTimeIs
  <1> HIDE DEF NoRequest
  <1>5. g.plan = p /\ g.elem = 1 /\ g.end = CmpEndTime(p[1], 0) /\ g.receiver = NoRequest
    BY DEF AgentAt
  <1> HIDE DEF g
  <1>6. Follows(g, p)
    BY <1>1, <1>5 DEF Follows
  <1>7. AtActivity(g)
    <2>1. g.elem % 2 = 1
      BY <1>5
    <2> QED BY <1>2, <1>4, <1>5, <2>1 DEF AtActivity
  <1> QED BY <1>6, <1>7 DEF g

\* At the beginning the queue of a rank holds its agents.
LEMMA FirstQueueIs ==
  ASSUME NEW order \in SetToSeqs(Agents), NEW r \in Ranks,
         \A a \in Agents : Follows(agent[a], Plan[a]) /\ AtActivity(agent[a])
  PROVE  LET q == AddAgents(<<>>, Those(order, AgentsAt(r)), agent) IN
           /\ q \in Seq(Entries) /\ NoRepeats(AgentsOf(q))
           /\ {e.agent : e \in RangeOf(q)} = AgentsAt(r)
           /\ \A e \in RangeOf(q) : e.wake = WakeupTime(agent[e.agent]) /\ e.wake \in Times
PROOF
  <1> DEFINE list == Those(order, AgentsAt(r))
             S == RangeOf(list)
             q == AddAgents(<<>>, list, agent)
             new == {EntryOf(agent, a) : a \in S}
  <1>1. order \in Seq(Agents) /\ NoRepeats(order) /\ RangeOf(order) = Agents
    BY PreplanAssumption, SetToSeqsIs
  <1>2. list \in Seq(Agents) /\ NoRepeats(list) /\ S = AgentsAt(r)
    <2>1. AgentsAt(r) \subseteq Agents
      BY DEF AgentsAt
    <2> DEFINE A == AgentsAt(r)
    <2> HIDE DEF A
    <2>2. list \in Seq(Agents) /\ RangeOf(list) = RangeOf(order) \cap A /\ NoRepeats(list)
      <3>1. list = Those(order, A)
        BY DEF A
      <3> HIDE DEF list
      <3> QED BY <1>1, <3>1, ThoseElements
    <2> QED BY <1>1, <2>1, <2>2 DEF A
  <1>3. \A a \in S : WakeupTime(agent[a]) \in Times
    <2>1. \A a \in S : a \in Agents
      BY <1>2 DEF AgentsAt
    <2> QED BY <2>1, WakeupTimeIs
  <1> HIDE DEF list
  <1> DEFINE none == <<>>
  <1>4. none \in Seq(Entries) /\ RangeOf(none) = {} /\ NoRepeats(AgentsOf(none))
    <2>1. <<>> \in Seq(Entries)
      OBVIOUS
    <2>2. RangeOf(<<>>) = {} /\ NoRepeats(<<>>)
      BY RangeOfEmpty
    <2> QED BY <2>1, <2>2, AgentsOfIs DEF OneEntryEach
  <1>5. q \in Seq(Entries) /\ RangeOf(q) = new /\ NoRepeats(AgentsOf(q))
    <2> HIDE DEF none
    <2> DEFINE p == AddAgents(none, list, agent)
    <2>1. /\ p \in Seq(Entries) /\ RangeOf(p) = RangeOf(none) \cup new
          /\ NoRepeats(AgentsOf(p))
      BY <1>2, <1>3, <1>4, AddAgentsIs
    <2>2. p = q
      BY DEF none
    <2> HIDE DEF p, q
    <2> QED BY <1>4, <2>1, <2>2
  <1> HIDE DEF q, S
  <1>6. \A a \in S : EntryOf(agent, a).agent = a /\ EntryOf(agent, a).wake = WakeupTime(agent[a])
    BY DEF EntryOf
  <1>7. {e.agent : e \in new} = S
    <2>1. \A x : (\E e \in new : x = e.agent) <=> \E a \in S : x = EntryOf(agent, a).agent
      OBVIOUS
    <2> QED BY <1>6, <2>1
  <1>8. \A e \in new : e.wake = WakeupTime(agent[e.agent]) /\ e.wake \in Times
    BY <1>3, <1>6
  <1> HIDE DEF new
  <1> QED BY <1>2, <1>5, <1>7, <1>8 DEF q, list

LEMMA DayInit == PreInit => DayInv
PROOF
  <1> SUFFICES ASSUME PreInit PROVE DayInv
    OBVIOUS
  <1>1. /\ pc = [r \in Ranks |-> "barrier"] /\ now = [r \in Ranks |-> 0]
        /\ agent = [a \in Agents |-> AgentAt(Plan[a])]
        /\ awake = [r \in Ranks |-> <<>>] /\ woken = [r \in Ranks |-> <<>>]
        /\ notify = [r \in Ranks |-> <<>>] /\ ending = [r \in Ranks |-> <<>>]
        /\ departing = [r \in Ranks |-> <<>>] /\ onLeg = [r \in Ranks |-> {}]
        /\ arriving = [r \in Ranks |-> <<>>]
        /\ chan = <<>> /\ tasks = {} /\ replies = {}
    BY DEF PreInit, AdapterInit
  <1>2. PICK order \in SetToSeqs(Agents) :
          asleep = [r \in Ranks |-> AddAgents(<<>>, Those(order, AgentsAt(r)), agent)]
    BY DEF PreInit
  <1>3. \A a \in Agents : Follows(agent[a], Plan[a]) /\ AtActivity(agent[a])
    BY <1>1, AgentAtIs, PreplanAssumption
  <1>4. \A r \in Ranks :
          /\ asleep[r] \in Seq(Entries) /\ NoRepeats(AgentsOf(asleep[r]))
          /\ Asleep(r) = AgentsAt(r)
          /\ \A e \in RangeOf(asleep[r]) : e.wake = WakeupTime(agent[e.agent]) /\ e.wake \in Times
    <2> SUFFICES ASSUME NEW r \in Ranks
                 PROVE  /\ asleep[r] \in Seq(Entries) /\ NoRepeats(AgentsOf(asleep[r]))
                        /\ Asleep(r) = AgentsAt(r)
                        /\ \A e \in RangeOf(asleep[r]) :
                             e.wake = WakeupTime(agent[e.agent]) /\ e.wake \in Times
      OBVIOUS
    <2> DEFINE q == AddAgents(<<>>, Those(order, AgentsAt(r)), agent)
    <2>1. asleep[r] = q
      BY <1>2
    <2>2. /\ q \in Seq(Entries) /\ NoRepeats(AgentsOf(q))
          /\ {e.agent : e \in RangeOf(q)} = AgentsAt(r)
          /\ \A e \in RangeOf(q) : e.wake = WakeupTime(agent[e.agent]) /\ e.wake \in Times
      BY <1>3, FirstQueueIs
    <2> HIDE DEF q
    <2> QED BY <2>1, <2>2 DEF Asleep
  <1>5. ListsInv
    <2>1. asleep \in [Ranks -> Seq(Entries)]
      BY <1>2, <1>4
    <2>2. <<>> \in Seq(Agents) /\ 0 \in Nat
      OBVIOUS
    <2> QED BY <1>1, <2>1, <2>2 DEF ListsInv
  <1>6. AnswersInv
    BY <1>1, RangeOfEmpty DEF AnswersInv
  <1>7. ASSUME NEW r \in Ranks PROVE RankInv(r)
    <2>1. /\ pc[r] = "barrier" /\ now[r] = 0 /\ awake[r] = <<>> /\ woken[r] = <<>>
          /\ notify[r] = <<>> /\ ending[r] = <<>> /\ departing[r] = <<>> /\ onLeg[r] = {}
          /\ arriving[r] = <<>>
      BY <1>1
    <2>2. Awake(r) = {} /\ Leaving(r) = {} /\ Between(r) = {}
      BY <2>1, RangeOfEmpty DEF Awake, Leaving, Between
    <2>3. PhaseInv(r)
      BY <2>1, NeverAssumption, PreplanAssumption DEF PhaseInv
    <2>4. PlacesInv(r)
      BY <1>4, <2>1, <2>2, RangeOfEmpty DEF PlacesInv, Partition
    <2>5. StatesInv(r)
      <3>1. \A a \in Asleep(r) : AtActivity(agent[a])
        BY <1>3, <1>4 DEF AgentsAt
      <3> QED BY <1>4, <2>1, <2>2, <3>1, RangeOfEmpty DEF StatesInv
    <2>6. TimesInv(r)
      BY <1>4, <2>1, <2>2, NeverAssumption DEF TimesInv, Times
    <2>7. AskedInv(r)
      BY <2>1, <2>2 DEF AskedInv
    <2> QED BY <2>3, <2>4, <2>5, <2>6, <2>7 DEF RankInv
  <1> QED BY <1>3, <1>5, <1>6, <1>7 DEF DayInv

-----------------------------------------------------------------------------
(* What follows from DayInv.                                                *)

\* Two lists of agents that have none in common, one behind the other.
LEMMA TwoLists ==
  ASSUME NEW p \in Seq(Agents), NEW q \in Seq(Agents), NoRepeats(p), NoRepeats(q),
         RangeOf(p) \cap RangeOf(q) = {}
  PROVE  p \o q \in Seq(Agents) /\ NoRepeats(p \o q)
         /\ RangeOf(p \o q) = RangeOf(p) \cup RangeOf(q)
  BY RangeOfCat

\* A rank's agents are in exactly one of its lists, once.
LEMMA HeldIs ==
  ASSUME DayInv, NEW r \in Ranks
  PROVE  LET held == AgentsOf(asleep[r]) \o awake[r] \o woken[r] \o ending[r] \o departing[r]
                       \o arriving[r]
         IN  /\ Len(held) + Cardinality(onLeg[r]) = Cardinality(AgentsAt(r))
             /\ RangeOf(held) \cup onLeg[r] = AgentsAt(r)
PROOF
  <1> DEFINE q1 == AgentsOf(asleep[r])
             q2 == q1 \o awake[r]
             q3 == q2 \o woken[r]
             q4 == q3 \o ending[r]
             q5 == q4 \o departing[r]
             q6 == q5 \o arriving[r]
  <1>1. /\ PhaseInv(r) /\ PlacesInv(r) /\ asleep[r] \in Seq(Entries)
        /\ awake[r] \in Seq(Agents) /\ woken[r] \in Seq(Agents) /\ ending[r] \in Seq(Agents)
        /\ departing[r] \in Seq(Agents) /\ onLeg[r] \subseteq Agents /\ arriving[r] \in Seq(Agents)
        /\ pc[r] \in {"barrier", "begin", "notify", "end", "done", "panicked"}
    BY RankFacts DEF DayInv, ListsInv
  <1>2. /\ NoRepeats(q1) /\ NoRepeats(awake[r]) /\ NoRepeats(woken[r])
        /\ NoRepeats(ending[r]) /\ NoRepeats(departing[r]) /\ NoRepeats(arriving[r])
        /\ Partition(AgentsAt(r), Asleep(r), Awake(r), Leaving(r), Between(r), onLeg[r])
    BY <1>1 DEF PlacesInv
  <1>3. q1 \in Seq(Agents) /\ RangeOf(q1) = Asleep(r)
    BY <1>1, AgentsOfIs DEF Asleep
  <1>4. /\ woken[r] = <<>> \/ ending[r] = <<>>
        /\ departing[r] = <<>> \/ arriving[r] = <<>>
    BY <1>1 DEF PhaseInv
  <1>5. /\ RangeOf(woken[r]) \cap RangeOf(ending[r]) = {}
        /\ RangeOf(departing[r]) \cap RangeOf(arriving[r]) = {}
    BY <1>4, RangeOfEmpty
  <1> HIDE DEF q1
  <1>6. q2 \in Seq(Agents) /\ NoRepeats(q2) /\ RangeOf(q2) = Asleep(r) \cup Awake(r)
    <2>1. RangeOf(q1) \cap RangeOf(awake[r]) = {}
      BY <1>2, <1>3 DEF Partition, Awake
    <2> QED BY <1>1, <1>2, <1>3, <2>1, TwoLists DEF Awake
  <1> HIDE DEF q2
  <1>7. /\ q3 \in Seq(Agents) /\ NoRepeats(q3)
        /\ RangeOf(q3) = Asleep(r) \cup Awake(r) \cup RangeOf(woken[r])
    <2>1. RangeOf(q2) \cap RangeOf(woken[r]) = {}
      BY <1>2, <1>6 DEF Partition, Leaving
    <2> QED BY <1>1, <1>2, <1>6, <2>1, TwoLists
  <1> HIDE DEF q3
  <1>8. /\ q4 \in Seq(Agents) /\ NoRepeats(q4)
        /\ RangeOf(q4) = Asleep(r) \cup Awake(r) \cup Leaving(r)
    <2>1. RangeOf(q3) \cap RangeOf(ending[r]) = {}
      BY <1>2, <1>5, <1>7 DEF Partition, Leaving
    <2>2. /\ q4 \in Seq(Agents) /\ NoRepeats(q4)
          /\ RangeOf(q4) = RangeOf(q3) \cup RangeOf(ending[r])
      BY <1>1, <1>2, <1>7, <2>1, TwoLists
    <2> HIDE DEF q4
    <2> QED BY <1>7, <2>2 DEF Leaving
  <1> HIDE DEF q4
  <1>9. /\ q5 \in Seq(Agents) /\ NoRepeats(q5)
        /\ RangeOf(q5) = Asleep(r) \cup Awake(r) \cup Leaving(r) \cup RangeOf(departing[r])
    <2>1. RangeOf(q4) \cap RangeOf(departing[r]) = {}
      BY <1>2, <1>8 DEF Partition, Between
    <2> QED BY <1>1, <1>2, <1>8, <2>1, TwoLists
  <1> HIDE DEF q5
  <1>10. /\ q6 \in Seq(Agents) /\ NoRepeats(q6)
         /\ RangeOf(q6) = Asleep(r) \cup Awake(r) \cup Leaving(r) \cup Between(r)
    <2>1. RangeOf(q5) \cap RangeOf(arriving[r]) = {}
      BY <1>2, <1>5, <1>9 DEF Partition, Between
    <2>2. /\ q6 \in Seq(Agents) /\ NoRepeats(q6)
          /\ RangeOf(q6) = RangeOf(q5) \cup RangeOf(arriving[r])
      BY <1>1, <1>2, <1>9, <2>1, TwoLists
    <2> HIDE DEF q6
    <2> QED BY <1>9, <2>2 DEF Between
  <1> HIDE DEF q6
  <1>11. /\ RangeOf(q6) \cup onLeg[r] = AgentsAt(r) /\ RangeOf(q6) \cap onLeg[r] = {}
    BY <1>2, <1>10 DEF Partition
  <1>12. /\ IsFiniteSet(RangeOf(q6)) /\ Cardinality(RangeOf(q6)) = Len(q6)
    BY <1>10, LenIsCardinality
  <1>13. IsFiniteSet(onLeg[r])
    BY <1>1, FS_Subset, PreplanAssumption
  <1>14. Cardinality(AgentsAt(r)) = Len(q6) + Cardinality(onLeg[r])
    <2> DEFINE S == RangeOf(q6)
               T == onLeg[r]
    <2> HIDE DEF S, T
    <2>1. /\ Cardinality(S \cup T) = Cardinality(S) + Cardinality(T) - Cardinality(S \cap T)
          /\ Cardinality(S) \in Nat /\ Cardinality(T) \in Nat
      BY <1>12, <1>13, FS_Union, FS_CardinalityType DEF S, T
    <2>2. Cardinality(S \cap T) = 0
      BY <1>11, FS_EmptySet DEF S, T
    <2>3. Cardinality(S \cup T) = Cardinality(S) + Cardinality(T)
      BY <2>1, <2>2
    <2> QED BY <1>11, <1>12, <2>3 DEF S, T
  <1>15. Len(q6) + Cardinality(onLeg[r]) = Cardinality(AgentsAt(r))
    BY <1>14
  <1> QED BY <1>11, <1>15, Zenon DEF q1, q2, q3, q4, q5, q6

LEMMA DayLeaves == DayInv => LeavesOnTime
PROOF
  <1> SUFFICES ASSUME DayInv, NEW r \in Ranks
               PROVE  LET held == AgentsOf(asleep[r]) \o awake[r] \o woken[r] \o ending[r]
                                    \o departing[r] \o arriving[r]
                      IN /\ Len(held) + Cardinality(onLeg[r]) = Cardinality(AgentsAt(r))
                         /\ RangeOf(held) \cup onLeg[r] = AgentsAt(r)
                         /\ \A a \in RangeOf(woken[r]) \cup RangeOf(ending[r]) \cup RangeOf(departing[r]) :
                              agent[a].end <= now[r]
                         /\ pc[r] \in {"begin", "done"} =>
                              \A a \in RangeOf(AgentsOf(asleep[r])) \cup RangeOf(awake[r]) :
                                agent[a].end >= now[r]
    BY Zenon DEF LeavesOnTime
  <1>1. /\ StatesInv(r) /\ TimesInv(r) /\ PlacesInv(r) /\ now[r] \in Nat /\ asleep[r] \in Seq(Entries)
    BY RankFacts
  <1>2. \A a \in RangeOf(woken[r]) \cup RangeOf(ending[r]) \cup RangeOf(departing[r]) :
          agent[a].end <= now[r]
    BY <1>1 DEF StatesInv, Leaving
  <1>3. ASSUME pc[r] \in {"begin", "done"},
               NEW a \in RangeOf(AgentsOf(asleep[r])) \cup RangeOf(awake[r])
        PROVE  agent[a].end >= now[r]
    <2>1. CASE a \in RangeOf(awake[r])
      BY <1>1, <1>3, <2>1 DEF TimesInv, Awake
    <2>2. CASE a \in RangeOf(AgentsOf(asleep[r]))
      <3>1. PICK e \in RangeOf(asleep[r]) : e.agent = a
        BY <1>1, <2>2, AgentsOfIs
      <3>2. a \in Asleep(r) /\ AtActivity(agent[a]) /\ e.wake = WakeupTime(agent[a])
        BY <1>1, <3>1 DEF Asleep, StatesInv
      <3>3. a \in Agents
        BY <1>1, <3>2 DEF PlacesInv, Partition, AgentsAt
      <3>4. WakeupTime(agent[a]) \in Times /\ WakeupTime(agent[a]) <= agent[a].end
        BY <3>2, <3>3, WakeupTimeIs DEF DayInv
      <3>5. e.wake >= now[r]
        BY <1>1, <1>3, <3>1 DEF TimesInv
      <3>6. agent[a].end \in Int /\ e.wake \in Int
        BY <3>2, <3>4, NeverAssumption DEF AtActivity, Times
      <3> QED BY <1>1, <3>2, <3>4, <3>5, <3>6
    <2> QED BY <1>3, <2>1, <2>2
  <1> QED BY <1>2, <1>3, HeldIs

LEMMA DayAsks == DayInv => AskedInTime
PROOF
  <1> SUFFICES ASSUME DayInv, NEW r \in Ranks
               PROVE  /\ pc[r] \in {"begin", "done"} =>
                           \A i \in 1..Len(asleep[r]) : asleep[r][i].wake >= now[r]
                      /\ pc[r] = "end" =>
                           \A a \in RangeOf(awake[r]) \cup RangeOf(ending[r]) :
                             Preplans(agent[a]) => agent[a].receiver # NoRequest
    BY Zenon DEF AskedInTime
  <1>1. TimesInv(r) /\ AskedInv(r)
    BY RankFacts
  <1>2. \A i \in 1..Len(asleep[r]) : asleep[r][i] \in RangeOf(asleep[r])
    BY DEF RangeOf
  <1> HIDE DEF NoRequest
  <1> QED BY <1>1, <1>2 DEF TimesInv, AskedInv, Awake, HasAsked

LEMMA DayTrips == DayInv /\ RequestInv => OneRequestPerTrip
PROOF
  <1> SUFFICES ASSUME DayInv, RequestInv PROVE OneRequestPerTrip
    OBVIOUS
  <1>1. OneRequestHeld
    BY HeldOnce
  <1>2. ASSUME NEW a \in Agents, agent[a].receiver # NoRequest
        PROVE  LET g == agent[a]
                   span == FindTripSpan(g.plan, g.elem)
               IN  /\ span.origin = g.elem
                   /\ g.receiver.from = g.plan[g.elem].name
                   /\ g.receiver.to = g.plan[span.destination].name
    <2> DEFINE g == agent[a]
    <2> HIDE DEF NoRequest
    <2>1. /\ IsPlan(g.plan) /\ g.elem \in 1..Len(g.plan) /\ AsksForNext(g)
      BY <1>2 DEF DayInv, Follows
    <2>2. FindTripSpan(g.plan, g.elem).origin = g.elem
      <3> DEFINE p == g.plan
                 i == g.elem
      <3>1. IsPlan(p) /\ i \in 1..Len(p) /\ i < Len(p) /\ IsMain(p[i])
        BY <2>1 DEF AsksForNext
      <3> HIDE DEF p, i
      <3>2. FindTripSpan(p, i).origin = i
        BY <3>1, SpanStartsHere
      <3> QED BY <3>2 DEF p, i
    <2> QED BY <2>1, <2>2 DEF AsksForNext
  <1> HIDE DEF NoRequest
  <1> QED BY <1>1, <1>2 DEF OneRequestPerTrip

LEMMA DayKeepsMains == DayInv => MainActivitiesKept
  BY DEF DayInv, Follows, IsPlan, MainActivitiesKept

LEMMA DayAlways == PreSpec => [](DayInv /\ RequestInv)
PROOF
  <1>1. PreInit => DayInv /\ RequestInv /\ ChannelInv
    BY DayInit, RequestInit, ChannelInit
  <1>2. DayInv /\ RequestInv /\ ChannelInv /\ [PreNext]_preVars
          => (DayInv /\ RequestInv /\ ChannelInv)'
    BY DayStep, RequestStep, ChannelStep
  <1> QED BY <1>1, <1>2, PTL DEF PreSpec

\* At any time an agent is in exactly one of the queues of its rank, once.  No
\* activity ends before its time, and none is still going on in the tick after its
\* end (ActivityEngine::wake_up and ::end, TimeQueue).
THEOREM AgentsLeaveOnTime == PreSpec => []LeavesOnTime
  BY DayAlways, DayLeaves, PTL

\* Nobody oversleeps its preplanning horizon, and nobody departs without having asked
\* for its trip (ActivityEngine::notify_wakeup_all, react_to_woke_up).
THEOREM AgentsAskInTime == PreSpec => []AskedInTime
  BY DayAlways, DayAsks, PTL

\* The request that an agent holds the receiver of is its only one, and it is about
\* the trip the agent is about to make (react_to_woke_up, call_router,
\* react_to_activity_finished).
THEOREM RequestsAreForTheNextTrip == PreSpec => []OneRequestPerTrip
  BY DayAlways, DayTrips, PTL

\* Whatever the service answers, a plan goes through its main activities in their
\* order (replace_next_trip, advance_plan).
THEOREM PlansKeepMainActivities == PreSpec => []MainActivitiesKept
  BY DayAlways, DayKeepsMains, PTL
=============================================================================
