------------------------------ MODULE MCEvents ------------------------------
(* Two partitions.  Agent 1 drives from link 1, in partition 1, over link 2  *)
(* to link 3, both in partition 0, and may be held up on the way.  Agent 2   *)
(* walks from link 2 to link 1 while agent 1 drives the other way, and is    *)
(* back on link 2 at once, with pt or on foot.                               *)
EXTENDS EventPipeline

MCOwner == <<1, 0, 0>>
MCDuration == <<1, 1, 1>>

Act(link, end, dur) ==
  [link |-> link, type |-> "act", coord |-> <<link, 0, 7>>, end |-> end, dur |-> dur]
Leg(mode, route, pt) ==
  [mode |-> mode, rmode |-> mode, route |-> route, dist |-> 5, trav |-> TickToTime(1), pt |-> pt]

MCPlans ==
  {  <<  <<Act(1, 0, Never), Leg("car", <<1, 2, 3>>, "none"), Act(3, Never, Never)>>,
         <<Act(2, 0, Never), Leg("walk", <<2, 1>>, "none"), Act(1, Never, 0), back, Act(2, Never, Never)>>  >> :
     back \in {Leg("pt", <<1, 2>>, "line"), Leg("walk", <<1, 2>>, "none")}  }
=============================================================================
