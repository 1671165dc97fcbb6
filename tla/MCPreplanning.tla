--------------------------- MODULE MCPreplanning ---------------------------
(* Small populations for TLC.  At home until a fixed time, at work for a      *)
(* duration, home again.                                                      *)
EXTENDS Preplanning, TLC

CONSTANTS a1, a2, a3

MainAct(name, end, dur, horizon) ==
  [kind |-> "act", name |-> name, main |-> TRUE, end |-> end, dur |-> dur, horizon |-> horizon]
Leg(mode) == [kind |-> "leg", mode |-> mode]
Stage == [kind |-> "act", name |-> "pt interaction", main |-> FALSE, end |-> None,
          dur |-> 0, horizon |-> None]

\* Home until `end`; asks for both trips.
Commuter(end, before, dur, horizon) ==
  << MainAct("home", end, None, before), Leg("pt"), MainAct("work", None, dur, horizon),
     Leg("pt"), MainAct("home2", None, None, 1) >>

\* a1 has a horizon that is longer than the time it has, a2 a short one; a3 does
\* not ask for its first trip.
TwoCommuters == (a1 :> Commuter(1, 3, 1, 0)) @@ (a2 :> Commuter(2, 1, 1, 2))
ThreeAgents == (a1 :> Commuter(1, 3, 1, 0)) @@ (a2 :> Commuter(1, 1, 1, 1))
                 @@ (a3 :> Commuter(1, None, 0, 1))
OneRankEach == (a1 :> 0) @@ (a2 :> 1)
OnOneRank == (a1 :> 0) @@ (a2 :> 0)
ThreeOnTwo == (a1 :> 0) @@ (a2 :> 0) @@ (a3 :> 1)

\* No trip, a direct trip, a trip with a change.
Trips == {<<>>, <<Leg("walk")>>, <<Leg("bus"), Stage, Leg("tram")>>}
\* No trip, a trip with a change.
Changes == {<<>>, <<Leg("bus"), Stage, Leg("tram")>>}
=============================================================================
