------------------------------ MODULE TripPlan ------------------------------
(***************************************************************************)
(* A person's selected plan and the trips in it.                           *)
(*                                                                         *)
(* A plan is a sequence of activities and legs in turn, beginning with an  *)
(* activity.  Activities between the legs of one trip (changing from bus   *)
(* to tram, say) are stage activities; a trip leads from one main activity *)
(* to the next.  Positions are one higher than in the code, which counts   *)
(* from zero.  A second is a tick.                                         *)
(***************************************************************************)
EXTENDS Integers, Sequences

CONSTANT Never   \* the largest SimTime
ASSUME NeverAssumption == Never \in Nat

\* An Option that is not set: an end time, a duration or a horizon.
None == -1

Times == 0..Never
Legs == [kind : {"leg"}, mode : STRING]
Activities == [kind : {"act"}, name : STRING, main : BOOLEAN, end : Times \cup {None},
               dur : Times \cup {None}, horizon : Times \cup {None}]

Elements == Legs \cup Activities
MainElements == {e \in Activities : e.main}

IsMain(e) == e.kind = "act" /\ e.main     \* not is_interaction()

\* saturating_add saturates at Duration::MAX only and panics (from_duration) if the
\* sum is no SimTime: durations are assumed to be far below that.
CmpEndTime(act, begin) ==
  IF act.end # None THEN act.end
  ELSE IF act.dur # None THEN begin + act.dur ELSE Never

MainsFrom(plan, start) == {i \in start..Len(plan) : IsMain(plan[i])}

\* Consecutive main activities with something between them.
TripSpans(plan, start) ==
  LET mains == MainsFrom(plan, start) IN
    {s \in [origin : mains, destination : mains] :
       /\ s.destination - s.origin > 1
       /\ \A k \in mains : k <= s.origin \/ k >= s.destination}

FindTripSpan(plan, start) ==
  CHOOSE s \in TripSpans(plan, start) :
    \A t \in TripSpans(plan, start) : s.origin <= t.origin

\* Slip: the range to replace includes the destination.
ReplaceTripElements_Destination(plan, span, elements) ==
  SubSeq(plan, 1, span.origin) \o elements \o SubSeq(plan, span.destination + 1, Len(plan))

ReplaceTripElements(plan, span, elements) ==
  SubSeq(plan, 1, span.origin) \o elements \o SubSeq(plan, span.destination, Len(plan))

\* Activities and legs in turn, an activity at both ends.
WellFormed(plan) ==
  /\ Len(plan) % 2 = 1
  /\ \A i \in 1..Len(plan) : plan[i].kind = (IF i % 2 = 1 THEN "act" ELSE "leg")
=============================================================================
