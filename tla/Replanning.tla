----------------------------- MODULE Replanning -----------------------------
(***************************************************************************)
(* Replanning of one person: StrategyManager::run chooses a strategy by    *)
(* its weight, lets it handle the person and then removes plans until the  *)
(* memory limit is met.  The draws of the random number generators are     *)
(* sets of possible choices; a panic is a result.                          *)
(***************************************************************************)
EXTENDS Integers, Sequences, FiniteSets, SequencesExt

CONSTANTS StrategyWeights,  \* per subpopulation, a sequence of [name, weight]
          MaxMemory,        \* replanning.max_agent_plan_memory
          Remover,          \* replanning.plan_selector_for_removal
          NoScore           \* the score of a plan that has none

Selectors == {"KeepLastSelected", "BestScore", "SelectRandom", "WorstScore"}
Strategies == Selectors \cup {"ReRoute"}

\* assert_known_strategy_name and plan_selector_from_config_name panic otherwise.
KnownNames ==
  /\ Remover \in Selectors
  /\ \A sub \in DOMAIN StrategyWeights : \A i \in DOMAIN StrategyWeights[sub] :
       StrategyWeights[sub][i].name \in Strategies /\ StrategyWeights[sub][i].weight \in Nat

ASSUME ReplanningAssumption == MaxMemory \in Nat /\ KnownNames

\* is_non_innovative_strategy
IsNonInnovative(name) == name \in Selectors

\* choose_strategy: the names that the weighted draw can return; none if there are
\* no weights for the subpopulation or no weight is left.
ChosenStrategies(sub, innovationDisabled) ==
  IF sub \notin DOMAIN StrategyWeights THEN {}
  ELSE LET entries == StrategyWeights[sub] IN
    {entries[i].name : i \in {k \in DOMAIN entries :
       entries[k].weight > 0 /\ (innovationDisabled => IsNonInnovative(entries[k].name))}}

-----------------------------------------------------------------------------
(* The selectors: the set of indices that select can return; no index means *)
(* that it panics.                                                          *)

SelectedIn(plans) == {i \in DOMAIN plans : plans[i].selected}

\* KeepLastSelector
KeepLast(plans) == IF Cardinality(SelectedIn(plans)) = 1 THEN SelectedIn(plans) ELSE {}

\* BestScoreSelector: max_by returns the last one of equals.
BestScore(plans) ==
  LET scored == {i \in DOMAIN plans : plans[i].score # NoScore} IN
    {i \in scored : \A k \in scored :
       plans[k].score < plans[i].score \/ (plans[k].score = plans[i].score /\ k <= i)}

\* plan_is_worse, score_for_ordering
PlanIsWorse(candidate, current) ==
  \/ candidate = NoScore /\ current # NoScore
  \/ candidate # NoScore /\ current # NoScore /\ candidate < current

\* Slip: the selected plan can be removed like any other.
Removable_All(plans) == DOMAIN plans

\* Unselected plans are preferred.
Removable(plans) ==
  IF \E i \in DOMAIN plans : ~plans[i].selected
    THEN {i \in DOMAIN plans : ~plans[i].selected} ELSE DOMAIN plans

\* WorstScoreSelector: the first one of equals.
WorstScore(plans) ==
  LET candidates == Removable(plans) IN
    {i \in candidates : \A k \in candidates :
       /\ ~PlanIsWorse(plans[k].score, plans[i].score)
       /\ k < i => PlanIsWorse(plans[i].score, plans[k].score)}

SelectBy(name, plans) ==
  CASE name \in {"KeepLastSelected", "ReRoute"} -> KeepLast(plans)
    [] name = "BestScore" -> BestScore(plans)
    [] name = "SelectRandom" -> DOMAIN plans
    [] name = "WorstScore" -> WorstScore(plans)

-----------------------------------------------------------------------------
(* The strategies.                                                          *)

\* The copy of plan i becomes the selected one.
CopyPlan(plans, i) ==
  Append([k \in DOMAIN plans |-> [plans[k] EXCEPT !.selected = FALSE]],
         [plans[i] EXCEPT !.selected = TRUE])

\* GenericPlanStrategy::handle.  A selector alone changes nothing, ReRouteModule is
\* not implemented.
Handle(name, plans) ==
  {[plans |-> IF name = "ReRoute" THEN CopyPlan(plans, i) ELSE plans,
    panics |-> name = "ReRoute"] : i \in SelectBy(name, plans)}
  \cup (IF SelectBy(name, plans) = {} THEN {[plans |-> plans, panics |-> TRUE]} ELSE {})

\* remove_plans_if_needed: the results of its while loop.
RemovePlans(plans) ==
  LET surplus == IF Len(plans) > MaxMemory THEN Len(plans) - MaxMemory ELSE 0
      after[n \in 0..surplus] ==
        IF n = 0 THEN {plans}
        ELSE UNION {{RemoveAt(s, i) : i \in SelectBy(Remover, s)} : s \in after[n - 1]}
  IN after[surplus]

\* What the strategy that is chosen makes of the plans, if there is one.
Handled(names, plans) ==
  IF names = {} THEN {[plans |-> plans, panics |-> FALSE]}
  ELSE UNION {Handle(name, plans) : name \in names}

\* Plans are removed from what a strategy left, unless it has panicked.
Trimmed(h) ==
  IF h.panics THEN {h}
  ELSE IF RemovePlans(h.plans) = {} THEN {[plans |-> h.plans, panics |-> TRUE]}
  ELSE {[plans |-> left, panics |-> FALSE] : left \in RemovePlans(h.plans)}

\* StrategyManager::run on a person's plans.
ReplanResults(sub, plans, innovationDisabled) ==
  UNION {Trimmed(h) : h \in Handled(ChosenStrategies(sub, innovationDisabled), plans)}
=============================================================================
