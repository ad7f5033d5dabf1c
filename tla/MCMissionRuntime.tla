-------------------------- MODULE MCMissionRuntime --------------------------
(***************************************************************************)
(* The four named modules and one domain model. Time is counted in control *)
(* periods. One window for all but navigation, as in                       *)
(* MissionRuntime.__init__, but as tight as MissionAssumption allows, so   *)
(* that one call missed shows: the code has four times the longest period. *)
(***************************************************************************)
EXTENDS MissionRuntime

CONSTANT model2t

MCModules == {navigation, egdc, mcbr, baac, model2t}
MCObservers == {model2t}
MCCritical == {navigation}
Longest == IF DecisionPeriod >= CommsPeriod THEN DecisionPeriod ELSE CommsPeriod
MCFreshness == [m \in MCModules |-> IF m = navigation THEN 1 ELSE Longest]
=============================================================================
