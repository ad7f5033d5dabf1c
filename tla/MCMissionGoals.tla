-------------------------- MODULE MCMissionGoals --------------------------
(***************************************************************************)
(* Two needs that share a belief, so that what one of them reports about   *)
(* the belief meets the other.                                             *)
(***************************************************************************)
EXTENDS MissionGoals

CONSTANTS b1, b2

MCBeliefs == {b1, b2}
MCNeeds == {{b1}, {b1, b2}}

\* The incumbent missions, the protocol, and the protocol that lets no detour end a view.
MCProtocols ==
  {[execution |-> FALSE, protection |-> FALSE],
   [execution |-> TRUE, protection |-> FALSE],
   [execution |-> TRUE, protection |-> TRUE]}
=============================================================================
