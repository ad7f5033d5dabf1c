-------------------------- MODULE MCDecisionUnit --------------------------
(***************************************************************************)
(* Two critical requirements of six, a window of three decisions of which  *)
(* two requests exhaust an item, three grades of an uncalibrated technical *)
(* belief (confident, out of distribution, not observed), and contexts     *)
(* with one thing amiss, or two that go together.                          *)
(***************************************************************************)
EXTENDS DecisionUnit, TLC

Grade(direct, cause, level) ==
  [Missing EXCEPT !.seen = TRUE, !.known = TRUE, !.direct = direct, !.cause = cause, !.level = level]

MCGrades ==
  {Grade(TRUE, "NONE", 20), Grade(TRUE, "EPISTEMIC", 50),
   [Grade(FALSE, "OBSERVATIONAL", 80) EXCEPT !.known = FALSE]}

Nominal == [NoContext EXCEPT !.motion = TRUE, !.link = TRUE, !.available = TRUE]
Unlinked == [Nominal EXCEPT !.link = FALSE]

MCContexts ==
  {Nominal, [Nominal EXCEPT !.motion = FALSE], [Nominal EXCEPT !.blocked = TRUE],
   [Nominal EXCEPT !.available = FALSE, !.routineStale = TRUE],
   [Nominal EXCEPT !.stale = Requirements], [Nominal EXCEPT !.disputed = Requirements],
   [Unlinked EXCEPT !.health = "FAULT"]}
  \cup {[Unlinked EXCEPT !.health = "RESERVE", !.pending = {r}] : r \in Requirements}

MCSymmetry == Permutations(Requirements)
=============================================================================
