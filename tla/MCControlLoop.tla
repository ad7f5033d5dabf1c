--------------------------- MODULE MCControlLoop ---------------------------
(* Instances of ControlLoop for TLC. *)
EXTENDS ControlLoop

Calm ==
  [estimate |-> "GOOD", stale |-> FALSE, region |-> "INSIDE", leak |-> FALSE,
   hwFault |-> FALSE, reported |-> {}, faulted |-> {}, other |-> "NORMAL"]

\* Every observation with at most one monitor out of its calm reading, and the pairs whose
\* monitors interact: breaches of the boundary without a trusted estimate, a thruster fault
\* as its two readers see it, and an emergency while the estimate is unusable. The stack
\* always has an estimate to assess, if only an old one: none is MISSING.
MCInputs ==
  {[Calm EXCEPT !.estimate = e, !.region = r] :
      e \in {"GOOD", "ELEVATED", "LOST"}, r \in {"INSIDE", "RISK", "OUTSIDE"}}
    \cup {[Calm EXCEPT !.stale = TRUE, !.region = r, !.leak = b] : r \in {"INSIDE", "OUTSIDE"}, b \in BOOLEAN}
    \cup {[Calm EXCEPT !.reported = T, !.faulted = U] : T, U \in SUBSET Thrusters}
    \cup {[Calm EXCEPT !.leak = b, !.hwFault = ~b] : b \in BOOLEAN}
    \cup {[Calm EXCEPT !.other = s] : s \in {"DEGRADED", "HOLD", "RETURN"}}
=============================================================================
