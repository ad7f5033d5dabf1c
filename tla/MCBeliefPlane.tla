---------------------------- MODULE MCBeliefPlane ---------------------------
\* Readings of the structure (s), of a shared camera capture (g), surveys (v) and probes of the water
\* (p); the second reading of the structure, the second survey and the probe are of tick 2.
EXTENDS BeliefPlane

CONSTANTS s1, s2, g1, g2, v1, v2, p1

MCObservations == Structural \cup Geometric \cup Survey \cup Probe

MCTimeOf == [o \in MCObservations |-> IF o \in {s2, v2, p1} THEN 2 ELSE 1]

MCSensorOf == [o \in MCObservations |->
  CASE o \in Structural -> "gauge" [] o \in Geometric -> "camera" [] o \in Survey -> "survey" [] OTHER -> "probe"]

MCCaptures == [o \in Geometric |-> g1]
=============================================================================
