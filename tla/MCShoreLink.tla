----------------------------- MODULE MCShoreLink -----------------------------
(* Two beliefs, one routine and one critical value, three offers, one outage. *)
EXTENDS ShoreLink

CONSTANTS b1, b2

MCBeliefs == {b1, b2}
MCValues == {1, 2}
=============================================================================
