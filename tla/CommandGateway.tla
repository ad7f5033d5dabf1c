--------------------------- MODULE CommandGateway ---------------------------
(***************************************************************************)
(* What the command gateway (src/conrad/runtime/command_gateway.py)        *)
(* promises of retries, whatever adapter it has: an id is handed to the    *)
(* adapter at most once, and the adapter accepts it, refuses it or raises, *)
(* all of that in one step.  A refusal of the gateway changes nothing.     *)
(***************************************************************************)
EXTENDS Naturals

CONSTANT Ids  \* the command ids a producer may submit, and submit again

VARIABLES
  seen,     \* the ids the gateway remembers
  taken,    \* the ids the adapter has accepted
  offered   \* how often an id was handed to the adapter

vars == <<seen, taken, offered>>

Init ==
  /\ seen = {}
  /\ taken = {}
  /\ offered = [i \in Ids |-> 0]

\* An admitted command goes to the adapter; whether it refuses or raises makes no difference here.
Send(i, accepted) ==
  /\ i \notin seen
  /\ seen' = seen \cup {i}
  /\ offered' = [offered EXCEPT ![i] = @ + 1]
  /\ taken' = IF accepted THEN taken \cup {i} ELSE taken

Next == \E i \in Ids, accepted \in BOOLEAN : Send(i, accepted)

Spec == Init /\ [][Next]_vars
=============================================================================
