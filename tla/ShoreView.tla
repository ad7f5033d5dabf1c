------------------------------ MODULE ShoreView ------------------------------
(***************************************************************************)
(* What the link promises the shore: it holds, of each belief, a view the  *)
(* vehicle published, whole and never older than the one it held before,   *)
(* and an alert of a revision that exists.  Nothing is said of losses,     *)
(* queues, deltas or the order of arrival.                                 *)
(***************************************************************************)
EXTENDS BeliefDelta

CONSTANT Beliefs  \* the beliefs that may be published

VARIABLES
  published,  \* per belief: the newest revision given to the link
  view,       \* per belief: the view on shore
  alert       \* per belief: the revision of the alert on shore (0: none)

vars == <<published, view, alert>>

Init ==
  /\ published = [b \in Beliefs |-> 0]
  /\ view = [b \in Beliefs |-> NoView]
  /\ alert = [b \in Beliefs |-> 0]

Publish(b) ==
  /\ published' = [published EXCEPT ![b] = @ + 1]
  /\ UNCHANGED <<view, alert>>

\* The shore learns a newer revision, an alert of one, or both.
Learn(b) ==
  /\ \E r \in view[b].rev..published[b] :
       view' = [view EXCEPT ![b] = IF r = @.rev THEN @ ELSE ViewOf(r)]
  /\ \E r \in alert[b]..published[b] : alert' = [alert EXCEPT ![b] = r]
  /\ UNCHANGED published

Next == \E b \in Beliefs : Publish(b) \/ Learn(b)

Spec == Init /\ [][Next]_vars
=============================================================================
