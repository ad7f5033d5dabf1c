----------------------------- MODULE ShoreLink ------------------------------
(***************************************************************************)
(* The link to shore (src/conrad/orchestration/comms.py): the intake that  *)
(* coalesces what the mission wants reported, the BAAC sender, the         *)
(* acoustic channel (src/conrad/communication/channel.py) and the store on *)
(* shore (ReceiverStore of receiver.py).  One ShoreLink.step is the phases *)
(* plan, transmit and poll; nothing of the mission runs between them.      *)
(* Chunks may be lost, an increment takes 0 to MaxDelay steps to arrive,   *)
(* so that a later one may come first, and the link goes down and up.      *)
(***************************************************************************)
EXTENDS BaacSender

CONSTANTS
  MaxRevision,   \* bound: revisions of one belief
  MaxOffers,     \* bound: messages the mission offers
  MaxOutages,    \* bound: outages of the link
  Values,        \* mission values a message may have
  Budget,        \* packets that fit one step, at most
  MaxDelay,      \* steps an increment may take to arrive
  Reoffer        \* steps between two offers of a belief to the sender

VARIABLES
  intent,      \* per belief: the newest revision the mission wants reported (intent_latest)
  pending,     \* per belief: revision and value waiting for flush (revision 0: none)
  wait,        \* per belief: steps until it may be offered again
  critOffered, \* beliefs of which a critical message was offered to the sender
  sender,      \* the BAAC sender
  inFlight,    \* increments that left and have not arrived
  view,        \* ReceiverStore.views
  alert,       \* ReceiverStore.alerts: the revision (0: none)
  linkUp,      \* the channel's state
  wasUp,       \* BAACSender._link_was_up
  phase,       \* where the step is
  plan,        \* increments planned and not yet sent in this step
  budget,      \* packets left for this step
  offers,      \* messages offered so far: the clock of ages, too
  outages,     \* outages so far
  finding      \* history: per belief, the newest revision offered with a critical value

shoreVars == <<view, alert>>
intakeVars == <<intent, pending, wait, critOffered, offers, finding>>
linkVars == <<linkUp, outages>>
vars == <<intakeVars, sender, inFlight, shoreVars, linkVars, wasUp, phase, plan, budget>>

ASSUME LinkAssumption ==
  /\ {MaxRevision, MaxOffers, MaxOutages, Budget, MaxDelay, Reoffer, Capacity, CriticalValue} \subseteq Nat
  /\ Budget > 0
  /\ Values \subseteq Nat \ {0}
  /\ IsFiniteSet(Beliefs)

Nothing == [rev |-> 0, value |-> 0]

Init ==
  /\ intent = [b \in Beliefs |-> 0]
  /\ pending = [b \in Beliefs |-> Nothing]
  /\ wait = [b \in Beliefs |-> 0]
  /\ critOffered = {}
  /\ sender = NewSender
  /\ inFlight = {}
  /\ view = [b \in Beliefs |-> NoView]
  /\ alert = [b \in Beliefs |-> 0]
  /\ linkUp = TRUE /\ wasUp = FALSE
  /\ phase = "idle" /\ plan = <<>> /\ budget = 0
  /\ offers = 0 /\ outages = 0
  /\ finding = [b \in Beliefs |-> 0]

-----------------------------------------------------------------------------
(* Intake *)

\* ShoreLink.offer of a belief's head, new or offered before with another value.
OfferToLink(b, r, v) ==
  /\ phase = "idle" /\ offers < MaxOffers
  /\ r \in {intent[b], intent[b] + 1} \cap 1..MaxRevision
  /\ pending' = IF r >= pending[b].rev
                THEN [pending EXCEPT ![b] = [rev |-> r, value |-> Larger(v, @.value)]] ELSE pending
  /\ intent' = [intent EXCEPT ![b] = Larger(r, @)]
  /\ finding' = IF Critical(v) THEN [finding EXCEPT ![b] = r] ELSE finding
  /\ offers' = offers + 1
  /\ UNCHANGED <<wait, critOffered, sender, inFlight, shoreVars, linkVars, wasUp, phase, plan, budget>>

FirstCritical(b) == Critical(pending[b].value) /\ b \notin critOffered

\* ShoreLink.flush: what is due, and at once the first critical message of a belief.
Flushed == {b \in Beliefs : pending[b].rev > 0 /\ (FirstCritical(b) \/ wait[b] = 0)}

\* The sender once flush has offered it all of that.
AfterFlush == OfferAll(sender, [b \in Flushed |-> pending[b]], offers)

\* ShoreLink.step up to the plan: flush, then BAACSender.step, which builds the queue again when
\* the link has come back.
BeginStep ==
  /\ phase = "idle"
  /\ pending' = [b \in Beliefs |-> IF b \in Flushed THEN Nothing ELSE pending[b]]
  /\ wait' = [b \in Beliefs |-> IF b \in Flushed THEN Reoffer ELSE wait[b]]
  /\ critOffered' = critOffered \cup {b \in Flushed : Critical(pending[b].value)}
  /\ sender' = IF linkUp /\ ~wasUp THEN Reevaluate(AfterFlush) ELSE AfterFlush
  /\ wasUp' = linkUp
  /\ \E packets \in 1..Budget : budget' = IF linkUp THEN packets ELSE 0
  /\ phase' = "plan"
  /\ UNCHANGED <<intent, offers, finding, inFlight, shoreVars, linkVars, plan>>

-----------------------------------------------------------------------------
(* The step of the sender *)

\* schedule(): one more increment.
Plan ==
  /\ phase = "plan"
  /\ \E inc \in NextIncrements(sender, plan, budget) :
       /\ plan' = Append(plan, inc)
       /\ budget' = budget - inc.chunk
  /\ UNCHANGED <<intakeVars, sender, inFlight, shoreVars, linkVars, wasUp, phase>>

\* ... until nothing more fits or is worth sending.
PlanDone ==
  /\ phase = "plan"
  /\ NextIncrements(sender, plan, budget) = {}
  /\ phase' = "transmit"
  /\ budget' = 0
  /\ UNCHANGED <<intakeVars, sender, inFlight, shoreVars, linkVars, wasUp, plan>>

\* The unit the next increment of the plan is a part of, if it is still at that level.
Planned == {e \in sender.queue : e.b = Head(plan).b /\ e.level = Head(plan).from}

\* What is left of the unit's entry once the increment has all been delivered.
Advanced(s, e, to) ==
  [s EXCEPT !.queue = (@ \ {e}) \cup
     IF to = 2 THEN {} ELSE {[e EXCEPT !.level = to, !.partLevel = NoLevel, !.partDone = 0]}]

\* Mutant: the sender takes any chunk for the whole increment.
TransmitEager(b, arrives) ==
  /\ phase = "transmit" /\ plan # <<>> /\ Head(plan).b = b
  /\ \E e \in Planned :
       LET inc == Head(plan)
           levels == {l \in LevelsOf(e) : inc.from < l /\ l <= inc.to}
       IN /\ sender' = Advanced(Acknowledge(sender, e, levels), e, inc.to)
          /\ inFlight' = IF inc.chunk < inc.bits THEN inFlight ELSE inFlight \cup
                {[b |-> b, alert |-> IF 0 \in levels THEN e.rev ELSE 0,
                  deltas |-> {Delta(e.base, e.rev) : l \in levels \cap {1}}, left |-> arrives]}
  /\ plan' = Tail(plan)
  /\ UNCHANGED <<intakeVars, shoreVars, linkVars, wasUp, phase, budget>>

\* A chunk gets through: the increment goes on, or it is complete, K_R counts it as received and
\* it is on its way for some steps.
Transmit(b, arrives) ==
  /\ phase = "transmit" /\ plan # <<>> /\ Head(plan).b = b
  /\ \E e \in Planned :
       LET inc == Head(plan)
           levels == {l \in LevelsOf(e) : inc.from < l /\ l <= inc.to}
       IN IF inc.chunk < inc.bits
          THEN /\ arrives = 0
               /\ sender' = [sender EXCEPT !.queue = (@ \ {e}) \cup
                     {[e EXCEPT !.partLevel = inc.to,
                                !.partDone = inc.chunk + IF e.partLevel = inc.to THEN @ ELSE 0]}]
               /\ UNCHANGED inFlight
          ELSE /\ sender' = Advanced(Acknowledge(sender, e, levels), e, inc.to)
               /\ inFlight' = inFlight \cup
                     {[b |-> b, alert |-> IF 0 \in levels THEN e.rev ELSE 0,
                       deltas |-> {Delta(e.base, e.rev) : l \in levels \cap {1}}, left |-> arrives]}
  /\ plan' = Tail(plan)
  /\ UNCHANGED <<intakeVars, shoreVars, linkVars, wasUp, phase, budget>>

\* A chunk is lost, or its unit is no longer at the level the plan assumed.
NotTransmitted ==
  /\ phase = "transmit" /\ plan # <<>>
  /\ plan' = Tail(plan)
  /\ UNCHANGED <<intakeVars, sender, inFlight, shoreVars, linkVars, wasUp, phase, budget>>

\* All is sent: the deferred revisions are offered, then what arrives in this step is polled.
TransmitDone ==
  /\ phase = "transmit" /\ plan = <<>>
  /\ sender' = ReleaseDeferred(sender, offers)
  /\ phase' = "poll"
  /\ UNCHANGED <<intakeVars, inFlight, shoreVars, linkVars, wasUp, plan, budget>>

\* Mutant: the store applies deltas to whatever view it has.
ReceiveUnchecked(v, d) ==
  IF v.rev >= d.rev THEN v ELSE Applied(v, d)

\* ReceiverStore._apply: an older revision is ignored, deltas on another base change nothing.
Receive(v, d) == IF v.rev < d.rev /\ Fits(v, d) THEN Applied(v, d) ELSE v

\* ReceiverStore._apply asks for a resynchronisation.
AsksResync(v, d) == v.rev < d.rev /\ ~Fits(v, d)

\* BAACSender.poll: one increment reaches the store, whose request is answered at once.
Arrive(f) ==
  /\ phase = "poll" /\ f.left = 0
  /\ inFlight' = inFlight \ {f}
  /\ alert' = [alert EXCEPT ![f.b] = Larger(@, f.alert)]
  /\ view' = [view EXCEPT ![f.b] = IF f.deltas = {} THEN @ ELSE Receive(@, CHOOSE d \in f.deltas : TRUE)]
  /\ sender' = IF \E d \in f.deltas : AsksResync(view[f.b], d)
               THEN HandleResync(sender, f.b, offers) ELSE sender
  /\ UNCHANGED <<intakeVars, linkVars, wasUp, phase, plan, budget>>

\* The end of the step: a step of time for what is on its way and for the intake.
EndStep ==
  /\ phase = "poll" /\ \A f \in inFlight : f.left > 0
  /\ inFlight' = {[f EXCEPT !.left = @ - 1] : f \in inFlight}
  /\ wait' = [b \in Beliefs |-> IF wait[b] > 0 THEN wait[b] - 1 ELSE 0]
  /\ phase' = "idle"
  /\ UNCHANGED <<intent, pending, critOffered, offers, finding, sender, shoreVars, linkVars, wasUp, plan, budget>>

-----------------------------------------------------------------------------
(* The channel between steps *)

LinkGoesDown ==
  /\ phase = "idle" /\ linkUp /\ outages < MaxOutages
  /\ linkUp' = FALSE /\ outages' = outages + 1
  /\ UNCHANGED <<intakeVars, sender, inFlight, shoreVars, wasUp, phase, plan, budget>>

LinkComesUp ==
  /\ phase = "idle" /\ ~linkUp
  /\ linkUp' = TRUE
  /\ UNCHANGED <<intakeVars, sender, inFlight, shoreVars, outages, wasUp, phase, plan, budget>>

Step == BeginStep \/ Plan \/ PlanDone \/ NotTransmitted \/ TransmitDone \/ EndStep \/ \E f \in inFlight : Arrive(f)

Next ==
  \/ \E b \in Beliefs, v \in Values : OfferToLink(b, intent[b], v) \/ OfferToLink(b, intent[b] + 1, v)
  \/ Step
  \/ \E b \in Beliefs, arrives \in 0..MaxDelay : Transmit(b, arrives)
  \/ LinkGoesDown
  \/ LinkComesUp

\* The mission's loop goes from phase to phase.
Turn == phase' \in {"idle", "plan", "transmit", "poll"} \ {phase}

\* The loop goes on, outages end, and a chunk that is sent again and again gets through.
Fairness ==
  /\ WF_phase(Turn)
  /\ SF_vars(LinkComesUp)
  /\ \A b \in Beliefs : SF_vars(\E arrives \in 0..MaxDelay : Transmit(b, arrives))

Spec == Init /\ [][Next]_vars
FairSpec == Spec /\ Fairness

-----------------------------------------------------------------------------
TypeOK ==
  /\ intent \in [Beliefs -> 0..MaxRevision]
  /\ pending \in [Beliefs -> [rev : 0..MaxRevision, value : Values \cup {0}]]
  /\ wait \in [Beliefs -> 0..Reoffer]
  /\ critOffered \subseteq Beliefs
  /\ \A e \in sender.queue : e.b \in Beliefs /\ e.level \in {NoLevel, 0, 1} /\ e.partLevel \in {NoLevel} \cup Levels
  /\ sender.deferred \in [Beliefs -> Values \cup {0}]
  /\ \A f \in inFlight : f.left \in 0..MaxDelay /\ Cardinality(f.deltas) <= 1
  /\ \A b \in Beliefs : view[b].rev \in 0..MaxRevision /\ alert[b] \in 0..MaxRevision
  /\ phase \in {"idle", "plan", "transmit", "poll"}

\* Whatever coalesces, is deferred, built again or asked for again, a belief has at most one unit
\* in the queue: the shore is not sent two competing versions.
OneUnitPerBelief == \A e, x \in sender.queue : e.b = x.b => e = x

\* K_R is never ahead of the truth: the revision the sender believes the shore to have is on shore
\* or on its way there, so that a delta against it can be applied.
KnowledgeIsBacked ==
  \A b \in Beliefs :
    \/ sender.known[b].rev <= view[b].rev
    \/ \E f \in inFlight : f.b = b /\ \E d \in f.deltas : d.rev = sender.known[b].rev

\* No order of offers, resynchronisations, outages and overload forgets a critical finding: until
\* the shore has that revision, a newer one or its alert, it is waiting somewhere as a critical one
\* or on its way.
NoFindingForgotten ==
  \A b \in Beliefs :
    \/ view[b].rev >= finding[b]
    \/ pending[b].rev >= finding[b] /\ Critical(pending[b].value)
    \/ \E e \in sender.queue : e.b = b /\ e.rev >= finding[b] /\ Critical(e.value)
    \/ Critical(sender.deferred[b]) /\ sender.latest[b].rev >= finding[b]
    \/ \E f \in inFlight : f.b = b /\ \E d \in f.deltas : d.rev >= finding[b]
    \/ alert[b] >= finding[b] \/ \E f \in inFlight : f.b = b /\ f.alert >= finding[b]

\* An increment under way of a critical unit is thrown away by a lost link alone, not by fresher
\* revisions, resynchronisations or overload, nor by what is sent of other beliefs: a finding that
\* is revised faster than one increment crosses the link still gets through.
ProgressKept ==
  [][\A e \in sender.queue :
       InProgress(e) /\ Critical(e.value) =>
         \/ e \in sender'.queue
         \/ phase = "transmit" /\ plan # <<>> /\ Head(plan).b = e.b
         \/ phase = "idle" /\ linkUp /\ ~wasUp]_vars

\* The shore ends with the newest revision of each belief, unless overload took its unit.
LatestReachesShore ==
  \A b \in Beliefs : <>[](view[b].rev = intent[b] \/ b \in sender.dropped)

\* A critical finding gets to the shore whatever else is queued, lost or reordered.
FindingReachesShore ==
  \A b \in Beliefs : \A r \in 1..MaxRevision : finding[b] = r ~> view[b].rev >= r

-----------------------------------------------------------------------------
Promise == INSTANCE ShoreView WITH published <- intent

\* The link implements what it promises: the shore's view is always one the vehicle published.
ImplementsShoreView == Promise!Spec
=============================================================================
