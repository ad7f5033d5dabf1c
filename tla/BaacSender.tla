----------------------------- MODULE BaacSender -----------------------------
(***************************************************************************)
(* The BAAC sender (src/conrad/communication/baac.py with queue.py,        *)
(* units.py, receiver.py and scheduler.py) under its own policy: a         *)
(* bounded queue of units, the sender's model K_R of what the receiver     *)
(* has, and the greedy plan of one step.  The handlers are operators on    *)
(* one record                                                              *)
(*   queue     the units waiting or half sent                              *)
(*   latest    the last message offered of each belief, with its value     *)
(*   deferred  the value of a fresher revision that waits for the          *)
(*             increment under way of its belief (0: none waits)           *)
(*   known     K_R: the view the receiver is assumed to have               *)
(*   alerted   the revision of the last alert acknowledged (0: none)       *)
(*   dropped   beliefs whose unit overload took since they were offered    *)
(* Sizes are packets.  Level 2 stands for the evidence levels F2 to F4.    *)
(* Deadlines and the energy budget, both off by default, are left out.     *)
(***************************************************************************)
EXTENDS BeliefDelta, Integers, FiniteSets, Sequences, SequencesExt, FiniteSetsExt

CONSTANTS
  Beliefs,        \* the beliefs that may be offered
  CriticalValue,  \* a mission value from here on makes a unit critical
  Capacity        \* packets the queue may hold

Levels == 0..2
NoLevel == -1
Packets == <<1, 2, 1>>      \* of the alert, of the deltas, of the evidence
Retained == <<30, 70, 85>>  \* percent of the information, by level

Critical(v) == v >= CriticalValue
Larger(x, y) == IF x > y THEN x ELSE y

NewSender ==
  [queue |-> {}, dropped |-> {},
   latest |-> [b \in Beliefs |-> [rev |-> 0, value |-> 0]],
   deferred |-> [b \in Beliefs |-> 0],
   known |-> [b \in Beliefs |-> NoView],
   alerted |-> [b \in Beliefs |-> 0]]

-----------------------------------------------------------------------------
(* Units and the queue *)

\* UnitContent.levels: only a critical unit has the alert.
LevelsOf(e) == {l \in Levels : l > 0 \/ Critical(e.value)}

\* The packets of the unit's increments up to a level.
SizeTo(e, level) == MapThenSumSet(LAMBDA l : Packets[l + 1], {l \in LevelsOf(e) : l <= level})

\* QueueEntry.remaining_bits: what is under way is not taken off.
Remaining(e) == SizeTo(e, 2) - SizeTo(e, e.level)

QueuedPackets(queue) == MapThenSumSet(Remaining, queue)

InProgress(e) == e.partLevel # NoLevel

\* UnitBuilder.belief_unit, with K_R's view of the belief as the base of its deltas.
Unit(s, b, r, value, created) ==
  [b |-> b, rev |-> r, value |-> value, created |-> created, base |-> s.known[b],
   level |-> NoLevel, partLevel |-> NoLevel, partDone |-> 0]

\* The beliefs in the order in which flush goes through them; ties are broken by it.
Order == SetToSeq(Beliefs)
Place(b) == CHOOSE i \in DOMAIN Order : Order[i] = b

\* Overload takes the unit of least value first, the newest one among equals.
GoesBefore(x, y) ==
  \/ x.value < y.value
  \/ x.value = y.value /\ x.created > y.created
  \/ x.value = y.value /\ x.created = y.created /\ Place(x.b) < Place(y.b)

\* Mutant: overload takes the unit of least value, critical or not.
OverloadAny(queue) ==
  {e \in queue : QueuedPackets({x \in queue : ~GoesBefore(x, e)}) > Capacity}

\* PersistentQueue.enforce_capacity: the non-critical units that go, one after the other, until the
\* rest fits or only critical ones are left.
Overload(queue) ==
  {e \in queue : /\ ~Critical(e.value)
                 /\ QueuedPackets({x \in queue : Critical(x.value) \/ ~GoesBefore(x, e)}) > Capacity}

\* PersistentQueue.put
Put(s, e) ==
  LET gone == Overload(s.queue \cup {e})
  IN [s EXCEPT !.queue = (@ \cup {e}) \ gone, !.dropped = @ \cup {x.b : x \in gone}]

-----------------------------------------------------------------------------
(* Intake *)

\* Mutant: a fresher revision replaces the unit even while an increment of it is under way.
OfferAlways(s0, b, r, value, now) ==
  LET s == [s0 EXCEPT !.latest[b] = [rev |-> r, value |-> value], !.dropped = @ \ {b}]
      mine == {e \in s.queue : e.b = b}
      best == Max({value, s.deferred[b]} \cup {e.value : e \in mine})
      rest == [s EXCEPT !.queue = @ \ mine, !.deferred[b] = 0]
  IN IF HasNews(s.known[b], r)
     THEN Put(rest, Unit(s, b, r, best, Min({now} \cup {e.created : e \in mine})))
     ELSE rest

\* Mutant: the superseded units stay in the queue.
OfferKeepsOld(s0, b, r, value, now) ==
  LET s == [s0 EXCEPT !.latest[b] = [rev |-> r, value |-> value], !.dropped = @ \ {b}]
      mine == {e \in s.queue : e.b = b}
  IN IF \E e \in mine : InProgress(e) THEN [s EXCEPT !.deferred[b] = Larger(value, @)]
     ELSE IF HasNews(s.known[b], r) THEN Put(s, Unit(s, b, r, value, now)) ELSE s

\* Mutant: a revision that has to wait for an increment under way is not remembered.
OfferForgetsDeferred(s0, b, r, value, now) ==
  LET s == [s0 EXCEPT !.latest[b] = [rev |-> r, value |-> value], !.dropped = @ \ {b}]
      mine == {e \in s.queue : e.b = b}
      best == Max({value, s.deferred[b]} \cup {e.value : e \in mine})
      rest == [s EXCEPT !.queue = @ \ mine, !.deferred[b] = 0]
  IN IF \E e \in mine : InProgress(e) THEN s
     ELSE IF HasNews(s.known[b], r)
          THEN Put(rest, Unit(s, b, r, best, Min({now} \cup {e.created : e \in mine})))
          ELSE rest

\* BAACSender.offer: the unit takes the place of the belief's older one and keeps its age and the
\* larger value, unless an increment of that one is under way: then the revision is deferred.
Offer(s0, b, r, value, now) ==
  LET s == [s0 EXCEPT !.latest[b] = [rev |-> r, value |-> value], !.dropped = @ \ {b}]
      mine == {e \in s.queue : e.b = b}
      best == Max({value, s.deferred[b]} \cup {e.value : e \in mine})
      rest == [s EXCEPT !.queue = @ \ mine, !.deferred[b] = 0]
  IN IF \E e \in mine : InProgress(e) THEN [s EXCEPT !.deferred[b] = Larger(value, @)]
     ELSE IF HasNews(s.known[b], r)
          THEN Put(rest, Unit(s, b, r, best, Min({now} \cup {e.created : e \in mine})))
          ELSE rest

\* Offers of several beliefs, with their revisions and values, one after the other.
OfferAll(s, news, now) ==
  LET after[i \in 0..Cardinality(Beliefs)] ==
        IF i = 0 THEN s
        ELSE IF Order[i] \in DOMAIN news
             THEN Offer(after[i - 1], Order[i], news[Order[i]].rev, news[Order[i]].value, now)
             ELSE after[i - 1]
  IN after[Cardinality(Beliefs)]

\* BAACSender.handle_resync: nothing is assumed any more, and the latest message is offered again.
HandleResync(s, b, now) ==
  LET forgot == [s EXCEPT !.known[b] = NoView]
  IN IF s.latest[b].rev = 0 THEN forgot
     ELSE Offer(forgot, b, s.latest[b].rev, s.latest[b].value, now)

\* A unit queued when the link came back is built again from the latest message and K_R, from its
\* first level on; also one that overload took meanwhile.
Rebuilt(s, e) == Unit(s, e.b, s.latest[e.b].rev, Larger(s.latest[e.b].value, e.value), e.created)

Rebuild(s, acc, e) ==
  LET rest == [acc EXCEPT !.queue = @ \ {e}]
  IN IF HasNews(s.known[e.b], s.latest[e.b].rev) THEN Put(rest, Rebuilt(s, e)) ELSE rest

\* PersistentQueue.entries: the oldest first.
Entries(queue) ==
  CHOOSE order \in [1..Cardinality(queue) -> queue] :
    \A i, j \in DOMAIN order : i < j => order[i] # order[j] /\ order[i].created <= order[j].created

\* BAACSender.reevaluate
Reevaluate(s) ==
  LET after[i \in 0..Cardinality(s.queue)] ==
        IF i = 0 THEN s ELSE Rebuild(s, after[i - 1], Entries(s.queue)[i])
  IN after[Cardinality(s.queue)]

\* BAACSender._release_deferred
ReleaseDeferred(s, now) ==
  LET busy == {e.b : e \in {x \in s.queue : InProgress(x)}}
      free == {b \in Beliefs : s.deferred[b] > 0} \ busy
  IN OfferAll(s, [b \in free |-> [rev |-> s.latest[b].rev, value |-> Larger(s.latest[b].value, s.deferred[b])]], now)

-----------------------------------------------------------------------------
(* The plan of a step: a sequence of increments, each a part of one unit *)

\* ReceiverKnowledge.acknowledge of the increments a transmission carried.
Acknowledge(s, e, levels) ==
  LET d == Delta(e.base, e.rev)
  IN [s EXCEPT
       !.alerted[e.b] = IF 0 \in levels THEN Larger(@, e.rev) ELSE @,
       !.known[e.b] = IF 1 \notin levels THEN @ ELSE IF Fits(@, d) THEN Applied(@, d) ELSE NoView]

\* novelty(): zero for what K_R says the receiver has.
Novel(s, e, level) ==
  CASE level = 0 -> s.alerted[e.b] < e.rev
    [] level = 1 -> s.known[e.b].rev < e.rev
    [] OTHER -> TRUE

\* receiver_credit(): what the receiver has of this belief already; the first alert is exempt.
Credit(s, e, level) ==
  IF level = 0 /\ s.alerted[e.b] = 0 THEN 0
  ELSE Larger(IF s.known[e.b] = NoView THEN 0
              ELSE IF s.known[e.b].rev >= e.rev THEN Retained[2] ELSE Retained[2] \div 2,
              IF s.alerted[e.b] >= e.rev THEN Retained[1] ELSE 0)

\* An increment whose value is not positive is not considered.
Worth(s, e, from, level) ==
  /\ Novel(s, e, level)
  /\ Retained[level + 1] > Larger(IF from = NoLevel THEN 0 ELSE Retained[from + 1], Credit(s, e, level))

\* A critical unit's alert and deltas go before all else until the receiver has the belief.
Preempts(s, e, level) ==
  /\ Critical(e.value)
  /\ \/ level = 0 /\ s.alerted[e.b] = 0
     \/ level = 1 /\ s.known[e.b] = NoView

\* schedule(): the increments that may be planned next, given the plan so far and the packets left.
\* A unit whose last chunk did not end its increment waits for the next step; an increment under
\* way can only be continued.
Sendable(s, plan, budget) ==
  {inc \in UNION {
     LET planned == SelectSeq(plan, LAMBDA i : i.b = e.b)
         from == IF planned = <<>> THEN e.level ELSE Last(planned).to
         under == planned = <<>> /\ InProgress(e)
         levels == IF under THEN {e.partLevel} ELSE {l \in LevelsOf(e) : l > from}
         left(l) == SizeTo(e, l) - SizeTo(e, from) - (IF under THEN e.partDone ELSE 0)
     IN {[b |-> e.b, from |-> from, to |-> l, bits |-> Larger(left(l), 1),
          chunk |-> Min({Larger(left(l), 1), budget}),
          first |-> Preempts(s, e, l)] :
           l \in {x \in levels : /\ planned = <<>> \/ Last(planned).chunk = Last(planned).bits
                                 /\ Worth(s, e, from, x)}} :
     e \in s.queue} : inc.chunk > 0}

\* The critical ones first; which of the others has the most value per bit is a choice.
NextIncrements(s, plan, budget) ==
  LET all == Sendable(s, plan, budget)
  IN IF \E inc \in all : inc.first THEN {inc \in all : inc.first} ELSE all
=============================================================================
