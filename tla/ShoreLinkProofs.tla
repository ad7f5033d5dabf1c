-------------------------- MODULE ShoreLinkProofs ---------------------------
(***************************************************************************)
(* Proofs about the link to shore.  The inductive invariant LinkInvariant  *)
(* says that everything the sender, the link and the shore hold is a       *)
(* revision that was given to the link, or a delta between two such.       *)
(***************************************************************************)
EXTENDS ShoreLink, FiniteSetTheorems, WellFoundedInduction, TLAPS

-----------------------------------------------------------------------------
(***************************************************************************)
(* The order of the integers: induction over an interval, stated over a    *)
(* set.                                                                    *)
(***************************************************************************)
\* A set of naturals that has an element has a least one.
LEMMA LeastElement ==
  ASSUME NEW T, T \subseteq Nat, T # {}
  PROVE  \E x \in T : \A y \in T : x <= y
<1> DEFINE R == OpToRel(<, Nat)
<1>1. IsWellFoundedOn(R, Nat)
  BY NatLessThanWellFounded
<1>2. \A x, y \in Nat : y < x => <<y, x>> \in R
  BY DEF OpToRel
<1> HIDE DEF R
<1>3. PICK x \in T : \A y \in T : ~(<<y, x>> \in R)
  BY <1>1, WFMin
<1>4. ASSUME NEW y \in T PROVE x <= y
  <2>1. ~(y < x)
    BY <1>2, <1>3
  <2> QED BY <2>1
<1> QED BY <1>4

\* Induction up to n, over the set of the numbers that have the property.
LEMMA IntervalInduction ==
  ASSUME NEW n \in Nat, NEW T, 0 \in T, \A i \in 1 .. n : i - 1 \in T => i \in T
  PROVE  n \in T
<1> DEFINE B == {i \in 0 .. n : i \notin T}
<1>1. SUFFICES ASSUME B # {} PROVE FALSE
  OBVIOUS
<1>2. B \subseteq Nat
  OBVIOUS
<1>3. PICK x \in B : \A y \in B : x <= y
  BY <1>1, <1>2, LeastElement
<1>4. x \in 1 .. n /\ x \notin T /\ x - 1 \in 0 .. n
  BY <1>3
<1>5. x - 1 \notin B
  BY <1>3, <1>4
<1> QED BY <1>4, <1>5

-----------------------------------------------------------------------------
\* The views of the revisions up to one.
ViewsTo(n) == {ViewOf(r) : r \in 0 .. n}

\* A unit stands for a revision that was given to the link, against a view that was one, too.
UnitFields == {"b", "rev", "value", "created", "base", "level", "partLevel", "partDone"}
UnitOK(e, limit) ==
  /\ DOMAIN e = UnitFields
  /\ e.b \in Beliefs /\ e.created \in Nat
  /\ e.rev \in 1 .. limit[e.b] /\ e.base \in ViewsTo(limit[e.b])

OnePerBelief(queue) == \A e, x \in queue : e.b = x.b => e = x

SenderFields == {"queue", "dropped", "latest", "deferred", "known", "alerted"}
SenderOK(s, limit) ==
  /\ DOMAIN s = SenderFields
  /\ DOMAIN s.latest = Beliefs /\ DOMAIN s.deferred = Beliefs
  /\ DOMAIN s.known = Beliefs /\ DOMAIN s.alerted = Beliefs
  /\ IsFiniteSet(s.queue) /\ OnePerBelief(s.queue)
  /\ \A e \in s.queue : UnitOK(e, limit)
  /\ \A b \in Beliefs : s.latest[b].rev \in 0 .. limit[b] /\ s.known[b] \in ViewsTo(limit[b])

\* An increment in flight has the deltas of one unit, or none.
FlightOK(f, limit) ==
  /\ DOMAIN f = {"b", "alert", "deltas", "left"}
  /\ f.b \in Beliefs /\ f.alert \in 0 .. limit[f.b]
  /\ \/ f.deltas = {}
     \/ \E base \in ViewsTo(limit[f.b]), r \in 1 .. limit[f.b] : f.deltas = {Delta(base, r)}

\* What the sender takes the shore to have is there or on its way.
Backed(known, v, flying) ==
  \A b \in Beliefs :
    \/ known[b].rev <= v[b].rev
    \/ \E f \in flying : f.b = b /\ \E d \in f.deltas : d.rev = known[b].rev

LinkInvariant ==
  /\ intent \in [Beliefs -> Nat] /\ offers \in Nat
  /\ DOMAIN pending = Beliefs /\ \A b \in Beliefs : pending[b].rev \in 0 .. intent[b]
  /\ SenderOK(sender, intent)
  /\ \A f \in inFlight : FlightOK(f, intent)
  /\ DOMAIN view = Beliefs /\ \A b \in Beliefs : view[b] \in ViewsTo(intent[b])
  /\ alert \in [Beliefs -> Nat] /\ \A b \in Beliefs : alert[b] <= intent[b]
  /\ Backed(sender.known, view, inFlight)

-----------------------------------------------------------------------------
(***************************************************************************)
(* Views and deltas.                                                       *)
(***************************************************************************)
LEMMA ViewFacts ==
  /\ \A r \in Nat : ViewOf(r).rev = r
  /\ ViewOf(0) = NoView /\ NoView.rev = 0
  /\ \A n \in Nat : \A v \in ViewsTo(n) : v.rev \in 0 .. n /\ v = ViewOf(v.rev)
  /\ \A n \in Nat : \A r \in 0 .. n : ViewOf(r) \in ViewsTo(n)
  /\ \A n \in Nat : \A m \in 0 .. n : ViewsTo(m) \subseteq ViewsTo(n)
<1>1. \A r \in Nat : ViewOf(r).rev = r
  BY DEF ViewOf
<1>2. ViewOf(0) = NoView /\ NoView.rev = 0
  BY DEF ViewOf, NoView
<1>3. \A n \in Nat : \A v \in ViewsTo(n) : v.rev \in 0 .. n /\ v = ViewOf(v.rev)
  BY <1>1 DEF ViewsTo
<1>4. \A n \in Nat : \A r \in 0 .. n : ViewOf(r) \in ViewsTo(n)
  BY DEF ViewsTo
<1>5. \A n \in Nat : \A m \in 0 .. n : ViewsTo(m) \subseteq ViewsTo(n)
  BY DEF ViewsTo
<1> QED BY <1>1, <1>2, <1>3, <1>4, <1>5

LEMMA DeltaApplies ==
  ASSUME NEW n \in Nat, NEW base \in ViewsTo(n), NEW r \in 1 .. n, NEW v \in ViewsTo(n),
         Fits(v, Delta(base, r))
  PROVE  /\ Delta(base, r).rev = r
         /\ Applied(v, Delta(base, r)) = v \/ Applied(v, Delta(base, r)) = ViewOf(r)
         /\ v.rev < r => Applied(v, Delta(base, r)) = ViewOf(r)
<1> DEFINE d == Delta(base, r)
<1>1. /\ d.rev = r /\ d.new = (base = NoView) /\ d.base = base.rev
      /\ DOMAIN d.fields = IF base = NoView THEN Fields ELSE {f \in Fields : ViewOf(r).fields[f] # base.fields[f]}
      /\ \A f \in DOMAIN d.fields : d.fields[f] = ViewOf(r).fields[f]
  BY DEF Delta
<1>2. v.rev \in Nat /\ v = ViewOf(v.rev) /\ base = ViewOf(base.rev)
  BY ViewFacts
<1>3. Fits(v, d)
  OBVIOUS
<1> HIDE DEF d
<1>4. base = NoView \/ v = base
  BY <1>1, <1>2, <1>3 DEF Fits
<1>5. \A f \in Fields : (IF f \in DOMAIN d.fields THEN d.fields[f] ELSE v.fields[f]) = ViewOf(r).fields[f]
  BY <1>1, <1>4
<1>6. ViewOf(r) = [rev |-> r, fields |-> [f \in Fields |-> ViewOf(r).fields[f]]]
  BY DEF ViewOf
<1>7. [rev |-> d.rev, fields |-> [f \in Fields |-> IF f \in DOMAIN d.fields THEN d.fields[f] ELSE v.fields[f]]]
      = ViewOf(r)
  <2>1. [f \in Fields |-> IF f \in DOMAIN d.fields THEN d.fields[f] ELSE v.fields[f]]
        = [f \in Fields |-> ViewOf(r).fields[f]]
    BY <1>5
  <2> QED BY <1>1, <1>6, <2>1
<1>8. Applied(v, d) = IF d.new /\ v.rev >= d.rev THEN v ELSE ViewOf(r)
  BY <1>7 DEF Applied
<1>9. v.rev < r => ~(v.rev >= d.rev)
  BY <1>1, <1>2
<1> QED BY <1>1, <1>8, <1>9 DEF d

-----------------------------------------------------------------------------
(***************************************************************************)
(* The handlers of the sender: each keeps the units well formed and one    *)
(* per belief, the assumed views, and the increments under way of the      *)
(* critical units.                                                         *)
(***************************************************************************)
Limits == [Beliefs -> Nat]

\* What a handler that is no transmission leaves alone.
Untouched(s, t) ==
  /\ t.known = s.known
  /\ \A e \in s.queue : InProgress(e) /\ Critical(e.value) => e \in t.queue

LEMMA UntouchedChain ==
  ASSUME NEW s, NEW t, NEW u, Untouched(s, t), Untouched(t, u)
  PROVE  Untouched(s, u)
BY DEF Untouched

LEMMA LeastOfNaturals ==
  ASSUME NEW T, T \subseteq Nat, T # {}
  PROVE  Min(T) \in T
<1>1. PICK x \in T : \A y \in T : x <= y
  BY LeastElement
<1> QED BY <1>1 DEF Min

LEMMA PutKeeps ==
  ASSUME NEW limit \in Limits, NEW s, SenderOK(s, limit), NEW e, UnitOK(e, limit),
         \A x \in s.queue : x.b = e.b => x = e
  PROVE  /\ SenderOK(Put(s, e), limit) /\ Untouched(s, Put(s, e))
         /\ Put(s, e).queue \subseteq s.queue \cup {e} /\ Put(s, e).latest = s.latest
<1> DEFINE t == Put(s, e)
<1>1. DOMAIN s = SenderFields
  BY DEF SenderOK
<1>2. /\ t.queue = (s.queue \cup {e}) \ Overload(s.queue \cup {e})
      /\ t.latest = s.latest /\ t.deferred = s.deferred /\ t.known = s.known /\ t.alerted = s.alerted
      /\ DOMAIN t = SenderFields
  BY <1>1 DEF Put, SenderFields
<1>3. Overload(s.queue \cup {e}) \subseteq {x \in s.queue \cup {e} : ~Critical(x.value)}
  BY DEF Overload
<1> HIDE DEF t
<1>4. IsFiniteSet(t.queue)
  <2>1. IsFiniteSet(s.queue \cup {e})
    BY FS_Singleton, FS_Union DEF SenderOK
  <2> QED BY <1>2, <2>1, FS_Subset
<1>5. OnePerBelief(t.queue)
  BY <1>2 DEF SenderOK, OnePerBelief
<1>6. SenderOK(t, limit)
  BY <1>2, <1>4, <1>5 DEF SenderOK
<1>7. Untouched(s, t)
  BY <1>2, <1>3 DEF Untouched
<1> QED BY <1>2, <1>6, <1>7 DEF t

LEMMA OfferKeeps ==
  ASSUME NEW limit \in Limits, NEW s, SenderOK(s, limit), NEW b \in Beliefs, NEW r \in 0 .. limit[b],
         NEW value, NEW now \in Nat
  PROVE  SenderOK(Offer(s, b, r, value, now), limit) /\ Untouched(s, Offer(s, b, r, value, now))
<1> DEFINE s1 == [s EXCEPT !.latest[b] = [rev |-> r, value |-> value], !.dropped = @ \ {b}]
           mine == {e \in s1.queue : e.b = b}
           best == Max({value, s1.deferred[b]} \cup {e.value : e \in mine})
           waiting == [s1 EXCEPT !.deferred[b] = Larger(value, @)]
           rest == [s1 EXCEPT !.queue = @ \ mine, !.deferred[b] = 0]
           created == Min({now} \cup {e.created : e \in mine})
           e == Unit(s1, b, r, best, created)
           t == Offer(s, b, r, value, now)
<1>1. /\ DOMAIN s = SenderFields
      /\ DOMAIN s.latest = Beliefs /\ DOMAIN s.deferred = Beliefs
      /\ DOMAIN s.known = Beliefs /\ DOMAIN s.alerted = Beliefs
      /\ IsFiniteSet(s.queue) /\ OnePerBelief(s.queue)
      /\ \A x \in s.queue : UnitOK(x, limit)
      /\ \A c \in Beliefs : s.latest[c].rev \in 0 .. limit[c] /\ s.known[c] \in ViewsTo(limit[c])
  BY DEF SenderOK
<1>2. /\ DOMAIN s1 = SenderFields /\ s1.queue = s.queue /\ s1.known = s.known /\ s1.alerted = s.alerted
      /\ s1.deferred = s.deferred /\ DOMAIN s1.latest = Beliefs
      /\ \A c \in Beliefs : s1.latest[c] = IF c = b THEN [rev |-> r, value |-> value] ELSE s.latest[c]
  BY <1>1 DEF SenderFields
<1> HIDE DEF s1
<1>3. /\ DOMAIN waiting = SenderFields /\ waiting.queue = s.queue /\ waiting.known = s.known
      /\ waiting.alerted = s.alerted /\ waiting.latest = s1.latest /\ DOMAIN waiting.deferred = Beliefs
  BY <1>1, <1>2 DEF SenderFields
<1>4. /\ DOMAIN rest = SenderFields /\ rest.queue = s.queue \ mine /\ rest.known = s.known
      /\ rest.alerted = s.alerted /\ rest.latest = s1.latest /\ DOMAIN rest.deferred = Beliefs
  BY <1>1, <1>2 DEF SenderFields
<1>5. t = IF \E x \in mine : InProgress(x) THEN waiting
          ELSE IF HasNews(s1.known[b], r) THEN Put(rest, e) ELSE rest
  BY DEF Offer, s1
<1>6. mine \subseteq s.queue /\ \A x \in mine : x.b = b
  BY <1>2
<1>7. \A x \in s.queue : x.b = b => x \in mine
  BY <1>2
<1> HIDE DEF mine, waiting, rest, t
<1>8. \A c \in Beliefs : s1.latest[c].rev \in 0 .. limit[c]
  BY <1>1, <1>2
<1>9. SenderOK(waiting, limit) /\ Untouched(s, waiting)
  BY <1>1, <1>2, <1>3, <1>8 DEF SenderOK, Untouched
<1>10. IsFiniteSet(rest.queue)
  BY <1>1, <1>4, FS_Subset
<1>11. SenderOK(rest, limit)
  BY <1>1, <1>2, <1>4, <1>8, <1>10 DEF SenderOK, OnePerBelief
<1>12. ASSUME ~\E x \in mine : InProgress(x) PROVE Untouched(s, rest)
  BY <1>4, <1>12 DEF Untouched
<1>13. ASSUME HasNews(s1.known[b], r) PROVE UnitOK(e, limit)
  <2>1. s.known[b] \in ViewsTo(limit[b]) /\ limit[b] \in Nat
    BY <1>1 DEF Limits
  <2>2. s.known[b].rev \in Nat
    BY <2>1, ViewFacts
  <2>3. r \in 1 .. limit[b]
    BY <1>2, <1>13, <2>1, <2>2 DEF HasNews
  <2>4. \A x \in mine : x.created \in Nat
    BY <1>1, <1>6 DEF UnitOK
  <2>5. created \in Nat
    <3>1. {now} \cup {x.created : x \in mine} \subseteq Nat
      BY <2>4
    <3> QED BY <3>1, LeastOfNaturals
  <2> HIDE DEF created, best
  <2>6. e.b = b /\ e.rev = r /\ e.created = created /\ e.base = s.known[b] /\ DOMAIN e = UnitFields
    BY <1>2 DEF Unit, UnitFields
  <2> QED BY <2>1, <2>3, <2>5, <2>6 DEF UnitOK
<1>14. e.b = b
  BY DEF Unit
<1> HIDE DEF e
<1>15. \A x \in rest.queue : x.b = e.b => x = e
  BY <1>4, <1>7, <1>14
<1>16. ASSUME HasNews(s1.known[b], r)
       PROVE  SenderOK(Put(rest, e), limit) /\ Untouched(rest, Put(rest, e))
  <2>1. UnitOK(e, limit)
    BY <1>13, <1>16
  <2> QED BY <1>11, <1>15, <2>1, PutKeeps
<1>17. SenderOK(t, limit)
  BY <1>5, <1>9, <1>11, <1>16
<1>18. Untouched(s, t)
  <2>1. CASE \E x \in mine : InProgress(x)
    BY <1>5, <1>9, <2>1
  <2>2. CASE ~(\E x \in mine : InProgress(x)) /\ HasNews(s1.known[b], r)
    BY <1>5, <1>12, <1>16, <2>2, UntouchedChain
  <2>3. CASE ~(\E x \in mine : InProgress(x)) /\ ~HasNews(s1.known[b], r)
    BY <1>5, <1>12, <2>3
  <2> QED BY <2>1, <2>2, <2>3
<1> QED BY <1>17, <1>18 DEF t

-----------------------------------------------------------------------------
(***************************************************************************)
(* The handlers that go through several beliefs or units.                  *)
(***************************************************************************)
LEMMA SomeBeliefs == Cardinality(Beliefs) \in Nat
BY LinkAssumption, FS_CardinalityType

\* A sequence of states with a next one each can be built up to any length.
LEMMA OfferAllRuns ==
  ASSUME NEW s, NEW news, NEW now
  PROVE  \E after :
           /\ after[0] = s /\ OfferAll(s, news, now) = after[Cardinality(Beliefs)]
           /\ \A i \in 1 .. Cardinality(Beliefs) :
                after[i] = IF Order[i] \in DOMAIN news
                           THEN Offer(after[i - 1], Order[i], news[Order[i]].rev, news[Order[i]].value, now)
                           ELSE after[i - 1]
<1> DEFINE n == Cardinality(Beliefs)
           Next1(x, i) == IF Order[i] \in DOMAIN news
                          THEN Offer(x, Order[i], news[Order[i]].rev, news[Order[i]].value, now) ELSE x
           Solves(k, f) == f = [i \in 0 .. k |-> IF i = 0 THEN s ELSE Next1(f[i - 1], i)]
           after == CHOOSE f : Solves(n, f)
           T == {k \in 0 .. n : \E f : Solves(k, f)}
<1>1. n \in Nat
  BY SomeBeliefs
<1>2. OfferAll(s, news, now) = after[n]
  BY DEF OfferAll
<1> HIDE DEF Next1, n
<1>3. 0 \in T
  <2> DEFINE g == [i \in 0 .. 0 |-> s]
  <2>1. \A i \in 0 .. 0 : i = 0 /\ g[i] = s
    OBVIOUS
  <2>2. g = [i \in 0 .. 0 |-> g[i]]
    OBVIOUS
  <2> HIDE DEF g
  <2>3. Solves(0, g)
    BY <2>1, <2>2
  <2> QED BY <1>1, <2>3
<1>4. ASSUME NEW k \in 1 .. n, k - 1 \in T PROVE k \in T
  <2>1. PICK f : Solves(k - 1, f)
    BY <1>4
  <2> DEFINE g == [i \in 0 .. k |-> IF i < k THEN f[i] ELSE Next1(f[k - 1], k)]
  <2>2. \A i \in 0 .. k : g[i] = IF i = 0 THEN s ELSE Next1(g[i - 1], i)
    <3>1. \A i \in 0 .. k - 1 : f[i] = IF i = 0 THEN s ELSE Next1(f[i - 1], i)
      BY <2>1
    <3>2. ASSUME NEW i \in 0 .. k PROVE g[i] = IF i = 0 THEN s ELSE Next1(g[i - 1], i)
      <4>1. CASE i < k
        <5>1. g[i] = f[i] /\ (i # 0 => g[i - 1] = f[i - 1])
          BY <1>1, <4>1
        <5> QED BY <1>1, <3>1, <4>1, <5>1
      <4>2. CASE i = k
        <5>1. i # 0 /\ g[i] = Next1(f[k - 1], k) /\ g[i - 1] = f[k - 1]
          BY <1>1, <4>2
        <5> QED BY <4>2, <5>1
      <4> QED BY <1>1, <4>1, <4>2
    <3> QED BY <3>2
  <2>3. g = [i \in 0 .. k |-> g[i]]
    OBVIOUS
  <2> HIDE DEF g
  <2>4. Solves(k, g)
    BY <2>2, <2>3
  <2> QED BY <1>1, <2>4
<1>5. n \in T
  <2> HIDE DEF T
  <2> QED BY <1>1, <1>3, <1>4, IntervalInduction
<1>6. Solves(n, after)
  BY <1>5
<1> HIDE DEF after
<1>7. after[0] = s /\ \A i \in 1 .. n : after[i] = Next1(after[i - 1], i)
  BY <1>1, <1>6
<1> QED BY <1>2, <1>7 DEF Next1, n

LEMMA OfferAllKeeps ==
  ASSUME NEW limit \in Limits, NEW s, SenderOK(s, limit), NEW now \in Nat,
         NEW news, DOMAIN news \subseteq Beliefs, \A b \in DOMAIN news : news[b].rev \in 0 .. limit[b]
  PROVE  SenderOK(OfferAll(s, news, now), limit) /\ Untouched(s, OfferAll(s, news, now))
<1> DEFINE n == Cardinality(Beliefs)
<1>1. PICK after :
           /\ after[0] = s /\ OfferAll(s, news, now) = after[n]
           /\ \A i \in 1 .. n :
                after[i] = IF Order[i] \in DOMAIN news
                           THEN Offer(after[i - 1], Order[i], news[Order[i]].rev, news[Order[i]].value, now)
                           ELSE after[i - 1]
  BY OfferAllRuns
<1>2. n \in Nat
  BY SomeBeliefs
<1> HIDE DEF n
<1> DEFINE T == {i \in 0 .. n : SenderOK(after[i], limit) /\ Untouched(s, after[i])}
<1>3. 0 \in T
  BY <1>1, <1>2 DEF Untouched
<1>4. ASSUME NEW i \in 1 .. n, i - 1 \in T PROVE i \in T
  <2>1. SenderOK(after[i - 1], limit) /\ Untouched(s, after[i - 1])
    BY <1>4
  <2>2. CASE Order[i] \in DOMAIN news
    <3>1. after[i] = Offer(after[i - 1], Order[i], news[Order[i]].rev, news[Order[i]].value, now)
      BY <1>1, <2>2
    <3>2. Order[i] \in Beliefs /\ news[Order[i]].rev \in 0 .. limit[Order[i]]
      BY <2>2
    <3>3. SenderOK(after[i], limit) /\ Untouched(after[i - 1], after[i])
      BY <2>1, <3>1, <3>2, OfferKeeps
    <3> QED BY <2>1, <3>3, UntouchedChain
  <2>3. CASE Order[i] \notin DOMAIN news
    <3>1. after[i] = after[i - 1]
      BY <1>1, <2>3
    <3> QED BY <2>1, <3>1
  <2> QED BY <2>2, <2>3
<1>5. n \in T
  <2> HIDE DEF T
  <2> QED BY <1>2, <1>3, <1>4, IntervalInduction
<1> QED BY <1>1, <1>5

LEMMA ReleaseKeeps ==
  ASSUME NEW limit \in Limits, NEW s, SenderOK(s, limit), NEW now \in Nat
  PROVE  SenderOK(ReleaseDeferred(s, now), limit) /\ Untouched(s, ReleaseDeferred(s, now))
<1> DEFINE free == {b \in Beliefs : s.deferred[b] > 0} \ {e.b : e \in {x \in s.queue : InProgress(x)}}
           news == [b \in free |-> [rev |-> s.latest[b].rev, value |-> Larger(s.latest[b].value, s.deferred[b])]]
<1>1. DOMAIN news \subseteq Beliefs
  OBVIOUS
<1>2. \A b \in DOMAIN news : news[b].rev \in 0 .. limit[b]
  BY DEF SenderOK
<1>3. ReleaseDeferred(s, now) = OfferAll(s, news, now)
  BY DEF ReleaseDeferred
<1> HIDE DEF news
<1> QED BY <1>1, <1>2, <1>3, OfferAllKeeps

LEMMA ResyncKeeps ==
  ASSUME NEW limit \in Limits, NEW s, SenderOK(s, limit), NEW b \in Beliefs, NEW now \in Nat
  PROVE  /\ SenderOK(HandleResync(s, b, now), limit)
         /\ HandleResync(s, b, now).known = [s.known EXCEPT ![b] = NoView]
         /\ \A e \in s.queue : InProgress(e) /\ Critical(e.value) => e \in HandleResync(s, b, now).queue
<1> DEFINE forgot == [s EXCEPT !.known[b] = NoView]
<1>1. /\ DOMAIN forgot = SenderFields /\ forgot.queue = s.queue /\ forgot.latest = s.latest
      /\ forgot.deferred = s.deferred /\ forgot.alerted = s.alerted
      /\ forgot.known = [s.known EXCEPT ![b] = NoView]
  BY DEF SenderOK, SenderFields
<1> HIDE DEF forgot
<1>2. \A c \in Beliefs : NoView \in ViewsTo(limit[c])
  BY ViewFacts DEF Limits
<1>3. SenderOK(forgot, limit)
  BY <1>1, <1>2 DEF SenderOK
<1>4. s.latest[b].rev \in 0 .. limit[b]
  BY DEF SenderOK
<1>5. HandleResync(s, b, now) = IF s.latest[b].rev = 0 THEN forgot
                                ELSE Offer(forgot, b, s.latest[b].rev, s.latest[b].value, now)
  BY DEF HandleResync, forgot
<1>6. /\ SenderOK(Offer(forgot, b, s.latest[b].rev, s.latest[b].value, now), limit)
      /\ Untouched(forgot, Offer(forgot, b, s.latest[b].rev, s.latest[b].value, now))
  BY <1>3, <1>4, OfferKeeps
<1> QED BY <1>1, <1>3, <1>5, <1>6 DEF Untouched

\* A finite queue can be put in the order of its units' ages.
LEMMA EntriesInOrder ==
  ASSUME NEW queue, IsFiniteSet(queue), \A e \in queue : e.created \in Nat
  PROVE  Cardinality(queue) \in Nat /\ Entries(queue) \in [1 .. Cardinality(queue) -> queue]
<1> DEFINE Sorted(S, n, order) ==
             /\ order \in [1 .. n -> S]
             /\ \A i, j \in DOMAIN order : i < j => order[i] # order[j] /\ order[i].created <= order[j].created
           N == Cardinality(queue)
           T == {n \in 0 .. N : \A S \in SUBSET queue : Cardinality(S) = n => \E order : Sorted(S, n, order)}
<1>1. N \in Nat
  BY FS_CardinalityType
<1> HIDE DEF N
<1>2. 0 \in T
  <2>1. \A S : Sorted(S, 0, [i \in 1 .. 0 |-> i])
    OBVIOUS
  <2> HIDE DEF Sorted
  <2> QED BY <1>1, <2>1
<1>3. ASSUME NEW n \in 1 .. N, n - 1 \in T PROVE n \in T
  <2>1. SUFFICES ASSUME NEW S \in SUBSET queue, Cardinality(S) = n PROVE \E order : Sorted(S, n, order)
    BY <1>1
  <2>2. IsFiniteSet(S) /\ S # {}
    <3>1. IsFiniteSet(S)
      BY FS_Subset
    <3>2. n # 0
      BY <1>1
    <3> QED BY <2>1, <3>1, <3>2, FS_EmptySet
  <2>3. PICK oldest \in S : \A x \in S : oldest.created <= x.created
    <3> DEFINE C == {x.created : x \in S}
    <3>1. C \subseteq Nat /\ C # {}
      BY <2>2
    <3> HIDE DEF C
    <3>2. PICK c \in C : \A d \in C : c <= d
      BY <3>1, LeastElement
    <3> QED BY <3>2 DEF C
  <2> DEFINE R == S \ {oldest}
  <2>4. R \in SUBSET queue /\ Cardinality(R) = n - 1
    <3>1. Cardinality(R) = Cardinality(S) - 1
      BY <2>2, FS_RemoveElement
    <3> QED BY <2>1, <3>1
  <2>5. PICK o : Sorted(R, n - 1, o)
    BY <1>3, <2>4
  <2> DEFINE order == [i \in 1 .. n |-> IF i = 1 THEN oldest ELSE o[i - 1]]
  <2>6. o \in [1 .. n - 1 -> R]
    BY <2>5
  <2>7. \A i \in 1 .. n : order[i] \in S
    <3>1. ASSUME NEW i \in 1 .. n, i # 1 PROVE o[i - 1] \in S
      BY <1>1, <2>6, <3>1
    <3> QED BY <3>1
  <2>8. ASSUME NEW i \in 1 .. n, NEW j \in 1 .. n, i < j
        PROVE  order[i] # order[j] /\ order[i].created <= order[j].created
    <3>1. j # 1 /\ order[j] = o[j - 1] /\ j - 1 \in 1 .. n - 1 /\ o[j - 1] \in R
      BY <1>1, <2>6, <2>8
    <3>2. CASE i = 1
      BY <2>3, <3>1, <3>2
    <3>3. CASE i # 1
      <4>1. order[i] = o[i - 1] /\ i - 1 \in 1 .. n - 1 /\ i - 1 < j - 1
        BY <1>1, <2>8, <3>3
      <4>2. DOMAIN o = 1 .. n - 1
        BY <2>6
      <4> HIDE DEF order
      <4> QED BY <2>5, <3>1, <4>1, <4>2
    <3> QED BY <3>2, <3>3
  <2>9. Sorted(S, n, order)
    <3>1. order \in [1 .. n -> S]
      BY <2>7
    <3>2. DOMAIN order = 1 .. n
      OBVIOUS
    <3> HIDE DEF order
    <3> QED BY <2>8, <3>1, <3>2
  <2> QED BY <2>9
<1>4. N \in T
  <2> HIDE DEF T
  <2> QED BY <1>1, <1>2, <1>3, IntervalInduction
<1>5. \E order : Sorted(queue, N, order)
  BY <1>4 DEF N
<1>6. \E order \in [1 .. N -> queue] :
         \A i, j \in DOMAIN order : i < j => order[i] # order[j] /\ order[i].created <= order[j].created
  BY <1>5
<1>7. Entries(queue) \in [1 .. N -> queue]
  BY <1>6 DEF Entries, N
<1> QED BY <1>1, <1>7 DEF N

LEMMA ReevaluateRuns ==
  ASSUME NEW s, NEW n \in Nat, n = Cardinality(s.queue)
  PROVE  \E after : /\ after[0] = s /\ Reevaluate(s) = after[n]
                    /\ \A i \in 1 .. n : after[i] = Rebuild(s, after[i - 1], Entries(s.queue)[i])
<1> DEFINE Next1(x, i) == Rebuild(s, x, Entries(s.queue)[i])
           Solves(k, f) == f = [i \in 0 .. k |-> IF i = 0 THEN s ELSE Next1(f[i - 1], i)]
           after == CHOOSE f : Solves(n, f)
           T == {k \in 0 .. n : \E f : Solves(k, f)}
<1>1. Reevaluate(s) = after[n]
  BY DEF Reevaluate
<1> HIDE DEF Next1
<1>2. 0 \in T
  <2> DEFINE g == [i \in 0 .. 0 |-> s]
  <2>1. \A i \in 0 .. 0 : i = 0 /\ g[i] = s
    OBVIOUS
  <2>2. g = [i \in 0 .. 0 |-> g[i]]
    OBVIOUS
  <2> HIDE DEF g
  <2>3. Solves(0, g)
    BY <2>1, <2>2
  <2> QED BY <2>3
<1>3. ASSUME NEW k \in 1 .. n, k - 1 \in T PROVE k \in T
  <2>1. PICK f : Solves(k - 1, f)
    BY <1>3
  <2> DEFINE g == [i \in 0 .. k |-> IF i < k THEN f[i] ELSE Next1(f[k - 1], k)]
  <2>2. \A i \in 0 .. k - 1 : f[i] = IF i = 0 THEN s ELSE Next1(f[i - 1], i)
    BY <2>1
  <2>3. ASSUME NEW i \in 0 .. k PROVE g[i] = IF i = 0 THEN s ELSE Next1(g[i - 1], i)
    <3>1. CASE i < k
      <4>1. g[i] = f[i] /\ (i # 0 => g[i - 1] = f[i - 1])
        BY <3>1
      <4> QED BY <2>2, <3>1, <4>1
    <3>2. CASE i = k
      <4>1. i # 0 /\ g[i] = Next1(f[k - 1], k) /\ g[i - 1] = f[k - 1]
        BY <3>2
      <4> QED BY <3>2, <4>1
    <3> QED BY <3>1, <3>2
  <2>4. g = [i \in 0 .. k |-> g[i]]
    OBVIOUS
  <2> HIDE DEF g
  <2>5. Solves(k, g)
    BY <2>3, <2>4
  <2> QED BY <2>5
<1>4. n \in T
  <2> HIDE DEF T
  <2> QED BY <1>2, <1>3, IntervalInduction
<1>5. Solves(n, after)
  BY <1>4
<1> HIDE DEF after
<1>6. after[0] = s /\ \A i \in 1 .. n : after[i] = Next1(after[i - 1], i)
  BY <1>5
<1> QED BY <1>1, <1>6 DEF Next1

\* Building one unit again.
LEMMA RebuildKeeps ==
  ASSUME NEW limit \in Limits, NEW s, SenderOK(s, limit), NEW acc, SenderOK(acc, limit), NEW e \in s.queue,
         acc.known = s.known, acc.queue \subseteq s.queue \cup {Rebuilt(s, x) : x \in s.queue}
  PROVE  LET t == Rebuild(s, acc, e)
         IN /\ SenderOK(t, limit) /\ t.known = s.known
            /\ t.queue \subseteq s.queue \cup {Rebuilt(s, x) : x \in s.queue}
<1> DEFINE rest == [acc EXCEPT !.queue = @ \ {e}]
           u == Rebuilt(s, e)
           All == s.queue \cup {Rebuilt(s, x) : x \in s.queue}
           t == Rebuild(s, acc, e)
<1>1. /\ DOMAIN rest = SenderFields /\ rest.queue = acc.queue \ {e} /\ rest.known = acc.known
      /\ rest.alerted = acc.alerted /\ rest.latest = acc.latest /\ rest.deferred = acc.deferred
  BY DEF SenderOK, SenderFields
<1>2. t = IF HasNews(s.known[e.b], s.latest[e.b].rev) THEN Put(rest, u) ELSE rest
  BY DEF Rebuild
<1> HIDE DEF rest
<1>3. SenderOK(rest, limit)
  <2>1. IsFiniteSet(rest.queue)
    BY <1>1, FS_Subset DEF SenderOK
  <2> QED BY <1>1, <2>1 DEF SenderOK, OnePerBelief
<1>4. UnitOK(e, limit) /\ OnePerBelief(s.queue)
  BY DEF SenderOK
<1>5. ASSUME HasNews(s.known[e.b], s.latest[e.b].rev) PROVE UnitOK(u, limit)
  <2>1. e.b \in Beliefs /\ e.created \in Nat
    BY <1>4 DEF UnitOK
  <2>2. s.latest[e.b].rev \in 0 .. limit[e.b] /\ s.known[e.b] \in ViewsTo(limit[e.b]) /\ limit[e.b] \in Nat
    BY <2>1 DEF SenderOK, Limits
  <2>3. s.known[e.b].rev \in Nat
    BY <2>2, ViewFacts
  <2>4. s.latest[e.b].rev \in 1 .. limit[e.b]
    BY <1>5, <2>2, <2>3 DEF HasNews
  <2>5. /\ u.b = e.b /\ u.rev = s.latest[e.b].rev /\ u.created = e.created /\ u.base = s.known[e.b]
        /\ DOMAIN u = UnitFields
    BY DEF Rebuilt, Unit, UnitFields
  <2> HIDE DEF u
  <2> QED BY <2>1, <2>2, <2>4, <2>5 DEF UnitOK
<1>6. \A x \in s.queue : Rebuilt(s, x).b = x.b
  BY DEF Rebuilt, Unit
<1>7. ASSUME NEW x \in rest.queue, x.b = u.b PROVE x = u
  <2>1. x \in All /\ x # e /\ x.b = e.b
    BY <1>1, <1>6, <1>7
  <2>2. CASE x \in s.queue
    BY <1>4, <2>1, <2>2 DEF OnePerBelief
  <2>3. CASE x \notin s.queue
    <3>1. PICK y \in s.queue : x = Rebuilt(s, y)
      BY <2>1, <2>3
    <3>2. y = e
      BY <1>4, <1>6, <2>1, <3>1 DEF OnePerBelief
    <3> QED BY <3>1, <3>2
  <2> QED BY <2>2, <2>3
<1>8. u \in All
  OBVIOUS
<1>9. rest.queue \subseteq All
  BY <1>1
<1> HIDE DEF u, All
<1>10. CASE HasNews(s.known[e.b], s.latest[e.b].rev)
  <2>1. SenderOK(Put(rest, u), limit) /\ Untouched(rest, Put(rest, u)) /\ Put(rest, u).queue \subseteq rest.queue \cup {u}
    BY <1>3, <1>5, <1>7, <1>10, PutKeeps
  <2> QED BY <1>1, <1>2, <1>8, <1>9, <1>10, <2>1 DEF Untouched, All
<1>11. CASE ~HasNews(s.known[e.b], s.latest[e.b].rev)
  BY <1>1, <1>2, <1>3, <1>9, <1>11 DEF All
<1> QED BY <1>10, <1>11

LEMMA ReevaluateKeeps ==
  ASSUME NEW limit \in Limits, NEW s, SenderOK(s, limit)
  PROVE  SenderOK(Reevaluate(s), limit) /\ Reevaluate(s).known = s.known
<1> DEFINE n == Cardinality(s.queue)
           All == s.queue \cup {Rebuilt(s, x) : x \in s.queue}
<1>1. IsFiniteSet(s.queue) /\ \A e \in s.queue : e.created \in Nat
  BY DEF SenderOK, UnitOK
<1>2. n \in Nat /\ Entries(s.queue) \in [1 .. n -> s.queue]
  BY <1>1, EntriesInOrder
<1>3. PICK after : /\ after[0] = s /\ Reevaluate(s) = after[n]
                   /\ \A i \in 1 .. n : after[i] = Rebuild(s, after[i - 1], Entries(s.queue)[i])
  BY <1>2, ReevaluateRuns
<1> HIDE DEF n
<1> DEFINE Fine(t) == SenderOK(t, limit) /\ t.known = s.known /\ t.queue \subseteq All
           T == {i \in 0 .. n : Fine(after[i])}
<1>4. 0 \in T
  BY <1>2, <1>3
<1>5. ASSUME NEW i \in 1 .. n, i - 1 \in T PROVE i \in T
  <2>1. Fine(after[i - 1]) /\ Entries(s.queue)[i] \in s.queue
    BY <1>2, <1>5
  <2>2. after[i] = Rebuild(s, after[i - 1], Entries(s.queue)[i])
    BY <1>3
  <2>3. Fine(after[i])
    BY <2>1, <2>2, RebuildKeeps
  <2> HIDE DEF Fine
  <2> QED BY <1>2, <2>3
<1>6. n \in T
  <2> HIDE DEF T
  <2> QED BY <1>2, <1>4, <1>5, IntervalInduction
<1> QED BY <1>3, <1>6

-----------------------------------------------------------------------------
(***************************************************************************)
(* The invariant.                                                          *)
(***************************************************************************)
LEMMA LimitGrows ==
  ASSUME NEW limit \in Limits, NEW more \in Limits, \A b \in Beliefs : limit[b] <= more[b]
  PROVE  /\ \A s : SenderOK(s, limit) => SenderOK(s, more)
         /\ \A f : FlightOK(f, limit) => FlightOK(f, more)
         /\ \A b \in Beliefs : ViewsTo(limit[b]) \subseteq ViewsTo(more[b]) /\ 0 .. limit[b] \subseteq 0 .. more[b]
<1>1. \A b \in Beliefs : limit[b] \in Nat /\ more[b] \in Nat /\ limit[b] \in 0 .. more[b]
  BY DEF Limits
<1>2. \A b \in Beliefs : /\ ViewsTo(limit[b]) \subseteq ViewsTo(more[b])
                         /\ 0 .. limit[b] \subseteq 0 .. more[b] /\ 1 .. limit[b] \subseteq 1 .. more[b]
  BY <1>1, ViewFacts
<1>3. \A e : UnitOK(e, limit) => UnitOK(e, more)
  BY <1>2 DEF UnitOK
<1>4. \A s : SenderOK(s, limit) => SenderOK(s, more)
  BY <1>2, <1>3 DEF SenderOK
<1>5. \A f : FlightOK(f, limit) => FlightOK(f, more)
  BY <1>2 DEF FlightOK
<1> QED BY <1>2, <1>4, <1>5

LEMMA LinkInit == Init => LinkInvariant
<1> SUFFICES ASSUME Init PROVE LinkInvariant
  OBVIOUS
<1>1. /\ intent = [b \in Beliefs |-> 0] /\ pending = [b \in Beliefs |-> Nothing] /\ sender = NewSender
      /\ inFlight = {} /\ view = [b \in Beliefs |-> NoView] /\ alert = [b \in Beliefs |-> 0] /\ offers = 0
  BY DEF Init
<1>2. NoView \in ViewsTo(0) /\ NoView.rev = 0
  BY ViewFacts
<1>3. SenderOK(sender, intent)
  <2>1. IsFiniteSet({})
    BY FS_EmptySet
  <2> QED BY <1>1, <1>2, <2>1 DEF SenderOK, NewSender, SenderFields, OnePerBelief
<1>4. Backed(sender.known, view, inFlight)
  BY <1>1, <1>2 DEF Backed, NewSender
<1> QED BY <1>1, <1>2, <1>3, <1>4 DEF LinkInvariant, Nothing

LEMMA OfferToLinkKeeps ==
  ASSUME LinkInvariant, NEW b \in Beliefs, NEW r, NEW v, OfferToLink(b, r, v)
  PROVE  LinkInvariant'
<1>1. /\ r \in {intent[b], intent[b] + 1} /\ r \in 1 .. MaxRevision
      /\ intent' = [intent EXCEPT ![b] = Larger(r, @)] /\ offers' = offers + 1
      /\ UNCHANGED <<sender, inFlight, view, alert>>
      /\ pending' = IF r >= pending[b].rev
                    THEN [pending EXCEPT ![b] = [rev |-> r, value |-> Larger(v, @.value)]] ELSE pending
  BY DEF OfferToLink, shoreVars
<1>2. /\ intent \in Limits /\ offers \in Nat /\ DOMAIN pending = Beliefs
      /\ \A c \in Beliefs : pending[c].rev \in 0 .. intent[c]
      /\ SenderOK(sender, intent) /\ \A f \in inFlight : FlightOK(f, intent)
      /\ DOMAIN view = Beliefs /\ \A c \in Beliefs : view[c] \in ViewsTo(intent[c])
      /\ alert \in [Beliefs -> Nat] /\ \A c \in Beliefs : alert[c] <= intent[c]
      /\ Backed(sender.known, view, inFlight)
  BY DEF LinkInvariant, Limits
<1>3. intent[b] \in Nat /\ r \in Nat /\ Larger(r, intent[b]) = r /\ r >= intent[b]
  BY <1>1, <1>2 DEF Larger, Limits
<1>4. intent' \in Limits /\ \A c \in Beliefs : intent'[c] = IF c = b THEN r ELSE intent[c]
  BY <1>1, <1>2, <1>3 DEF Limits
<1>5. \A c \in Beliefs : intent[c] \in Nat /\ intent'[c] \in Nat /\ intent[c] <= intent'[c]
  BY <1>2, <1>3, <1>4 DEF Limits
<1>6. /\ \A s : SenderOK(s, intent) => SenderOK(s, intent')
      /\ \A f : FlightOK(f, intent) => FlightOK(f, intent')
      /\ \A c \in Beliefs : ViewsTo(intent[c]) \subseteq ViewsTo(intent'[c]) /\ 0 .. intent[c] \subseteq 0 .. intent'[c]
  BY <1>2, <1>4, <1>5, LimitGrows
<1>7. DOMAIN pending' = Beliefs /\ \A c \in Beliefs : pending'[c].rev \in 0 .. intent'[c]
  <2>1. \A c \in Beliefs : pending[c].rev \in 0 .. intent'[c]
    BY <1>2, <1>6
  <2>2. r \in 0 .. intent'[b]
    BY <1>3, <1>4
  <2> QED BY <1>1, <1>2, <2>1, <2>2
<1>8. \A c \in Beliefs : alert[c] <= intent'[c]
  BY <1>2, <1>5
<1>9. offers' \in Nat
  BY <1>1, <1>2
<1> QED BY <1>1, <1>2, <1>4, <1>6, <1>7, <1>8, <1>9 DEF LinkInvariant, Limits

LEMMA BeginStepKeeps ==
  ASSUME LinkInvariant, BeginStep
  PROVE  LinkInvariant' /\ sender'.known = sender.known /\ (~(linkUp /\ ~wasUp) => Untouched(sender, sender'))
<1>1. /\ intent \in Limits /\ offers \in Nat /\ DOMAIN pending = Beliefs
      /\ \A c \in Beliefs : pending[c].rev \in 0 .. intent[c] /\ intent[c] \in Nat
      /\ SenderOK(sender, intent)
  BY DEF LinkInvariant, Limits
<1>2. /\ pending' = [b \in Beliefs |-> IF b \in Flushed THEN Nothing ELSE pending[b]]
      /\ sender' = IF linkUp /\ ~wasUp THEN Reevaluate(AfterFlush) ELSE AfterFlush
      /\ UNCHANGED <<intent, offers, inFlight, view, alert>>
  BY DEF BeginStep, shoreVars
<1>3. SenderOK(AfterFlush, intent) /\ Untouched(sender, AfterFlush)
  <2> DEFINE news == [b \in Flushed |-> pending[b]]
  <2>1. DOMAIN news \subseteq Beliefs /\ \A b \in DOMAIN news : news[b].rev \in 0 .. intent[b]
    BY <1>1 DEF Flushed
  <2>2. AfterFlush = OfferAll(sender, news, offers)
    BY DEF AfterFlush
  <2> HIDE DEF news
  <2> QED BY <1>1, <2>1, <2>2, OfferAllKeeps
<1>4. SenderOK(sender', intent) /\ sender'.known = sender.known
  <2>1. SenderOK(Reevaluate(AfterFlush), intent) /\ Reevaluate(AfterFlush).known = AfterFlush.known
    BY <1>1, <1>3, ReevaluateKeeps
  <2> QED BY <1>2, <1>3, <2>1 DEF Untouched
<1>5. ~(linkUp /\ ~wasUp) => Untouched(sender, sender')
  BY <1>2, <1>3
<1>6. DOMAIN pending' = Beliefs /\ \A c \in Beliefs : pending'[c].rev \in 0 .. intent[c]
  BY <1>1, <1>2 DEF Nothing
<1>7. LinkInvariant'
  BY <1>2, <1>4, <1>6 DEF LinkInvariant
<1> QED BY <1>4, <1>5, <1>7

LEMMA TransmitDoneKeeps ==
  ASSUME LinkInvariant, TransmitDone
  PROVE  LinkInvariant' /\ Untouched(sender, sender')
<1>1. /\ intent \in Limits /\ offers \in Nat /\ SenderOK(sender, intent)
  BY DEF LinkInvariant, Limits
<1>2. sender' = ReleaseDeferred(sender, offers) /\ UNCHANGED <<intent, offers, pending, inFlight, view, alert>>
  BY DEF TransmitDone, intakeVars, shoreVars
<1>3. SenderOK(sender', intent) /\ Untouched(sender, sender')
  BY <1>1, <1>2, ReleaseKeeps
<1>4. sender'.known = sender.known
  BY <1>3 DEF Untouched
<1> QED BY <1>2, <1>3, <1>4 DEF LinkInvariant

\* The deltas of a transmission, and what the sender then takes the shore to have: its view of
\* before, the revision that is sent, or nothing.
LEMMA Acknowledged ==
  ASSUME NEW limit \in Limits, NEW s, SenderOK(s, limit), NEW e \in s.queue, NEW levels
  PROVE  LET t == Acknowledge(s, e, levels)
         IN /\ DOMAIN t = SenderFields /\ t.queue = s.queue /\ t.latest = s.latest /\ t.deferred = s.deferred
            /\ DOMAIN t.alerted = Beliefs /\ DOMAIN t.known = Beliefs
            /\ \A c \in Beliefs : c # e.b => t.known[c] = s.known[c]
            /\ \/ t.known[e.b] = s.known[e.b]
               \/ t.known[e.b] = NoView
               \/ 1 \in levels /\ t.known[e.b] = ViewOf(e.rev)
<1> DEFINE d == Delta(e.base, e.rev)
           t == Acknowledge(s, e, levels)
<1>1. /\ DOMAIN s = SenderFields /\ DOMAIN s.alerted = Beliefs /\ DOMAIN s.known = Beliefs
      /\ UnitOK(e, limit) /\ \A c \in Beliefs : s.known[c] \in ViewsTo(limit[c])
  BY DEF SenderOK
<1>2. /\ DOMAIN t = SenderFields /\ t.queue = s.queue /\ t.latest = s.latest /\ t.deferred = s.deferred
      /\ DOMAIN t.alerted = Beliefs
      /\ t.known = [s.known EXCEPT ![e.b] = IF 1 \notin levels THEN @ ELSE IF Fits(@, d) THEN Applied(@, d) ELSE NoView]
  BY <1>1 DEF Acknowledge, SenderFields
<1> HIDE DEF t
<1>3. /\ e.b \in Beliefs /\ limit[e.b] \in Nat /\ e.rev \in 1 .. limit[e.b] /\ e.base \in ViewsTo(limit[e.b])
      /\ s.known[e.b] \in ViewsTo(limit[e.b])
  BY <1>1 DEF UnitOK, Limits
<1>4. Fits(s.known[e.b], d) => Applied(s.known[e.b], d) \in {s.known[e.b], ViewOf(e.rev)}
  BY <1>3, DeltaApplies
<1> HIDE DEF d
<1>5. t.known[e.b] = IF 1 \notin levels THEN s.known[e.b]
                     ELSE IF Fits(s.known[e.b], d) THEN Applied(s.known[e.b], d) ELSE NoView
  BY <1>1, <1>2, <1>3
<1>6. DOMAIN t.known = Beliefs /\ \A c \in Beliefs : c # e.b => t.known[c] = s.known[c]
  BY <1>1, <1>2
<1> QED BY <1>2, <1>4, <1>5, <1>6 DEF t

\* The unit's entry takes another place in its increments.
LEMMA EntryMoves ==
  ASSUME NEW limit \in Limits, NEW s, SenderOK(s, limit), NEW e \in s.queue,
         NEW more, \A x \in more : UnitOK(x, limit) /\ x.b = e.b, \A x, y \in more : x = y, IsFiniteSet(more),
         NEW t, DOMAIN t = SenderFields, t.queue = (s.queue \ {e}) \cup more,
         t.latest = s.latest, t.deferred = s.deferred, DOMAIN t.alerted = Beliefs,
         DOMAIN t.known = Beliefs, \A c \in Beliefs : t.known[c] \in ViewsTo(limit[c])
  PROVE  SenderOK(t, limit)
<1>1. IsFiniteSet(t.queue)
  <2>1. IsFiniteSet(s.queue \ {e})
    BY FS_Subset DEF SenderOK
  <2>2. IsFiniteSet((s.queue \ {e}) \cup more)
    BY <2>1, FS_Union
  <2> QED BY <2>2
<1>2. OnePerBelief(t.queue)
  BY DEF SenderOK, OnePerBelief
<1>3. \A x \in t.queue : UnitOK(x, limit)
  BY DEF SenderOK
<1> QED BY <1>1, <1>2, <1>3 DEF SenderOK

LEMMA TransmitKeeps ==
  ASSUME LinkInvariant, NEW b \in Beliefs, NEW arrives, Transmit(b, arrives)
  PROVE  LinkInvariant' /\ \A x \in sender.queue : x.b # b => x \in sender'.queue
<1>1. /\ intent \in Limits /\ SenderOK(sender, intent)
      /\ \A f \in inFlight : FlightOK(f, intent)
      /\ Backed(sender.known, view, inFlight)
      /\ \A c \in Beliefs : view[c] \in ViewsTo(intent[c]) /\ intent[c] \in Nat
  BY DEF LinkInvariant, Limits
<1>2. UNCHANGED <<intent, offers, pending, view, alert>>
  BY DEF Transmit, intakeVars, shoreVars
<1> DEFINE inc == Head(plan)
           Carried(e) == {l \in LevelsOf(e) : inc.from < l /\ l <= inc.to}
           Part(e) == [e EXCEPT !.partLevel = inc.to,
                                !.partDone = inc.chunk + IF e.partLevel = inc.to THEN @ ELSE 0]
           Flight(e) == [b |-> b, alert |-> IF 0 \in Carried(e) THEN e.rev ELSE 0,
                         deltas |-> {Delta(e.base, e.rev) : l \in Carried(e) \cap {1}}, left |-> arrives]
<1>3. PICK e \in Planned :
         IF inc.chunk < inc.bits
         THEN /\ sender' = [sender EXCEPT !.queue = (@ \ {e}) \cup {Part(e)}]
              /\ UNCHANGED inFlight
         ELSE /\ sender' = Advanced(Acknowledge(sender, e, Carried(e)), e, inc.to)
              /\ inFlight' = inFlight \cup {Flight(e)}
  BY DEF Transmit
<1>4. e \in sender.queue /\ e.b = b
  BY <1>3 DEF Planned, Transmit
<1>5. /\ DOMAIN sender = SenderFields /\ UnitOK(e, intent)
      /\ DOMAIN sender.alerted = Beliefs /\ DOMAIN sender.known = Beliefs
      /\ \A c \in Beliefs : sender.known[c] \in ViewsTo(intent[c])
  BY <1>1, <1>4 DEF SenderOK
<1>6. /\ e.rev \in 1 .. intent[b] /\ e.base \in ViewsTo(intent[b]) /\ e.rev \in 0 .. intent[b] /\ e.rev \in Nat
      /\ intent[b] \in Nat /\ 0 \in 0 .. intent[b] /\ DOMAIN e = UnitFields
  BY <1>1, <1>4, <1>5 DEF UnitOK
<1>7. CASE inc.chunk < inc.bits
  <2>1. /\ DOMAIN sender' = SenderFields /\ sender'.queue = (sender.queue \ {e}) \cup {Part(e)}
        /\ sender'.latest = sender.latest /\ sender'.deferred = sender.deferred
        /\ sender'.alerted = sender.alerted /\ sender'.known = sender.known /\ inFlight' = inFlight
    BY <1>3, <1>5, <1>7 DEF SenderFields
  <2>2. UnitOK(Part(e), intent) /\ Part(e).b = e.b
    <3>1. /\ DOMAIN Part(e) = UnitFields /\ Part(e).b = e.b /\ Part(e).rev = e.rev
          /\ Part(e).created = e.created /\ Part(e).base = e.base
      BY <1>6 DEF UnitFields
    <3> HIDE DEF Part
    <3> QED BY <1>5, <3>1 DEF UnitOK
  <2> HIDE DEF Part
  <2>3. IsFiniteSet({Part(e)})
    BY FS_Singleton
  <2>4. SenderOK(sender', intent)
    BY <1>1, <1>4, <1>5, <2>1, <2>2, <2>3, EntryMoves
  <2>5. LinkInvariant'
    BY <1>2, <2>1, <2>4 DEF LinkInvariant
  <2> QED BY <1>4, <2>1, <2>5
<1>8. CASE ~(inc.chunk < inc.bits)
  <2> DEFINE levels == Carried(e)
             s == Acknowledge(sender, e, levels)
             Rest == [e EXCEPT !.level = inc.to, !.partLevel = NoLevel, !.partDone = 0]
             more == IF inc.to = 2 THEN {} ELSE {Rest}
             f == Flight(e)
  <2>1. sender' = [s EXCEPT !.queue = (@ \ {e}) \cup more] /\ inFlight' = inFlight \cup {f}
    BY <1>3, <1>8 DEF Advanced
  <2>2. f.b = b /\ DOMAIN f = {"b", "alert", "deltas", "left"} /\ f.alert \in 0 .. intent[b]
        /\ f.deltas = IF 1 \in levels THEN {Delta(e.base, e.rev)} ELSE {}
    BY <1>6
  <2> HIDE DEF f, levels
  <2>3. FlightOK(f, intent)
    BY <1>6, <2>2 DEF FlightOK
  <2>4. /\ DOMAIN s = SenderFields /\ s.queue = sender.queue /\ s.latest = sender.latest
        /\ s.deferred = sender.deferred /\ DOMAIN s.alerted = Beliefs /\ DOMAIN s.known = Beliefs
        /\ \A c \in Beliefs : c # b => s.known[c] = sender.known[c]
        /\ \/ s.known[b] = sender.known[b]
           \/ s.known[b] = NoView
           \/ 1 \in levels /\ s.known[b] = ViewOf(e.rev)
    BY <1>1, <1>4, Acknowledged
  <2> HIDE DEF s
  <2>5. UnitOK(Rest, intent) /\ Rest.b = e.b
    <3>1. /\ DOMAIN Rest = UnitFields /\ Rest.b = e.b /\ Rest.rev = e.rev
          /\ Rest.created = e.created /\ Rest.base = e.base
      BY <1>6 DEF UnitFields
    <3> HIDE DEF Rest
    <3> QED BY <1>5, <3>1 DEF UnitOK
  <2> HIDE DEF Rest
  <2>6. /\ \A x \in more : UnitOK(x, intent) /\ x.b = e.b
        /\ \A x, y \in more : x = y
        /\ IsFiniteSet(more)
    BY <2>5, FS_EmptySet, FS_Singleton
  <2> HIDE DEF more
  <2>7. /\ DOMAIN sender' = SenderFields /\ sender'.queue = (sender.queue \ {e}) \cup more
        /\ sender'.latest = sender.latest /\ sender'.deferred = sender.deferred
        /\ sender'.alerted = s.alerted /\ sender'.known = s.known
    BY <2>1, <2>4 DEF SenderFields
  <2>8. \A c \in Beliefs : sender'.known[c] \in ViewsTo(intent[c])
    <3>1. NoView \in ViewsTo(intent[b]) /\ ViewOf(e.rev) \in ViewsTo(intent[b])
      BY <1>6, ViewFacts
    <3> QED BY <1>5, <2>4, <2>7, <3>1
  <2>9. SenderOK(sender', intent)
    BY <1>1, <1>4, <2>4, <2>6, <2>7, <2>8, EntryMoves
  <2>10. Backed(sender'.known, view, inFlight')
    <3>1. SUFFICES ASSUME NEW c \in Beliefs
                   PROVE  \/ s.known[c].rev <= view[c].rev
                          \/ \E g \in inFlight' : g.b = c /\ \E d \in g.deltas : d.rev = s.known[c].rev
      BY <2>7 DEF Backed
    <3>2. CASE s.known[c] = sender.known[c]
      BY <1>1, <2>1, <3>2 DEF Backed
    <3>3. CASE c = b /\ s.known[b] = NoView
      <4>1. view[b].rev \in Nat /\ NoView.rev = 0
        BY <1>1, ViewFacts
      <4> QED BY <3>3, <4>1
    <3>4. CASE c = b /\ 1 \in levels /\ s.known[b] = ViewOf(e.rev)
      <4>1. s.known[c].rev = e.rev
        BY <1>6, <3>4, ViewFacts
      <4>2. Delta(e.base, e.rev).rev = e.rev
        BY DEF Delta
      <4> QED BY <2>1, <2>2, <3>4, <4>1, <4>2
    <3> QED BY <2>4, <3>2, <3>3, <3>4
  <2>11. LinkInvariant'
    BY <1>1, <1>2, <2>1, <2>3, <2>9, <2>10 DEF LinkInvariant
  <2> QED BY <1>4, <2>7, <2>11
<1> QED BY <1>7, <1>8

\* What an arrival does on shore: the view is replaced by that of a newer revision or not at all,
\* and the alert only grows.
LEMMA ArrivalOnShore ==
  ASSUME LinkInvariant, NEW f \in inFlight, Arrive(f)
  PROVE  /\ f.b \in Beliefs
         /\ \E r \in view[f.b].rev .. intent[f.b] :
              view' = [view EXCEPT ![f.b] = IF r = view[f.b].rev THEN view[f.b] ELSE ViewOf(r)]
         /\ \E r \in alert[f.b] .. intent[f.b] : alert' = [alert EXCEPT ![f.b] = r]
         /\ \A d \in f.deltas : d.rev <= view'[f.b].rev \/ AsksResync(view[f.b], d)
<1> DEFINE b == f.b
           v == view[b]
<1>1. /\ FlightOK(f, intent) /\ intent \in Limits
      /\ DOMAIN view = Beliefs /\ \A c \in Beliefs : view[c] \in ViewsTo(intent[c])
      /\ alert \in [Beliefs -> Nat] /\ \A c \in Beliefs : alert[c] <= intent[c]
  BY DEF LinkInvariant, Limits
<1>2. /\ alert' = [alert EXCEPT ![b] = Larger(alert[b], f.alert)]
      /\ view' = [view EXCEPT ![b] = IF f.deltas = {} THEN v ELSE Receive(v, CHOOSE d \in f.deltas : TRUE)]
  BY DEF Arrive
<1>3. /\ b \in Beliefs /\ intent[b] \in Nat /\ f.alert \in 0 .. intent[b]
      /\ v \in ViewsTo(intent[b]) /\ alert[b] \in 0 .. intent[b]
  BY <1>1 DEF FlightOK, Limits
<1>4. v.rev \in 0 .. intent[b] /\ v.rev \in Nat
  BY <1>3, ViewFacts
<1>5. \/ f.deltas = {}
      \/ \E base \in ViewsTo(intent[b]), r \in 1 .. intent[b] : f.deltas = {Delta(base, r)}
  BY <1>1 DEF FlightOK
<1>6. Larger(alert[b], f.alert) \in alert[b] .. intent[b]
  BY <1>3 DEF Larger
<1> HIDE DEF b, v
<1>7. CASE f.deltas = {}
  <2>1. view' = [view EXCEPT ![b] = v] /\ v.rev \in v.rev .. intent[b]
    BY <1>2, <1>4, <1>7
  <2> QED BY <1>2, <1>3, <1>6, <1>7, <2>1 DEF b, v
<1>8. CASE f.deltas # {}
  <2>1. PICK base \in ViewsTo(intent[b]), r \in 1 .. intent[b] : f.deltas = {Delta(base, r)}
    BY <1>5, <1>8
  <2> DEFINE d == Delta(base, r)
  <2>2. d.rev = r
    BY DEF Delta
  <2>3. Fits(v, d) /\ v.rev < r => Applied(v, d) = ViewOf(r)
    BY <1>3, DeltaApplies
  <2>4. (CHOOSE x \in f.deltas : TRUE) = d
    BY <2>1
  <2> HIDE DEF d
  <2>5. view' = [view EXCEPT ![b] = Receive(v, d)]
    BY <1>2, <1>8, <2>4
  <2>6. view'[b] = Receive(v, d)
    BY <1>1, <1>3, <2>5
  <2>7. CASE v.rev < r /\ Fits(v, d)
    <3>1. Receive(v, d) = ViewOf(r) /\ r \in v.rev .. intent[b] /\ r # v.rev /\ ViewOf(r).rev = r
      BY <1>3, <1>4, <2>2, <2>3, <2>7, ViewFacts DEF Receive
    <3>2. \E x \in v.rev .. intent[b] : view' = [view EXCEPT ![b] = IF x = v.rev THEN v ELSE ViewOf(x)]
      BY <2>5, <3>1
    <3>3. \A x \in f.deltas : x.rev <= view'[b].rev
      BY <2>1, <2>2, <2>6, <3>1 DEF d
    <3> QED BY <1>2, <1>3, <1>6, <3>2, <3>3 DEF b, v
  <2>8. CASE ~(v.rev < r /\ Fits(v, d))
    <3>1. Receive(v, d) = v
      BY <2>2, <2>8 DEF Receive
    <3>2. \E x \in v.rev .. intent[b] : view' = [view EXCEPT ![b] = IF x = v.rev THEN v ELSE ViewOf(x)]
      <4>1. v.rev \in v.rev .. intent[b]
        BY <1>4, <1>3
      <4> QED BY <2>5, <3>1, <4>1
    <3>3. \A x \in f.deltas : x.rev <= view'[b].rev \/ AsksResync(v, x)
      <4>1. r <= v.rev \/ AsksResync(v, d)
        BY <1>4, <2>2, <2>8 DEF AsksResync
      <4> QED BY <2>1, <2>2, <2>6, <3>1, <4>1 DEF d
    <3> QED BY <1>2, <1>3, <1>6, <3>2, <3>3 DEF b, v
  <2> QED BY <2>7, <2>8
<1> QED BY <1>7, <1>8

LEMMA ArriveKeeps ==
  ASSUME LinkInvariant, NEW f \in inFlight, Arrive(f)
  PROVE  /\ LinkInvariant'
         /\ \A e \in sender.queue : InProgress(e) /\ Critical(e.value) => e \in sender'.queue
<1>1. /\ intent \in Limits /\ offers \in Nat /\ SenderOK(sender, intent)
      /\ \A g \in inFlight : FlightOK(g, intent)
      /\ DOMAIN view = Beliefs /\ \A c \in Beliefs : view[c] \in ViewsTo(intent[c]) /\ intent[c] \in Nat
      /\ alert \in [Beliefs -> Nat] /\ \A c \in Beliefs : alert[c] <= intent[c]
      /\ Backed(sender.known, view, inFlight)
  BY DEF LinkInvariant, Limits
<1>2. /\ UNCHANGED <<intent, offers, pending>> /\ inFlight' = inFlight \ {f}
      /\ sender' = IF \E d \in f.deltas : AsksResync(view[f.b], d) THEN HandleResync(sender, f.b, offers) ELSE sender
  BY DEF Arrive, intakeVars
<1>3. f.b \in Beliefs
  BY ArrivalOnShore
<1>4. PICK r \in view[f.b].rev .. intent[f.b] :
         view' = [view EXCEPT ![f.b] = IF r = view[f.b].rev THEN view[f.b] ELSE ViewOf(r)]
  BY ArrivalOnShore
<1>5. PICK a \in alert[f.b] .. intent[f.b] : alert' = [alert EXCEPT ![f.b] = a]
  BY ArrivalOnShore
<1>6. \A d \in f.deltas : d.rev <= view'[f.b].rev \/ AsksResync(view[f.b], d)
  BY ArrivalOnShore
<1>7. \A c \in Beliefs : view[c].rev \in Nat /\ view[c].rev <= intent[c]
  BY <1>1, ViewFacts
<1>8. /\ DOMAIN view' = Beliefs
      /\ \A c \in Beliefs : view'[c] \in ViewsTo(intent[c]) /\ view[c].rev <= view'[c].rev /\ view'[c].rev \in Nat
  <2>1. r \in 0 .. intent[f.b] /\ view[f.b].rev <= r /\ r \in Nat
    BY <1>1, <1>3, <1>4, <1>7
  <2>2. ViewOf(r) \in ViewsTo(intent[f.b]) /\ ViewOf(r).rev = r
    BY <1>1, <1>3, <2>1, ViewFacts
  <2> QED BY <1>1, <1>3, <1>4, <1>7, <2>1, <2>2
<1>9. alert' \in [Beliefs -> Nat] /\ \A c \in Beliefs : alert'[c] <= intent[c]
  BY <1>1, <1>3, <1>5
<1>10. /\ SenderOK(HandleResync(sender, f.b, offers), intent)
       /\ HandleResync(sender, f.b, offers).known = [sender.known EXCEPT ![f.b] = NoView]
       /\ \A e \in sender.queue :
            InProgress(e) /\ Critical(e.value) => e \in HandleResync(sender, f.b, offers).queue
  BY <1>1, <1>3, ResyncKeeps
<1>11. SenderOK(sender', intent)
  BY <1>1, <1>2, <1>10
<1>12. DOMAIN sender.known = Beliefs /\ \A c \in Beliefs : sender.known[c].rev \in Nat
  BY <1>1, ViewFacts DEF SenderOK
<1>13. Backed(sender'.known, view', inFlight')
  <2>1. SUFFICES ASSUME NEW c \in Beliefs, ~(sender'.known[c].rev <= view'[c].rev)
                 PROVE  \E g \in inFlight' : g.b = c /\ \E d \in g.deltas : d.rev = sender'.known[c].rev
    BY DEF Backed
  <2>2. sender'.known[c] = sender.known[c]
    <3>1. sender'.known[c] # NoView
      BY <1>8, <2>1, ViewFacts
    <3> QED BY <1>2, <1>10, <1>12, <3>1
  <2>3. ~(sender.known[c].rev <= view[c].rev)
    BY <1>7, <1>8, <1>12, <2>1, <2>2
  <2>4. PICK g \in inFlight : g.b = c /\ \E d \in g.deltas : d.rev = sender.known[c].rev
    BY <1>1, <2>3 DEF Backed
  <2>5. g # f
    <3>1. SUFFICES ASSUME g = f PROVE FALSE
      OBVIOUS
    <3>2. PICK d \in f.deltas : d.rev = sender.known[c].rev /\ f.b = c
      BY <2>4, <3>1
    <3>3. ~(d.rev <= view'[f.b].rev)
      BY <2>1, <2>2, <3>2
    <3>4. AsksResync(view[f.b], d)
      BY <1>6, <3>3
    <3>5. sender'.known[c] = NoView
      BY <1>2, <1>10, <1>12, <3>2, <3>4
    <3> QED BY <1>8, <2>1, <3>5, ViewFacts
  <2> QED BY <1>2, <2>2, <2>4, <2>5
<1>14. LinkInvariant'
  BY <1>1, <1>2, <1>8, <1>9, <1>11, <1>13 DEF LinkInvariant, Limits
<1> QED BY <1>2, <1>10, <1>14

LEMMA EndStepKeeps ==
  ASSUME LinkInvariant, EndStep
  PROVE  LinkInvariant'
<1>1. /\ UNCHANGED <<intent, offers, pending, sender, view, alert>>
      /\ inFlight' = {[f EXCEPT !.left = @ - 1] : f \in inFlight}
  BY DEF EndStep, shoreVars
<1>2. \A f \in inFlight : FlightOK(f, intent) /\ Backed(sender.known, view, inFlight)
  BY DEF LinkInvariant
<1>3. ASSUME NEW f \in inFlight
      PROVE  LET g == [f EXCEPT !.left = @ - 1]
             IN FlightOK(g, intent) /\ g.b = f.b /\ g.deltas = f.deltas
  <2> DEFINE g == [f EXCEPT !.left = @ - 1]
  <2>1. DOMAIN f = {"b", "alert", "deltas", "left"}
    BY <1>2 DEF FlightOK
  <2>2. DOMAIN g = {"b", "alert", "deltas", "left"} /\ g.b = f.b /\ g.deltas = f.deltas /\ g.alert = f.alert
    BY <2>1
  <2> HIDE DEF g
  <2>3. FlightOK(g, intent)
    BY <1>2, <2>2 DEF FlightOK
  <2> QED BY <2>2, <2>3 DEF g
<1>4. \A g \in inFlight' : FlightOK(g, intent)
  BY <1>1, <1>3
<1>5. \A f \in inFlight : \E g \in inFlight' : g.b = f.b /\ g.deltas = f.deltas
  BY <1>1, <1>3
<1>6. Backed(sender.known, view, inFlight')
  <2>1. Backed(sender.known, view, inFlight)
    BY DEF LinkInvariant
  <2>2. SUFFICES ASSUME NEW c \in Beliefs, ~(sender.known[c].rev <= view[c].rev)
                 PROVE  \E g \in inFlight' : g.b = c /\ \E d \in g.deltas : d.rev = sender.known[c].rev
    BY DEF Backed
  <2>3. PICK f \in inFlight : f.b = c /\ \E d \in f.deltas : d.rev = sender.known[c].rev
    BY <2>1, <2>2 DEF Backed
  <2>4. PICK g \in inFlight' : g.b = f.b /\ g.deltas = f.deltas
    BY <1>5
  <2> QED BY <2>3, <2>4
<1> QED BY <1>1, <1>4, <1>6 DEF LinkInvariant

\* The steps that touch nothing of that: planning, a lost chunk, the channel, and none at all.
Quiet == UNCHANGED <<intent, offers, pending, sender, inFlight, view, alert>>

LEMMA QuietSteps ==
  ASSUME Plan \/ PlanDone \/ NotTransmitted \/ LinkGoesDown \/ LinkComesUp \/ UNCHANGED vars
  PROVE  Quiet
<1>1. CASE Plan
  BY <1>1 DEF Plan, Quiet, intakeVars, shoreVars
<1>2. CASE PlanDone
  BY <1>2 DEF PlanDone, Quiet, intakeVars, shoreVars
<1>3. CASE NotTransmitted
  BY <1>3 DEF NotTransmitted, Quiet, intakeVars, shoreVars
<1>4. CASE LinkGoesDown
  BY <1>4 DEF LinkGoesDown, Quiet, intakeVars, shoreVars
<1>5. CASE LinkComesUp
  BY <1>5 DEF LinkComesUp, Quiet, intakeVars, shoreVars
<1>6. CASE UNCHANGED vars
  BY <1>6 DEF vars, Quiet, intakeVars, shoreVars
<1> QED BY <1>1, <1>2, <1>3, <1>4, <1>5, <1>6

\* The steps, one by one.
LEMMA StepCases ==
  ASSUME [Next]_vars
  PROVE  \/ \E b \in Beliefs, v \in Values : OfferToLink(b, intent[b], v) \/ OfferToLink(b, intent[b] + 1, v)
         \/ BeginStep
         \/ \E b \in Beliefs, arrives \in 0 .. MaxDelay : Transmit(b, arrives)
         \/ TransmitDone
         \/ \E f \in inFlight : Arrive(f)
         \/ EndStep
         \/ Quiet
BY QuietSteps DEF Next, Step

LEMMA LinkStep ==
  ASSUME LinkInvariant, [Next]_vars
  PROVE  LinkInvariant'
<1>1. CASE \E b \in Beliefs, v \in Values : OfferToLink(b, intent[b], v) \/ OfferToLink(b, intent[b] + 1, v)
  BY <1>1, OfferToLinkKeeps
<1>2. CASE BeginStep
  BY <1>2, BeginStepKeeps
<1>3. CASE \E b \in Beliefs, arrives \in 0 .. MaxDelay : Transmit(b, arrives)
  BY <1>3, TransmitKeeps
<1>4. CASE TransmitDone
  BY <1>4, TransmitDoneKeeps
<1>5. CASE \E f \in inFlight : Arrive(f)
  BY <1>5, ArriveKeeps
<1>6. CASE EndStep
  BY <1>6, EndStepKeeps
<1>7. CASE Quiet
  BY <1>7 DEF Quiet, LinkInvariant
<1> QED BY <1>1, <1>2, <1>3, <1>4, <1>5, <1>6, <1>7, StepCases

\* The invariant holds of every reachable state: whatever is offered, lost, reordered or asked for
\* again, the sender, the link and the shore hold revisions that were given to the link.
THEOREM LinkInductive == Spec => []LinkInvariant
<1>1. LinkInvariant /\ [Next]_vars => LinkInvariant'
  BY LinkStep
<1> QED BY LinkInit, <1>1, PTL DEF Spec

-----------------------------------------------------------------------------
(***************************************************************************)
(* What follows from it.                                                   *)
(***************************************************************************)

\* A belief never has two units in the sender's queue, however offers coalesce, deferred revisions
\* are released, units are built again or resynchronisations asked for (baac.py, queue.py).
THEOREM OneUnitKept == Spec => []OneUnitPerBelief
<1>1. LinkInvariant => OneUnitPerBelief
  BY DEF LinkInvariant, SenderOK, OnePerBelief, OneUnitPerBelief
<1> QED BY <1>1, LinkInductive, PTL

\* K_R is never ahead of the shore and of what is on its way there, although increments arrive in
\* any order and the shore ignores deltas that do not fit its view (receiver.py).
THEOREM KnowledgeBacked == Spec => []KnowledgeIsBacked
<1>1. LinkInvariant => KnowledgeIsBacked
  BY DEF LinkInvariant, Backed, KnowledgeIsBacked
<1> QED BY <1>1, LinkInductive, PTL

LEMMA ProgressStep ==
  ASSUME LinkInvariant, [Next]_vars, NEW e \in sender.queue, InProgress(e) /\ Critical(e.value)
  PROVE  \/ e \in sender'.queue
         \/ phase = "transmit" /\ plan # <<>> /\ Head(plan).b = e.b
         \/ phase = "idle" /\ linkUp /\ ~wasUp
<1>1. CASE \E b \in Beliefs, v \in Values : OfferToLink(b, intent[b], v) \/ OfferToLink(b, intent[b] + 1, v)
  BY <1>1 DEF OfferToLink
<1>2. CASE BeginStep
  <2>1. phase = "idle"
    BY <1>2 DEF BeginStep
  <2>2. ~(linkUp /\ ~wasUp) => e \in sender'.queue
    BY <1>2, BeginStepKeeps DEF Untouched
  <2> QED BY <2>1, <2>2
<1>3. CASE \E b \in Beliefs, arrives \in 0 .. MaxDelay : Transmit(b, arrives)
  <2>1. PICK b \in Beliefs, arrives \in 0 .. MaxDelay : Transmit(b, arrives)
    BY <1>3
  <2>2. phase = "transmit" /\ plan # <<>> /\ Head(plan).b = b
    BY <2>1 DEF Transmit
  <2>3. e.b # b => e \in sender'.queue
    BY <2>1, TransmitKeeps
  <2> QED BY <2>2, <2>3
<1>4. CASE TransmitDone
  BY <1>4, TransmitDoneKeeps DEF Untouched
<1>5. CASE \E f \in inFlight : Arrive(f)
  BY <1>5, ArriveKeeps
<1>6. CASE EndStep
  BY <1>6 DEF EndStep
<1>7. CASE Quiet
  BY <1>7 DEF Quiet
<1> QED BY <1>1, <1>2, <1>3, <1>4, <1>5, <1>6, <1>7, StepCases

\* No fresher revision, resynchronisation, release or overload takes an increment under way from a
\* critical unit: only its own transmission and a link that comes back do (baac.py, queue.py).
THEOREM ProgressIsKept == Spec => ProgressKept
<1>1. LinkInvariant /\ [Next]_vars =>
        [\A e \in sender.queue :
           InProgress(e) /\ Critical(e.value) =>
             \/ e \in sender'.queue
             \/ phase = "transmit" /\ plan # <<>> /\ Head(plan).b = e.b
             \/ phase = "idle" /\ linkUp /\ ~wasUp]_vars
  BY ProgressStep
<1> QED BY <1>1, LinkInductive, PTL DEF Spec, ProgressKept

-----------------------------------------------------------------------------
(***************************************************************************)
(* The refinement of ShoreView.                                            *)
(***************************************************************************)
LEMMA ShoreStep ==
  ASSUME LinkInvariant, [Next]_vars
  PROVE  [Promise!Next]_(<<intent, view, alert>>)
<1>0. intent \in [Beliefs -> Nat]
  BY DEF LinkInvariant
<1>1. CASE \E b \in Beliefs, v \in Values : OfferToLink(b, intent[b], v) \/ OfferToLink(b, intent[b] + 1, v)
  <2>1. PICK b \in Beliefs, v \in Values : OfferToLink(b, intent[b], v) \/ OfferToLink(b, intent[b] + 1, v)
    BY <1>1
  <2>2. PICK r \in {intent[b], intent[b] + 1} : OfferToLink(b, r, v)
    BY <2>1
  <2>3. UNCHANGED <<view, alert>> /\ intent' = [intent EXCEPT ![b] = Larger(r, intent[b])]
    BY <2>2 DEF OfferToLink, shoreVars
  <2>4. intent[b] \in Nat /\ Larger(r, intent[b]) = r
    BY <1>0, <2>2 DEF Larger
  <2>5. CASE r = intent[b]
    BY <1>0, <2>3, <2>4, <2>5
  <2>6. CASE r = intent[b] + 1
    <3>1. Promise!Publish(b)
      BY <2>3, <2>4, <2>6 DEF Promise!Publish
    <3> QED BY <3>1 DEF Promise!Next
  <2> QED BY <2>2, <2>5, <2>6
<1>2. CASE BeginStep
  BY <1>2 DEF BeginStep, shoreVars
<1>3. CASE \E b \in Beliefs, arrives \in 0 .. MaxDelay : Transmit(b, arrives)
  BY <1>3 DEF Transmit, intakeVars, shoreVars
<1>4. CASE TransmitDone
  BY <1>4 DEF TransmitDone, intakeVars, shoreVars
<1>5. CASE \E f \in inFlight : Arrive(f)
  <2>1. PICK f \in inFlight : Arrive(f)
    BY <1>5
  <2>2. intent' = intent
    BY <2>1 DEF Arrive, intakeVars
  <2>3. f.b \in Beliefs
    BY <2>1, ArrivalOnShore
  <2>4. \E r \in view[f.b].rev .. intent[f.b] :
          view' = [view EXCEPT ![f.b] = IF r = view[f.b].rev THEN view[f.b] ELSE ViewOf(r)]
    BY <2>1, ArrivalOnShore
  <2>5. \E r \in alert[f.b] .. intent[f.b] : alert' = [alert EXCEPT ![f.b] = r]
    BY <2>1, ArrivalOnShore
  <2>6. \A r : Promise!ViewOf(r) = ViewOf(r)
    BY DEF Promise!ViewOf, ViewOf, Promise!Fields, Fields
  <2>7. Promise!Learn(f.b)
    BY <2>2, <2>4, <2>5, <2>6 DEF Promise!Learn
  <2> QED BY <2>3, <2>7 DEF Promise!Next
<1>6. CASE EndStep
  BY <1>6 DEF EndStep, shoreVars
<1>7. CASE Quiet
  BY <1>7 DEF Quiet
<1> QED BY <1>1, <1>2, <1>3, <1>4, <1>5, <1>6, <1>7, StepCases

\* The link implements its promise: the shore only ever goes from one published view to a newer
\* one, whole, and its alerts are of published revisions (comms.py, receiver.py).
THEOREM RefinesShoreView == Spec => ImplementsShoreView
<1>1. Init => Promise!Init
  BY DEF Init, Promise!Init, NoView, Promise!NoView, Fields, Promise!Fields
<1>2. LinkInvariant /\ [Next]_vars => [Promise!Next]_(<<intent, view, alert>>)
  BY ShoreStep
<1> QED BY <1>1, <1>2, LinkInductive, PTL DEF Spec, ImplementsShoreView, Promise!Spec, Promise!vars
=============================================================================
