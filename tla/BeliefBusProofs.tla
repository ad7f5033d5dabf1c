--------------------------- MODULE BeliefBusProofs --------------------------
(***************************************************************************)
(* Proofs about the Belief Bus and the needs, on top of what               *)
(* BeliefPlaneProofs proves of the store: what is published is what is     *)
(* committed, and a need is closed by an independent observation.          *)
(***************************************************************************)
EXTENDS BeliefPlaneProofs

\* The revisions of a belief that are published, in any state of the logs.
Shows(revs, b) ==
  {i \in DOMAIN revs[b] : revs[b][i].kind \notin {"CONTEXT"} \cup (IF b \in Ecological THEN {"CREATE"} ELSE {})}

\* A message, or a head, says what a revision of the belief was committed with.
Says(revs, m, b) == m.rev + 1 \in Shows(revs, b) /\ m.used = revs[b][m.rev + 1].used

\* Messages wait for the bus from the first child to the publication.
Gathering == phase \in Domains \cup {"publish"}
Carries(messages, b, n) == \E j \in DOMAIN messages : messages[j].belief = b /\ messages[j].rev = n

\* What the bus has of a belief whose child is in service lacks at most what is on its way.
Shown ==
  /\ \A b \in Beliefs : bus[b] # NoMessage => Says(db.revs, bus[b], b)
  /\ \A i \in DOMAIN made : Says(db.revs, made[i], made[i].belief) /\ DomainOf(made[i].belief) = phase
  /\ Gathering => \A i \in DOMAIN out : Says(db.revs, out[i], out[i].belief)
  /\ phase \in {"sense", "end"} => out = <<>>
  /\ \A b \in Beliefs : DomainOf(b) \notin failed =>
       \A i \in Shows(db.revs, b) :
         i - 1 <= bus[b].rev \/ (Gathering /\ (Carries(out, b, i - 1) \/ Carries(made, b, i - 1)))

-----------------------------------------------------------------------------
(***************************************************************************)
(* What a commit and a publication do.                                     *)
(***************************************************************************)
LEMMA ShowsIsPublishable == \A b \in Beliefs : Shows(db.revs, b) = Publishable(b)
BY DEF Shows, Publishable

LEMMA AppendFacts ==
  ASSUME NEW S, NEW s \in Seq(S), NEW x \in S
  PROVE  /\ Len(Append(s, x)) = Len(s) + 1 /\ DOMAIN Append(s, x) = DOMAIN s \cup {Len(s) + 1}
         /\ \A i \in DOMAIN s : i \in DOMAIN Append(s, x) /\ Append(s, x)[i] = s[i]
         /\ Append(s, x)[Len(s) + 1] = x
<1> DEFINE n == Len(s)
<1>1. n \in Nat /\ DOMAIN s = 1 .. n
  OBVIOUS
<1>2. /\ Len(Append(s, x)) = n + 1 /\ \A i \in 1 .. n : Append(s, x)[i] = s[i]
      /\ Append(s, x)[n + 1] = x /\ Append(s, x) \in Seq(S)
  BY AppendProperties
<1>3. DOMAIN Append(s, x) = 1 .. (n + 1)
  BY <1>2
<1> HIDE DEF n
<1>4. 1 .. (n + 1) = 1 .. n \cup {n + 1}
  BY <1>1
<1> QED BY <1>1, <1>2, <1>3, <1>4 DEF n

LEMMA CommitLogs ==
  ASSUME Typed, Stored, Commit
  PROVE  LET u == tx.update
             b == u.belief
         IN /\ b \in Beliefs /\ todo # <<>> /\ u.rev \in Nat
            /\ b = todo[1].belief /\ u.kind = todo[1].kind /\ u.used = todo[1].used
            /\ u.used \subseteq Evidence /\ u.used \cap db.uses[b] = {} /\ u.kind \in Kinds \ {"CREATE"}
            /\ u.rev = Len(db.revs[b]) /\ Len(db'.revs[b]) = u.rev + 1
            /\ \A i \in DOMAIN db.revs[b] : i \in DOMAIN db'.revs[b] /\ db'.revs[b][i] = db.revs[b][i]
            /\ DOMAIN db'.revs[b] = DOMAIN db.revs[b] \cup {u.rev + 1}
            /\ db'.revs[b][u.rev + 1].kind = u.kind /\ db'.revs[b][u.rev + 1].used = u.used
            /\ \A c \in Beliefs \ {b} : db'.revs[c] = db.revs[c]
            /\ db'.uses[b] = db.uses[b] \cup u.used /\ \A c \in Beliefs \ {b} : db'.uses[c] = db.uses[c]
<1> DEFINE u == tx.update
           b == u.belief
           old == db.revs[b]
           r == [rev |-> u.rev, kind |-> u.kind, used |-> u.used, time |-> u.time, late |-> u.late,
                 root |-> u.root, count |-> IndependentTotal(db, u)]
<1>1. TypeOK /\ db \in Tables /\ todo \in Seq(Planned) /\ todo # <<>>
  BY CommitStep DEF Typed, TypeOK, Working
<1>2. /\ tx # NoTx /\ tx.at = 5 /\ u \in Updates /\ b \in Beliefs /\ db' = tx.copy
  BY <1>1, CommitStep
<1>3. Bounded(u.records) /\ u.used \subseteq Evidence /\ u.rev \in Nat
  BY <1>2 DEF Typed, RecordsBounded, Updates
<1>4. /\ b = todo[1].belief /\ u.kind = todo[1].kind /\ u.used = todo[1].used
      /\ ~Refused(db, u) /\ tx.copy = Complete(db, u)
  BY <1>2 DEF Stored, Writing
<1>5. u.kind \in Kinds \ {"CREATE"}
  <2>1. todo[1] \in Planned
    BY <1>1
  <2> QED BY <1>4, <2>1 DEF Planned
<1>6. u.rev = db.rows[b].head + 1 /\ u.used \cap db.uses[b] = {}
  BY <1>4 DEF Refused, PredecessorMismatch, DuplicateEvidence
<1>7. Whole(db, b)
  BY <1>2 DEF Stored, Agrees
<1>8. old \in Seq(Revisions) /\ Len(old) \in Nat
  BY <1>1, <1>2 DEF Tables
<1>9. u.rev = Len(old)
  <2>1. db.rows[b].head = Len(old) - 1
    BY <1>7 DEF Whole
  <2>2. u.rev = (Len(old) - 1) + 1
    BY <1>6, <2>1
  <2> HIDE DEF old, u
  <2> QED BY <1>8, <2>2
<1>10. r \in Revisions
  BY <1>1, <1>2, TotalType DEF Updates, Revisions
<1>11. /\ db'.revs[b] = Append(old, r) /\ \A c \in Beliefs \ {b} : db'.revs[c] = db.revs[c]
       /\ db'.uses[b] = db.uses[b] \cup u.used /\ \A c \in Beliefs \ {b} : db'.uses[c] = db.uses[c]
  <2> HIDE DEF u
  <2>1. db \in Tables /\ u \in Updates /\ Bounded(u.records)
    BY <1>1, <1>2, <1>3
  <2>2. /\ Complete(db, u).revs[u.belief] = Append(db.revs[u.belief],
             [rev |-> u.rev, kind |-> u.kind, used |-> u.used, time |-> u.time, late |-> u.late,
              root |-> u.root, count |-> IndependentTotal(db, u)])
        /\ \A c \in Beliefs \ {u.belief} : Complete(db, u).revs[c] = db.revs[c]
        /\ Complete(db, u).uses[u.belief] = db.uses[u.belief] \cup u.used
        /\ \A c \in Beliefs \ {u.belief} : Complete(db, u).uses[c] = db.uses[c]
    BY <2>1, Written
  <2>3. db' = Complete(db, u)
    BY <1>2, <1>4
  <2> QED BY <2>2, <2>3
<1>12. r.kind = u.kind /\ r.used = u.used
  OBVIOUS
<1> HIDE DEF r
<1>13. /\ Len(Append(old, r)) = Len(old) + 1 /\ DOMAIN Append(old, r) = DOMAIN old \cup {Len(old) + 1}
       /\ \A i \in DOMAIN old : i \in DOMAIN Append(old, r) /\ Append(old, r)[i] = old[i]
       /\ Append(old, r)[Len(old) + 1] = r
  <2> HIDE DEF old
  <2> QED BY <1>8, <1>10, AppendFacts
<1> DEFINE new == db'.revs[b]
<1>14. /\ Len(new) = u.rev + 1 /\ DOMAIN new = DOMAIN old \cup {u.rev + 1}
       /\ \A i \in DOMAIN old : i \in DOMAIN new /\ new[i] = old[i]
       /\ new[u.rev + 1].kind = u.kind /\ new[u.rev + 1].used = u.used
  <2>1. new = Append(old, r)
    BY <1>11
  <2> HIDE DEF new, old, u
  <2> QED BY <1>9, <1>12, <1>13, <2>1
<1> QED BY <1>1, <1>2, <1>3, <1>4, <1>5, <1>6, <1>9, <1>11, <1>14

\* What the bus has after a batch: of each belief the head it had or a message of the batch, and nothing
\* older than either.
Delivered(h, messages, k) ==
  /\ h \in [Beliefs -> Heads]
  /\ \A b \in Beliefs : /\ bus[b].rev <= h[b].rev
                        /\ \/ h[b] = bus[b]
                           \/ \E j \in 1 .. k : messages[j].belief = b /\ h[b] = HeadOf(messages[j])
  /\ \A j \in 1 .. k : messages[j].rev <= h[messages[j].belief].rev

LEMMA PublishFacts ==
  ASSUME TypeOK, NEW messages \in Seq(Messages)
  PROVE  Delivered(PublishMany(messages).heads, messages, Len(messages))
<1> DEFINE n == Len(messages)
<1>1. PICK after \in [0 .. n -> Deliveries] :
        /\ after[0] = [heads |-> bus, accepted |-> <<>>]
        /\ \A i \in 1 .. n : after[i] = Deliver(after[i - 1], messages[i])
        /\ PublishMany(messages) = after[n]
  BY PublishRuns
<1>2. n \in Nat /\ \A i \in 1 .. n : messages[i] \in Messages
  OBVIOUS
<1> HIDE DEF n
<1> DEFINE T == {k \in 0 .. n : Delivered(after[k].heads, messages, k)}
<1>3. 0 \in T
  <2>1. after[0].heads = bus /\ bus \in [Beliefs -> Heads]
    BY <1>1 DEF TypeOK
  <2>2. \A b \in Beliefs : bus[b].rev \in Int
    BY <2>1 DEF Heads
  <2> QED BY <1>2, <2>1, <2>2 DEF Delivered
<1>4. ASSUME NEW k \in 1 .. n, k - 1 \in T PROVE k \in T
  <2> DEFINE p == after[k - 1]
             m == messages[k]
             h == after[k].heads
  <2>1. p \in Deliveries /\ m \in Messages /\ after[k] = Deliver(p, m) /\ k - 1 \in 0 .. n /\ k \in Nat
    BY <1>1, <1>2
  <2>2. Delivered(p.heads, messages, k - 1)
    BY <1>4
  <2>3. p.heads \in [Beliefs -> Heads] /\ m.belief \in Beliefs /\ m.rev \in Nat /\ HeadOf(m) \in Heads
        /\ HeadOf(m).rev = m.rev
    BY <2>1 DEF Deliveries, Messages, HeadOf, Heads
  <2>4. \A b \in Beliefs : p.heads[b].rev \in Int /\ bus[b].rev \in Int
    BY <2>3 DEF TypeOK, Heads
  <2>5. h = IF m.rev > p.heads[m.belief].rev THEN [p.heads EXCEPT ![m.belief] = HeadOf(m)] ELSE p.heads
    BY <2>1 DEF Deliver, Accepted
  <2> HIDE DEF p, h
  <2>6. /\ h \in [Beliefs -> Heads] /\ \A b \in Beliefs : p.heads[b].rev <= h[b].rev
        /\ \A b \in Beliefs : h[b] = p.heads[b] \/ (b = m.belief /\ h[b] = HeadOf(m))
        /\ m.rev <= h[m.belief].rev
    <3>1. CASE m.rev > p.heads[m.belief].rev
      <4>1. h = [p.heads EXCEPT ![m.belief] = HeadOf(m)]
        BY <2>5, <3>1
      <4>2. h \in [Beliefs -> Heads] /\ h[m.belief] = HeadOf(m) /\ \A b \in Beliefs \ {m.belief} : h[b] = p.heads[b]
        BY <2>3, <4>1
      <4> QED BY <2>3, <2>4, <3>1, <4>2
    <3>2. CASE ~(m.rev > p.heads[m.belief].rev)
      BY <2>3, <2>4, <2>5, <3>2
    <3> QED BY <3>1, <3>2
  <2>7. \A b \in Beliefs : h[b].rev \in Int
    BY <2>6 DEF Heads
  <2>8. \A j \in 1 .. k : j \in 1 .. (k - 1) \/ j = k
    BY <2>1
  <2>9. ASSUME NEW b \in Beliefs
        PROVE  /\ bus[b].rev <= h[b].rev
               /\ h[b] = bus[b] \/ \E j \in 1 .. k : messages[j].belief = b /\ h[b] = HeadOf(messages[j])
    <3>1. /\ bus[b].rev <= p.heads[b].rev
          /\ \/ p.heads[b] = bus[b]
             \/ \E j \in 1 .. (k - 1) : messages[j].belief = b /\ p.heads[b] = HeadOf(messages[j])
      BY <2>2 DEF Delivered
    <3>2. bus[b].rev <= h[b].rev
      BY <2>4, <2>6, <2>7, <3>1
    <3>3. CASE h[b] = p.heads[b]
      BY <2>1, <3>1, <3>2, <3>3
    <3>4. CASE b = m.belief /\ h[b] = HeadOf(m)
      <4>1. k \in 1 .. k
        BY <2>1
      <4> QED BY <3>2, <3>4, <4>1
    <3> QED BY <2>6, <3>3, <3>4
  <2>10. ASSUME NEW j \in 1 .. k PROVE messages[j].rev <= h[messages[j].belief].rev
    <3>1. CASE j \in 1 .. (k - 1)
      <4>1. messages[j].rev <= p.heads[messages[j].belief].rev
        BY <2>2, <3>1 DEF Delivered
      <4>2. j \in 1 .. n
        BY <1>2, <2>1
      <4>3. messages[j] \in Messages
        BY <1>2, <4>2
      <4>4. messages[j].belief \in Beliefs /\ messages[j].rev \in Nat
        BY <4>3 DEF Messages
      <4> QED BY <2>4, <2>6, <2>7, <4>1, <4>4
    <3> QED BY <2>6, <2>8, <3>1
  <2>11. Delivered(h, messages, k)
    BY <2>6, <2>9, <2>10 DEF Delivered
  <2> QED BY <2>1, <2>11 DEF h
<1>5. n \in T
  <2> HIDE DEF T
  <2> QED BY <1>2, <1>3, <1>4, IntervalInduction
<1> QED BY <1>1, <1>5 DEF n
-----------------------------------------------------------------------------
(***************************************************************************)
(* Shown is inductive.                                                     *)
(***************************************************************************)
LEMMA MadeEmpty ==
  ASSUME Typed, Shown, phase \notin Domains
  PROVE  made = <<>> /\ DOMAIN made = {}
<1>1. made \in Seq(Messages)
  BY DEF Typed, TypeOK
<1>2. ASSUME made # <<>> PROVE FALSE
  <2>1. 1 \in DOMAIN made
    BY <1>1, <1>2
  <2>2. made[1] \in Messages
    BY <1>1, <2>1
  <2>3. made[1].belief \in Beliefs /\ DomainOf(made[1].belief) = phase
    BY <2>1, <2>2 DEF Messages, Shown
  <2> QED BY <2>3, DomainType
<1> QED BY <1>2

\* The element is one of either sequence.
Comes(x, s, t) == (\E j \in DOMAIN s : x = s[j]) \/ (\E j \in DOMAIN t : x = t[j])

LEMMA ConcatFacts ==
  ASSUME NEW S, NEW s \in Seq(S), NEW t \in Seq(S)
  PROVE  /\ \A i \in DOMAIN s : i \in DOMAIN (s \o t) /\ (s \o t)[i] = s[i]
         /\ \A i \in DOMAIN t : \E j \in DOMAIN (s \o t) : (s \o t)[j] = t[i]
         /\ \A i \in DOMAIN (s \o t) : Comes((s \o t)[i], s, t)
<1> DEFINE m == Len(s)
           n == Len(t)
           w == s \o t
<1>1. m \in Nat /\ n \in Nat /\ DOMAIN s = 1 .. m /\ DOMAIN t = 1 .. n
  OBVIOUS
<1>2. /\ DOMAIN w = 1 .. (m + n)
      /\ \A i \in 1 .. (m + n) : w[i] = IF i <= m THEN s[i] ELSE t[i - m]
  OBVIOUS
<1> HIDE DEF m, n, w
<1>3. \A i \in DOMAIN s : i \in DOMAIN w /\ w[i] = s[i]
  BY <1>1, <1>2
<1>4. ASSUME NEW i \in DOMAIN t PROVE \E j \in DOMAIN w : w[j] = t[i]
  <2>1. m + i \in DOMAIN w /\ ~(m + i <= m) /\ (m + i) - m = i
    BY <1>1, <1>2
  <2> QED BY <1>2, <2>1
<1>5. ASSUME NEW i \in DOMAIN w PROVE Comes(w[i], s, t)
  <2>1. i <= m => i \in DOMAIN s /\ w[i] = s[i]
    BY <1>1, <1>2
  <2>2. ~(i <= m) => i - m \in DOMAIN t /\ w[i] = t[i - m]
    BY <1>1, <1>2
  <2> QED BY <2>1, <2>2 DEF Comes
<1> QED BY <1>3, <1>4, <1>5 DEF w

LEMMA ShownKept ==
  ASSUME Shown, db'.revs = db.revs, bus' = bus, made' = made, out' = out, phase' = phase, failed' = failed
  PROVE  Shown'
BY DEF Shown, Gathering

LEMMA InitShown ==
  ASSUME Init
  PROVE  Shown
<1>1. /\ db.revs = [b \in Beliefs |-> IF b \in Created THEN <<First>> ELSE <<>>]
      /\ made = <<>> /\ out = <<>> /\ phase = "sense"
      /\ bus = [b \in Beliefs |-> IF b = "component" THEN [NoMessage EXCEPT !.rev = 0] ELSE NoMessage]
  BY DEF Init, EmptyTables
<1>2. "component" \in Beliefs \ Ecological /\ "component" \in Created
  BY DEF Beliefs, Technical, Ecological, Created
<1>3. DOMAIN <<First>> = {1} /\ <<First>>[1] = First /\ First.kind = "CREATE" /\ First.used = {}
  BY DEF First
<1>4. ASSUME NEW b \in Beliefs PROVE Shows(db.revs, b) = IF b = "component" THEN {1} ELSE {}
  <2>1. CASE b = "component"
    BY <1>1, <1>2, <1>3, <2>1 DEF Shows
  <2>2. CASE b \in Created \ {"component"}
    <3>1. b \in Ecological /\ db.revs[b] = <<First>>
      BY <1>1, <2>2 DEF Created, Ecological
    <3> QED BY <1>3, <2>2, <3>1 DEF Shows
  <2>3. CASE b \notin Created
    <3>1. db.revs[b] = <<>> /\ b # "component"
      BY <1>1, <2>3 DEF Created
    <3> QED BY <3>1 DEF Shows
  <2> QED BY <2>1, <2>2, <2>3
<1>5. bus["component"].rev = 0 /\ bus["component"].used = {} /\ \A b \in Beliefs \ {"component"} : bus[b] = NoMessage
  BY <1>1, <1>2 DEF NoMessage
<1>6. \A b \in Beliefs : bus[b] # NoMessage => Says(db.revs, bus[b], b)
  <2>1. db.revs["component"][1].used = {}
    BY <1>1, <1>2, <1>3
  <2>2. bus["component"].rev + 1 = 1
    BY <1>5
  <2>3. Says(db.revs, bus["component"], "component")
    BY <1>2, <1>4, <1>5, <2>1, <2>2 DEF Says
  <2> QED BY <1>5, <2>3
<1>7. ASSUME NEW b \in Beliefs, NEW i \in Shows(db.revs, b) PROVE i - 1 <= bus[b].rev
  BY <1>4, <1>5, <1>7
<1> QED BY <1>1, <1>6, <1>7 DEF Shown

LEMMA SenseShown ==
  ASSUME Typed, Shown, Sense
  PROVE  Shown'
<1>1. /\ phase = "sense" /\ phase' = "spatial" /\ db' = db /\ bus' = bus /\ made' = made /\ out' = out
      /\ failed' = failed
  BY DEF Sense, store, work
<1>2. made = <<>> /\ DOMAIN made = {} /\ ~Gathering
  BY <1>1, MadeEmpty DEF Gathering, Domains
<1>3. out = <<>>
  BY <1>1 DEF Shown
<1> QED BY <1>1, <1>2, <1>3 DEF Shown

LEMMA LeaveShown ==
  ASSUME Typed, Shown, NEW domain \in Domains, Leave(domain)
  PROVE  Shown'
<1>1. /\ phase = domain /\ phase' = NextPhase[domain] /\ out' = out \o made /\ made' = <<>>
      /\ db' = db /\ bus' = bus /\ failed' = failed
  BY DEF Leave, store
<1>2. phase \in Domains /\ phase' \in {"technical", "ecological", "publish"}
  BY <1>1 DEF Domains, NextPhase
<1>3. Gathering /\ Gathering' /\ phase' \notin {"sense", "end"}
  BY <1>2 DEF Gathering, Domains
<1>4. out \in Seq(Messages) /\ made \in Seq(Messages)
  BY DEF Typed, TypeOK
<1>5. ASSUME NEW i \in DOMAIN out' PROVE (\E j \in DOMAIN out : out'[i] = out[j]) \/ (\E j \in DOMAIN made : out'[i] = made[j])
  <2> DEFINE w == out \o made
  <2>1. /\ \A k \in DOMAIN out : k \in DOMAIN w /\ w[k] = out[k]
        /\ \A k \in DOMAIN made : \E j \in DOMAIN w : w[j] = made[k]
        /\ \A k \in DOMAIN w : Comes(w[k], out, made)
    BY <1>4, ConcatFacts
  <2>2. out' = w
    BY <1>1
  <2> HIDE DEF w
  <2> QED BY <2>1, <2>2, <1>5 DEF Comes
<1>6. /\ \A i \in DOMAIN out : i \in DOMAIN out' /\ out'[i] = out[i]
      /\ \A i \in DOMAIN made : \E j \in DOMAIN out' : out'[j] = made[i]
  BY <1>1, <1>4, ConcatFacts
<1>7. \A i \in DOMAIN out' : Says(db'.revs, out'[i], out'[i].belief)
  BY <1>1, <1>3, <1>5 DEF Shown
<1>8. \A b, n : Carries(out, b, n) \/ Carries(made, b, n) => Carries(out', b, n)
  BY <1>6 DEF Carries
<1>9. ASSUME NEW b \in Beliefs, DomainOf(b) \notin failed', NEW i \in Shows(db'.revs, b)
      PROVE  i - 1 <= bus'[b].rev \/ (Gathering' /\ (Carries(out', b, i - 1) \/ Carries(made', b, i - 1)))
  <2>1. i - 1 <= bus[b].rev \/ Carries(out, b, i - 1) \/ Carries(made, b, i - 1)
    BY <1>1, <1>9 DEF Shown
  <2> QED BY <1>1, <1>3, <1>8, <2>1
<1>10. \A b \in Beliefs : bus'[b] # NoMessage => Says(db'.revs, bus'[b], b)
  BY <1>1 DEF Shown
<1>11. DOMAIN made' = {}
  BY <1>1
<1> QED BY <1>3, <1>7, <1>9, <1>10, <1>11 DEF Shown

LEMMA RaiseShown ==
  ASSUME Typed, Stored, Shown, Raise
  PROVE  Shown'
<1>1. /\ tx.at > 0 /\ made' = <<>> /\ failed' = failed \cup {DomainOf(tx.update.belief)}
      /\ db' = db /\ bus' = bus /\ out' = out /\ phase' = phase
  BY DEF Raise
<1>2. tx # NoTx /\ todo # <<>> /\ todo \in Seq(Planned)
  BY <1>1, TxFacts DEF Typed, TypeOK, Working
<1>3. tx.update.belief = todo[1].belief /\ 1 \in DOMAIN todo
  BY <1>2 DEF Stored, Writing
<1>4. phase \in Domains => DomainOf(tx.update.belief) = phase
  BY <1>3 DEF Stored, Pending
<1>5. DOMAIN made' = {}
  BY <1>1
<1>6. ASSUME NEW b \in Beliefs, DomainOf(b) \notin failed', NEW i \in Shows(db.revs, b)
      PROVE  i - 1 <= bus[b].rev \/ (Gathering /\ Carries(out, b, i - 1))
  <2>1. i - 1 <= bus[b].rev \/ (Gathering /\ (Carries(out, b, i - 1) \/ Carries(made, b, i - 1)))
    BY <1>1, <1>6 DEF Shown
  <2>2. ~Carries(made, b, i - 1)
    <3>1. CASE phase \in Domains
      <4>1. \A j \in DOMAIN made : DomainOf(made[j].belief) = phase
        BY DEF Shown
      <4>2. DomainOf(b) # phase
        BY <1>1, <1>4, <1>6, <3>1
      <4> QED BY <4>1, <4>2 DEF Carries
    <3>2. CASE phase \notin Domains
      BY <3>2, MadeEmpty DEF Carries
    <3> QED BY <3>1, <3>2
  <2> QED BY <2>1, <2>2
<1>7. Gathering' = Gathering
  BY <1>1 DEF Gathering
<1> QED BY <1>1, <1>5, <1>6, <1>7 DEF Shown

LEMMA CommitShown ==
  ASSUME Typed, Stored, Shown, Commit
  PROVE  Shown'
<1> DEFINE u == tx.update
           b == u.belief
           m == [belief |-> b, rev |-> u.rev, used |-> u.used, count |-> MessageCount(u)]
<1>1. TypeOK
  BY DEF Typed
<1>2. /\ made' = (IF u.kind = "CONTEXT" THEN made ELSE Append(made, m))
      /\ phase' = phase /\ failed' = failed /\ out' = out /\ bus' = bus
  BY <1>1, CommitStep
<1>3. /\ b \in Beliefs /\ todo # <<>> /\ u.rev \in Nat /\ b = todo[1].belief /\ u.kind = todo[1].kind
      /\ u.kind \in Kinds \ {"CREATE"} /\ u.rev = Len(db.revs[b])
      /\ \A i \in DOMAIN db.revs[b] : i \in DOMAIN db'.revs[b] /\ db'.revs[b][i] = db.revs[b][i]
      /\ DOMAIN db'.revs[b] = DOMAIN db.revs[b] \cup {u.rev + 1}
      /\ db'.revs[b][u.rev + 1].kind = u.kind /\ db'.revs[b][u.rev + 1].used = u.used
      /\ \A c \in Beliefs \ {b} : db'.revs[c] = db.revs[c]
  <2> HIDE DEF m
  <2> QED BY CommitLogs
<1>4. m.belief = b /\ m.rev = u.rev /\ m.used = u.used
  OBVIOUS
<1>5. 1 \in DOMAIN todo
  <2>1. todo \in Seq(Planned) /\ todo # <<>>
    BY <1>1, <1>3 DEF TypeOK
  <2> QED BY <2>1
<1>6. IF phase \in Domains THEN DomainOf(b) = phase /\ u.kind # "CONTEXT" ELSE u.kind = "CONTEXT"
  BY <1>3, <1>5 DEF Stored, Pending
<1>7. phase \in Domains \cup {"dispatch", "end"} /\ phase' = phase /\ Gathering' = Gathering
  BY <1>2, <1>3 DEF Stored, Pending, Gathering
<1> HIDE DEF u, m
<1>8. \A c \in Beliefs : \A n : Says(db.revs, n, c) => Says(db'.revs, n, c)
  <2> TAKE c \in Beliefs
  <2>1. \A i \in DOMAIN db.revs[c] : i \in DOMAIN db'.revs[c] /\ db'.revs[c][i] = db.revs[c][i]
    BY <1>3
  <2>2. \A i \in Shows(db.revs, c) : i \in Shows(db'.revs, c) /\ db'.revs[c][i] = db.revs[c][i]
    BY <2>1 DEF Shows
  <2> QED BY <2>2 DEF Says
<1>9. u.kind # "CONTEXT" => Says(db'.revs, m, b)
  BY <1>3, <1>4 DEF Says, Shows
<1>10. ASSUME NEW c \in Beliefs, NEW i \in Shows(db'.revs, c)
       PROVE  i \in Shows(db.revs, c) \/ (c = b /\ i = u.rev + 1 /\ u.kind # "CONTEXT")
  BY <1>3, <1>10 DEF Shows
<1>11. /\ made \in Seq(Messages) /\ out \in Seq(Messages)
       /\ \A i \in DOMAIN made : made[i] \in Messages /\ made[i].belief \in Beliefs
       /\ \A i \in DOMAIN out : out[i] \in Messages /\ out[i].belief \in Beliefs
  <2>1. made \in Seq(Messages) /\ out \in Seq(Messages)
    BY <1>1 DEF TypeOK
  <2>2. /\ \A i \in DOMAIN made : made[i] \in Messages
        /\ \A i \in DOMAIN out : out[i] \in Messages
    BY <2>1
  <2> QED BY <2>1, <2>2 DEF Messages
<1>12. CASE u.kind = "CONTEXT"
  <2>1. made' = made
    BY <1>2, <1>12
  <2>2. \A c \in Beliefs : Shows(db'.revs, c) \subseteq Shows(db.revs, c)
    BY <1>10, <1>12
  <2>3. \A c \in Beliefs : bus'[c] # NoMessage => Says(db'.revs, bus'[c], c)
    BY <1>2, <1>8 DEF Shown
  <2>4. /\ \A i \in DOMAIN made' : Says(db'.revs, made'[i], made'[i].belief) /\ DomainOf(made'[i].belief) = phase'
        /\ Gathering' => \A i \in DOMAIN out' : Says(db'.revs, out'[i], out'[i].belief)
    BY <1>2, <1>7, <1>8, <1>11, <2>1 DEF Shown
  <2>5. phase' \in {"sense", "end"} => out' = <<>>
    BY <1>2 DEF Shown
  <2>6. ASSUME NEW c \in Beliefs, DomainOf(c) \notin failed', NEW i \in Shows(db'.revs, c)
        PROVE  i - 1 <= bus'[c].rev \/ (Gathering' /\ (Carries(out', c, i - 1) \/ Carries(made', c, i - 1)))
    <3>1. i - 1 <= bus[c].rev \/ (Gathering /\ (Carries(out, c, i - 1) \/ Carries(made, c, i - 1)))
      BY <1>2, <2>2, <2>6 DEF Shown
    <3> QED BY <1>2, <1>7, <2>1, <3>1
  <2> QED BY <2>3, <2>4, <2>5, <2>6 DEF Shown
<1>13. CASE u.kind # "CONTEXT"
  <2>1. made' = Append(made, m) /\ m \in Messages
    <3>1. made' \in Seq(Messages) /\ made' = Append(made, m)
      BY <1>2, <1>13, CommitTyped DEF Typed, TypeOK
    <3>2. made'[Len(made) + 1] = m /\ Len(made) + 1 \in DOMAIN made'
      BY <1>11, <3>1
    <3> QED BY <3>1, <3>2
  <2>2. /\ DOMAIN made' = DOMAIN made \cup {Len(made) + 1}
        /\ \A i \in DOMAIN made : i \in DOMAIN made' /\ made'[i] = made[i]
        /\ made'[Len(made) + 1] = m
    <3> DEFINE w == Append(made, m)
    <3>1. /\ DOMAIN w = DOMAIN made \cup {Len(made) + 1}
          /\ \A i \in DOMAIN made : i \in DOMAIN w /\ w[i] = made[i]
          /\ w[Len(made) + 1] = m
      BY <1>11, <2>1, AppendFacts
    <3> HIDE DEF w
    <3>2. made' = w
      BY <2>1 DEF w
    <3> QED BY <3>1, <3>2
  <2>3. phase \in Domains /\ DomainOf(b) = phase /\ Gathering'
    BY <1>6, <1>7, <1>13 DEF Gathering
  <2>4. \A c \in Beliefs : bus'[c] # NoMessage => Says(db'.revs, bus'[c], c)
    BY <1>2, <1>8 DEF Shown
  <2>5. ASSUME NEW i \in DOMAIN made'
        PROVE  Says(db'.revs, made'[i], made'[i].belief) /\ DomainOf(made'[i].belief) = phase'
    <3>1. CASE i \in DOMAIN made
      BY <1>2, <1>8, <1>11, <2>2, <3>1 DEF Shown
    <3>2. CASE i = Len(made) + 1
      BY <1>2, <1>4, <1>9, <1>13, <2>2, <2>3, <3>2
    <3> QED BY <2>2, <3>1, <3>2
  <2>6. Gathering' => \A i \in DOMAIN out' : Says(db'.revs, out'[i], out'[i].belief)
    BY <1>2, <1>7, <1>8, <1>11 DEF Shown
  <2>7. phase' \in {"sense", "end"} => out' = <<>>
    BY <1>2 DEF Shown
  <2>8. /\ Carries(made', b, u.rev)
        /\ \A c, n : Carries(made, c, n) => Carries(made', c, n)
    BY <1>4, <2>2 DEF Carries
  <2>9. ASSUME NEW c \in Beliefs, DomainOf(c) \notin failed', NEW i \in Shows(db'.revs, c)
        PROVE  i - 1 <= bus'[c].rev \/ (Gathering' /\ (Carries(out', c, i - 1) \/ Carries(made', c, i - 1)))
    <3>1. CASE i \in Shows(db.revs, c)
      <4>1. i - 1 <= bus[c].rev \/ (Gathering /\ (Carries(out, c, i - 1) \/ Carries(made, c, i - 1)))
        BY <1>2, <2>9, <3>1 DEF Shown
      <4> QED BY <1>2, <1>7, <2>8, <4>1
    <3>2. CASE c = b /\ i = u.rev + 1
      <4> DEFINE k == u.rev
      <4>0. k \in Nat
        BY <1>3
      <4>1. i - 1 = k
        <5> HIDE DEF k
        <5>1. (k + 1) - 1 = k
          BY <4>0
        <5> QED BY <3>2, <5>1 DEF k
      <4>2. \A n : n = u.rev => Carries(made', c, n)
        BY <2>8, <3>2
      <4>3. Carries(made', c, i - 1)
        BY <4>1, <4>2, Zenon
      <4> QED BY <2>3, <4>3
    <3> QED BY <1>10, <3>1, <3>2
  <2> QED BY <2>4, <2>5, <2>6, <2>7, <2>9 DEF Shown
<1> QED BY <1>12, <1>13

LEMMA PublishShown ==
  ASSUME Typed, Shown, Publish
  PROVE  Shown'
<1> DEFINE n == Len(out)
<1>1. /\ phase = "publish" /\ phase' = "dispatch" /\ db' = db /\ made' = made /\ failed' = failed
      /\ bus' = PublishMany(out).heads
  BY DEF Publish, store, work
<1>2. TypeOK /\ out \in Seq(Messages) /\ n \in Nat /\ DOMAIN out = 1 .. n
  <2>1. TypeOK /\ out \in Seq(Messages)
    BY DEF Typed, TypeOK
  <2> QED BY <2>1
<1>3. DOMAIN made = {} /\ Gathering /\ ~Gathering'
  BY <1>1, MadeEmpty DEF Gathering, Domains
<1>4. Delivered(bus', out, n)
  BY <1>1, <1>2, PublishFacts
<1> HIDE DEF n
<1>5. /\ bus' \in [Beliefs -> Heads]
      /\ \A b \in Beliefs : /\ bus[b].rev <= bus'[b].rev
                            /\ \/ bus'[b] = bus[b]
                               \/ \E j \in DOMAIN out : out[j].belief = b /\ bus'[b] = HeadOf(out[j])
      /\ \A j \in DOMAIN out : out[j].rev <= bus'[out[j].belief].rev
  BY <1>2, <1>4 DEF Delivered
<1>6. ASSUME NEW b \in Beliefs, bus'[b] # NoMessage PROVE Says(db.revs, bus'[b], b)
  <2>1. CASE bus'[b] = bus[b]
    BY <1>6, <2>1 DEF Shown
  <2>2. ASSUME NEW j \in DOMAIN out, out[j].belief = b, bus'[b] = HeadOf(out[j])
        PROVE  Says(db.revs, bus'[b], b)
    <3>1. Says(db.revs, out[j], b)
      BY <1>3, <2>2 DEF Shown
    <3>2. bus'[b].rev = out[j].rev /\ bus'[b].used = out[j].used
      BY <2>2 DEF HeadOf
    <3> QED BY <3>1, <3>2 DEF Says
  <2> QED BY <1>5, <2>1, <2>2
<1>7. ASSUME NEW b \in Beliefs, DomainOf(b) \notin failed, NEW i \in Shows(db.revs, b)
      PROVE  i - 1 <= bus'[b].rev
  <2>1. bus[b].rev \in Int /\ bus'[b].rev \in Int /\ bus[b].rev <= bus'[b].rev
    BY <1>2, <1>5 DEF TypeOK, Heads
  <2>2. i \in Nat
    <3>1. db.revs[b] \in Seq(Revisions) /\ i \in DOMAIN db.revs[b]
      BY <1>2 DEF TypeOK, Tables, Shows
    <3> QED BY <3>1
  <2>3. ~Carries(made, b, i - 1)
    BY <1>3 DEF Carries
  <2>4. i - 1 <= bus[b].rev \/ Carries(out, b, i - 1)
    BY <1>7, <2>3 DEF Shown
  <2>5. Carries(out, b, i - 1) => i - 1 <= bus'[b].rev
    BY <1>5 DEF Carries
  <2>6. i - 1 <= bus[b].rev => i - 1 <= bus'[b].rev
    BY <2>1, <2>2
  <2> QED BY <2>4, <2>5, <2>6
<1> QED BY <1>1, <1>3, <1>6, <1>7 DEF Shown

LEMMA DispatchShown ==
  ASSUME Typed, Shown, Dispatch
  PROVE  Shown'
<1>1. /\ phase = "dispatch" /\ phase' = "dispatch" /\ db' = db /\ made' = made /\ failed' = failed /\ bus' = bus
  BY DEF Dispatch, store
<1>2. DOMAIN made = {} /\ ~Gathering /\ ~Gathering'
  BY <1>1, MadeEmpty DEF Gathering, Domains
<1> QED BY <1>1, <1>2 DEF Shown

LEMMA DecideShown ==
  ASSUME Typed, Shown, Decide
  PROVE  Shown'
<1>1. /\ phase = "dispatch" /\ phase' = "end" /\ db' = db /\ made' = made /\ failed' = failed /\ bus' = bus
      /\ out' = <<>>
  BY DEF Decide, store
<1>2. DOMAIN made = {} /\ ~Gathering /\ ~Gathering'
  BY <1>1, MadeEmpty DEF Gathering, Domains
<1> QED BY <1>1, <1>2 DEF Shown

LEMMA EndTickShown ==
  ASSUME Typed, Shown, EndTick
  PROVE  Shown'
<1>1. /\ phase = "end" /\ phase' = "sense" /\ db' = db /\ made' = made /\ failed' = failed /\ bus' = bus
      /\ out' = out
  BY DEF EndTick, store, work
<1>2. DOMAIN made = {} /\ ~Gathering /\ ~Gathering'
  BY <1>1, MadeEmpty DEF Gathering, Domains
<1> QED BY <1>1, <1>2 DEF Shown

LEMMA ShownInductive ==
  ASSUME Typed, Stored, Shown, [Next]_vars
  PROVE  Shown'
<1>1. ASSUME NEW domain \in Domains, Ingest(domain) PROVE Shown'
  <2>1. db'.revs = db.revs
    BY <1>1 DEF Ingest, PutEvidence, Typed, TypeOK, Tables
  <2> QED BY <1>1, <2>1, ShownKept DEF Ingest, bounds
<1>2. CASE Begin
  BY <1>2, ShownKept DEF Begin
<1>3. CASE Execute
  BY <1>3, ShownKept DEF Execute, work
<1>4. CASE UNCHANGED vars
  BY <1>4, ShownKept DEF vars, store, work
<1> QED BY <1>1, <1>2, <1>3, <1>4, SenseShown, LeaveShown, CommitShown, RaiseShown, PublishShown, DispatchShown,
       DecideShown, EndTickShown DEF Next

LEMMA ShownIsPublished ==
  ASSUME Typed, Shown
  PROVE  PublishedFromStore
<1> SUFFICES ASSUME NEW b \in Beliefs
             PROVE  /\ bus[b] # NoMessage => /\ bus[b].rev + 1 \in Publishable(b)
                                             /\ bus[b].used = db.revs[b][bus[b].rev + 1].used
                    /\ phase \in {"sense", "end"} /\ DomainOf(b) \notin failed
                         => bus[b].rev + 1 = Max({0} \cup Publishable(b))
  BY DEF PublishedFromStore
<1> DEFINE P == Publishable(b)
           k == bus[b].rev + 1
<1>1. P = Shows(db.revs, b)
  BY ShowsIsPublishable
<1>2. bus[b].rev \in Nat \cup {-1} /\ P \subseteq Nat
  <2>1. TypeOK
    BY DEF Typed
  <2>2. db.revs[b] \in Seq(Revisions) /\ bus[b].rev \in Nat \cup {-1}
    BY <2>1 DEF TypeOK, Tables, Heads
  <2>3. DOMAIN db.revs[b] \subseteq Nat
    BY <2>2
  <2> QED BY <2>2, <2>3 DEF Publishable
<1>3. bus[b] # NoMessage => k \in P /\ bus[b].used = db.revs[b][k].used
  BY <1>1 DEF Shown, Says
<1>4. ASSUME phase \in {"sense", "end"}, DomainOf(b) \notin failed PROVE k = Max({0} \cup P)
  <2>1. ~Gathering
    BY <1>4 DEF Gathering, Domains
  <2>2. \A i \in P : i - 1 <= bus[b].rev
    BY <1>1, <1>4, <2>1 DEF Shown
  <2>3. bus[b] = NoMessage => k = 0
    BY DEF NoMessage
  <2>4. k \in {0} \cup P
    BY <1>3, <2>3
  <2> HIDE DEF P
  <2>5. \A i \in {0} \cup P : i <= k
    <3>1. \A i \in P : i <= k
      BY <1>2, <2>2
    <3>2. 0 <= k
      BY <1>2
    <3> QED BY <3>1, <3>2
  <2> HIDE DEF k
  <2>6. {0} \cup P \subseteq Int
    BY <1>2
  <2> QED BY <2>4, <2>5, <2>6, MaxIsGreatest
<1> QED BY <1>3, <1>4

LEMMA BusInductive == Spec => [](Typed /\ Stored /\ Shown)
<1>1. Init => Shown
  BY InitShown
<1>2. Typed /\ Stored /\ Shown /\ [Next]_vars => Shown'
  BY ShownInductive
<1> QED BY <1>1, <1>2, PlaneInductive, PTL DEF Spec

\* CC-04: what the bus has of a belief is a committed revision, with the evidence it was committed with; and
\* between two ticks the bus has the newest publishable revision of every domain that is in service, whatever
\* faults and refusals came before.
THEOREM PublishedIsStored == Spec => []PublishedFromStore
<1>1. Typed /\ Shown => PublishedFromStore
  BY ShownIsPublished
<1> QED BY <1>1, BusInductive, PTL

-----------------------------------------------------------------------------
(***************************************************************************)
(* The needs.  A message counts what its belief rests on, the newest one   *)
(* all of it; so a message that counts more than the one a need was raised *)
(* on rests on an observation that is independent of all there was.        *)
(***************************************************************************)
\* What the bus has of a belief, and what it will get of it.
On(b) ==
  {bus[b]} \cup {HeadOf(out[i]) : i \in {j \in DOMAIN out : Gathering /\ out[j].belief = b}}
           \cup {HeadOf(made[i]) : i \in {j \in DOMAIN made : made[j].belief = b}}

\* How many independent observations a message of a belief has to count. (A surface's message counts its
\* component's, and a spatial one none.)
Level(uses, counts, b) ==
  CASE b = "component" -> Cardinality(Support(uses, b)) [] b \in Ecological -> counts[b] [] OTHER -> 0

Newest(revs, h, b) == \A i \in Shows(revs, b) : i <= h.rev + 1

Revising == phase = "technical" /\ todo # <<>>

\* The technical child revises the component last, consumes its observations in the first revision and no
\* surface without any; nothing that it or the ecological child consumes is of a shared capture.
Planning ==
  /\ Revising => /\ todo[Len(todo)].belief = "component"
                 /\ \A i \in DOMAIN todo : /\ i > 1 => todo[i].used = {}
                                           /\ todo[i].belief = "surface" => todo[i].used # {}
  /\ phase # "spatial" => \A i \in DOMAIN todo : \A e \in todo[i].used : e.obs \notin DOMAIN Captures

\* The technical child's groups are those of its beliefs' evidence and of the evidence it is about to commit.
Grouped == "technical" \notin failed =>
  child.groups = Support(db.uses, "component") \cup (IF Revising THEN GroupsOf(todo[1].used) ELSE {})

\* The newest message of a belief whose child is in service counts all the belief rests on.
Counting ==
  \A b \in Beliefs \ {"surface"} : DomainOf(b) \notin failed =>
    \A h \in On(b) : Newest(db.revs, h, b) /\ ~(b = "component" /\ Revising) => Level(db.uses, child.count, b) <= h.count

\* The belief a need is about rests on more than it did, or no message answers the need.
Grown(n) == Support(db.uses, n.belief) \ Support(n.before, n.belief) # {}
Unanswered(n) ==
  /\ ~n.closed
  /\ \A h \in On(n.belief) : h.rev <= n.rev \/ h.count <= n.count
  /\ n.belief # "surface" /\ DomainOf(n.belief) \notin failed => Level(db.uses, child.count, n.belief) <= n.count
Asked == need # NoNeed =>
  (\A b \in Beliefs : need.before[b] \subseteq db.uses[b]) /\ (Grown(need) \/ Unanswered(need))

Counted == Planning /\ Grouped /\ Counting /\ Asked

LEMMA ChildOf ==
  /\ DomainOf("component") = "technical" /\ DomainOf("surface") = "technical"
  /\ \A b \in Beliefs : /\ DomainOf(b) = "technical" <=> b \in Technical
                        /\ DomainOf(b) = "ecological" <=> b \in Ecological
                        /\ DomainOf(b) = "spatial" <=> b \in Spatial
  /\ Technical = {"component", "surface"} /\ Technical \subseteq Beliefs /\ Ecological \subseteq Beliefs
  /\ Technical \cap Ecological = {}
BY DEF DomainOf, Beliefs, Technical, Spatial, Ecological

LEMMA NeedType ==
  ASSUME Typed, need # NoNeed
  PROVE  /\ need.belief \in Beliefs /\ need.rev \in Int /\ need.count \in Nat
         /\ need.before \in [Beliefs -> SUBSET Evidence]
<1>1. need \in Needs
  BY DEF Typed, TypeOK
<1> QED BY <1>1, PlaneAssumption DEF Needs

LEMMA OnKnown ==
  ASSUME Typed, Shown, NEW b \in Beliefs, NEW h \in On(b)
  PROVE  h.rev \in Int /\ h.rev + 1 <= Len(db.revs[b])
<1>1. /\ bus \in [Beliefs -> Heads] /\ db.revs[b] \in Seq(Revisions)
      /\ \A i \in DOMAIN out : out[i] \in Messages
      /\ \A i \in DOMAIN made : made[i] \in Messages
  <2>1. TypeOK
    BY DEF Typed
  <2>2. out \in Seq(Messages) /\ made \in Seq(Messages) /\ bus \in [Beliefs -> Heads] /\ db.revs[b] \in Seq(Revisions)
    BY <2>1 DEF TypeOK, Tables
  <2> QED BY <2>2
<1>2. Len(db.revs[b]) \in Nat /\ DOMAIN db.revs[b] = 1 .. Len(db.revs[b])
  BY <1>1
<1>3. ASSUME NEW m, Says(db.revs, m, b), m.rev \in Int PROVE m.rev + 1 <= Len(db.revs[b])
  BY <1>2, <1>3 DEF Says, Shows
<1>4. CASE h = bus[b]
  <2>1. h.rev \in Int
    BY <1>1, <1>4 DEF Heads
  <2>2. CASE h = NoMessage
    <3>1. h.rev = -1
      BY <2>2 DEF NoMessage
    <3> QED BY <1>2, <2>1, <3>1
  <2>3. CASE h # NoMessage
    BY <1>3, <1>4, <2>1, <2>3 DEF Shown
  <2> QED BY <2>2, <2>3
<1>5. ASSUME NEW i \in DOMAIN out, Gathering, out[i].belief = b, h = HeadOf(out[i])
      PROVE  h.rev \in Int /\ h.rev + 1 <= Len(db.revs[b])
  <2>1. h.rev = out[i].rev /\ out[i].rev \in Int
    BY <1>1, <1>5 DEF HeadOf, Messages
  <2>2. Says(db.revs, out[i], b)
    BY <1>5 DEF Shown
  <2> QED BY <1>3, <2>1, <2>2
<1>6. ASSUME NEW i \in DOMAIN made, made[i].belief = b, h = HeadOf(made[i])
      PROVE  h.rev \in Int /\ h.rev + 1 <= Len(db.revs[b])
  <2>1. h.rev = made[i].rev /\ made[i].rev \in Int
    BY <1>1, <1>6 DEF HeadOf, Messages
  <2>2. Says(db.revs, made[i], b)
    BY <1>6 DEF Shown
  <2> QED BY <1>3, <2>1, <2>2
<1> QED BY <1>4, <1>5, <1>6 DEF On

LEMMA LevelIs ==
  ASSUME NEW uses, NEW counts
  PROVE  /\ Level(uses, counts, "component") = Cardinality(Support(uses, "component"))
         /\ \A b \in Ecological : Level(uses, counts, b) = counts[b]
         /\ \A b \in Spatial : Level(uses, counts, b) = 0
BY DEF Level, Ecological, Spatial

-----------------------------------------------------------------------------
\* A step that commits nothing makes no message.
LEMMA OnShrinks ==
  ASSUME Typed, Stored, Shown, [Next]_vars, ~Commit, NEW b \in Beliefs
  PROVE  On(b)' \subseteq On(b)
<1>1. CASE bus' = bus /\ made' = made /\ out' = out /\ phase' = phase
  BY <1>1 DEF On, Gathering
<1>2. CASE bus' = bus /\ DOMAIN made' = {} /\ out' = out /\ phase' = phase
  BY <1>2 DEF On, Gathering
<1>3. CASE bus' = bus /\ DOMAIN made' = {} /\ ~Gathering'
  BY <1>3 DEF On
<1>4. CASE Sense
  <2>1. phase = "sense" /\ bus' = bus /\ made' = made /\ out' = out
    BY <1>4 DEF Sense, work
  <2>2. DOMAIN out' = {}
    BY <2>1 DEF Shown
  <2> QED BY <2>1, <2>2 DEF On
<1>5. ASSUME NEW domain \in Domains, Leave(domain) PROVE On(b)' \subseteq On(b)
  <2> DEFINE w == out \o made
  <2>1. phase \in Domains /\ out' = w /\ made' = <<>> /\ bus' = bus
    BY <1>5 DEF Leave
  <2>2. \A k \in DOMAIN w : Comes(w[k], out, made)
    <3>1. out \in Seq(Messages) /\ made \in Seq(Messages)
      BY DEF Typed, TypeOK
    <3> QED BY <3>1, ConcatFacts
  <2> HIDE DEF w
  <2>3. Gathering /\ DOMAIN made' = {}
    BY <2>1 DEF Gathering
  <2>4. ASSUME NEW h \in On(b)' PROVE h \in On(b)
    <3>1. CASE h = bus[b]
      BY <3>1 DEF On
    <3>2. ASSUME NEW i \in DOMAIN w, w[i].belief = b, h = HeadOf(w[i])
          PROVE  h \in On(b)
      BY <2>2, <2>3, <3>2 DEF On, Comes
    <3> QED BY <2>1, <2>3, <3>1, <3>2, <2>4 DEF On
  <2> QED BY <2>4
<1>6. CASE Publish
  <2>1. phase = "publish" /\ phase' = "dispatch" /\ made' = made /\ bus' = PublishMany(out).heads
    BY <1>6 DEF Publish, work
  <2>2. Gathering /\ ~Gathering' /\ DOMAIN made' = {}
    BY <2>1, MadeEmpty DEF Gathering, Domains
  <2>3. TypeOK /\ out \in Seq(Messages)
    BY DEF Typed, TypeOK
  <2>4. Delivered(bus', out, Len(out)) /\ DOMAIN out = 1 .. Len(out)
    BY <2>1, <2>3, PublishFacts
  <2>5. bus'[b] = bus[b] \/ \E j \in DOMAIN out : out[j].belief = b /\ bus'[b] = HeadOf(out[j])
    BY <2>4 DEF Delivered
  <2>6. bus'[b] \in On(b)
    BY <2>2, <2>5 DEF On
  <2> QED BY <2>2, <2>6 DEF On
<1>7. ASSUME NEW domain \in Domains, Ingest(domain) PROVE On(b)' \subseteq On(b)
  BY <1>1, <1>7 DEF Ingest
<1>8. CASE Begin
  BY <1>1, <1>8 DEF Begin
<1>9. CASE Execute
  BY <1>1, <1>9 DEF Execute, work
<1>10. CASE Raise
  BY <1>2, <1>10 DEF Raise
<1>11. CASE Dispatch \/ Decide \/ EndTick
  <2>1. bus' = bus /\ made' = made /\ phase \notin Domains /\ phase' \notin Domains \cup {"publish"}
    BY <1>11 DEF Dispatch, Decide, EndTick, work, Domains
  <2>2. DOMAIN made' = {} /\ ~Gathering'
    BY <2>1, MadeEmpty DEF Gathering
  <2> QED BY <1>3, <2>1, <2>2
<1>12. CASE UNCHANGED vars
  BY <1>1, <1>12 DEF vars, work
<1> QED BY <1>4, <1>5, <1>6, <1>7, <1>8, <1>9, <1>10, <1>11, <1>12 DEF Next

\* A commit makes one, unless it is of a context.
LEMMA OnCommit ==
  ASSUME Typed, Stored, Shown, Commit, NEW b \in Beliefs
  PROVE  LET u == tx.update
             head == [rev |-> u.rev, used |-> u.used, count |-> MessageCount(u)]
         IN On(b)' \subseteq On(b) \cup (IF b = u.belief /\ u.kind # "CONTEXT" THEN {head} ELSE {})
<1> DEFINE u == tx.update
           head == [rev |-> u.rev, used |-> u.used, count |-> MessageCount(u)]
           m == [belief |-> u.belief, rev |-> u.rev, used |-> u.used, count |-> MessageCount(u)]
           w == Append(made, m)
<1>1. TypeOK
  BY DEF Typed
<1>2. /\ made' = (IF u.kind = "CONTEXT" THEN made ELSE w)
      /\ phase' = phase /\ out' = out /\ bus' = bus
  BY <1>1, CommitStep
<1>3. HeadOf(m) = head /\ m.belief = u.belief
  BY DEF HeadOf
<1> HIDE DEF head, m, w
<1>4. CASE u.kind = "CONTEXT"
  BY <1>2, <1>4 DEF On, Gathering
<1>5. CASE u.kind # "CONTEXT"
  <2>1. made \in Seq(Messages) /\ m \in Messages
    <3>1. made \in Seq(Messages) /\ made' \in Seq(Messages) /\ made' = w
      BY <1>1, <1>2, <1>5, CommitTyped DEF Typed, TypeOK
    <3>2. \A s \in Seq(Messages) : Len(Append(s, m)) = Len(s) + 1 /\ Append(s, m)[Len(s) + 1] = m
      OBVIOUS
    <3>3. w[Len(made) + 1] = m /\ Len(w) = Len(made) + 1 /\ Len(made) \in Nat
      BY <3>1, <3>2 DEF w
    <3>4. Len(made) + 1 \in DOMAIN w
      BY <3>1, <3>3
    <3> QED BY <3>1, <3>3, <3>4
  <2>2. /\ DOMAIN w = DOMAIN made \cup {Len(made) + 1}
        /\ \A i \in DOMAIN made : w[i] = made[i]
        /\ w[Len(made) + 1] = m
    BY <2>1, AppendFacts DEF w
  <2>3. ASSUME NEW h \in On(b)' PROVE h \in On(b) \/ (b = u.belief /\ h = head)
    <3>1. CASE h = bus[b]
      BY <3>1 DEF On
    <3>2. ASSUME NEW i \in DOMAIN out, Gathering, out[i].belief = b, h = HeadOf(out[i])
          PROVE  h \in On(b)
      BY <3>2 DEF On
    <3>3. ASSUME NEW i \in DOMAIN w, w[i].belief = b, h = HeadOf(w[i])
          PROVE  h \in On(b) \/ (b = u.belief /\ h = head)
      <4>1. CASE i \in DOMAIN made
        BY <2>2, <3>3, <4>1 DEF On
      <4>2. CASE i = Len(made) + 1
        BY <1>3, <2>2, <3>3, <4>2
      <4> QED BY <2>2, <4>1, <4>2
    <3>4. Gathering' = Gathering /\ made' = w
      BY <1>2, <1>5 DEF Gathering
    <3>5. \/ h = bus[b]
          \/ \E i \in DOMAIN out : Gathering /\ out[i].belief = b /\ h = HeadOf(out[i])
          \/ \E i \in DOMAIN w : w[i].belief = b /\ h = HeadOf(w[i])
      BY <1>2, <2>3, <3>4 DEF On
    <3> QED BY ONLY <3>1, <3>2, <3>3, <3>5
  <2>4. On(b)' \subseteq On(b) \cup (IF b = u.belief /\ u.kind # "CONTEXT" THEN {head} ELSE {})
    BY <1>5, <2>3
  <2> QED BY <2>4 DEF head
<1> QED BY <1>4, <1>5

-----------------------------------------------------------------------------
\* What a step leaves of the plans and the counts that neither ingests nor commits.
Calm ==
  /\ db'.uses = db.uses /\ db'.revs = db.revs /\ failed \subseteq failed'
  /\ child'.count = child.count /\ child'.groups = child.groups
  /\ Revising => (Revising' /\ todo' = todo) \/ "technical" \in failed'
  /\ Revising' => Revising /\ todo' = todo

LEMMA CalmSteps ==
  ASSUME Typed, Stored, Planning, [Next]_vars, ~Commit, \A domain \in Domains : ~Ingest(domain)
  PROVE  Calm /\ Planning'
<1>1. TypeOK /\ child \in Memories /\ Bounded(child.undrained)
  BY DEF Typed, TypeOK, RecordsBounded
<1>2. CASE UNCHANGED <<todo, phase>> /\ db' = db /\ failed' = failed /\ child'.count = child.count /\ child'.groups = child.groups
  BY <1>2 DEF Calm, Planning, Revising
<1>3. CASE todo = <<>> /\ todo' = <<>> /\ db' = db /\ failed' = failed /\ child' = child
  BY <1>3 DEF Calm, Planning, Revising
<1>4. CASE Sense
  <2>1. /\ phase = "sense" /\ todo' = todo /\ db' = db /\ failed' = failed /\ child' = child
    BY <1>4 DEF Sense, store, work
  <2>2. todo = <<>>
    BY <2>1, Idle DEF Domains
  <2> QED BY <1>3, <2>1, <2>2
<1>5. ASSUME NEW domain \in Domains, Leave(domain) PROVE Calm /\ Planning'
  BY <1>3, <1>5 DEF Leave, store
<1>6. CASE Begin
  <2>1. child'.count = child.count /\ child'.groups = child.groups
    BY <1>1, <1>6 DEF Begin, Memories
  <2> QED BY <1>2, <1>6, <2>1 DEF Begin
<1>7. CASE Execute
  BY <1>2, <1>7 DEF Execute, work
<1>8. CASE Raise
  <2>1. /\ tx.at > 0 /\ todo' = <<>> /\ failed' = failed \cup {DomainOf(tx.update.belief)}
        /\ db' = db /\ child' = child /\ phase' = phase
    BY <1>8 DEF Raise
  <2>2. ASSUME Revising PROVE "technical" \in failed'
    <3>1. tx # NoTx
      BY <1>1, <2>1, TxFacts DEF TypeOK
    <3>2. tx.update.belief = todo[1].belief
      BY <3>1 DEF Stored, Writing
    <3>3. todo \in Seq(Planned) /\ todo # <<>>
      BY <1>1, <2>2 DEF TypeOK, Revising
    <3>4. 1 \in DOMAIN todo
      BY <3>3
    <3>5. DomainOf(todo[1].belief) = "technical"
      BY <2>2, <3>4 DEF Stored, Pending, Revising, Domains
    <3> QED BY <2>1, <3>2, <3>5
  <2>3. DOMAIN todo' = {} /\ ~Revising'
    BY <2>1 DEF Revising
  <2> QED BY <2>1, <2>2, <2>3 DEF Calm, Planning
<1>9. CASE Publish \/ EndTick
  BY <1>3, <1>9 DEF Publish, EndTick, store, work
<1>10. CASE Dispatch \/ Decide
  <2>1. /\ phase = "dispatch" /\ phase' \in {"dispatch", "end"} /\ todo = <<>> /\ db' = db /\ failed' = failed
        /\ TakeContext \/ UNCHANGED <<child, todo>>
    BY <1>10 DEF Dispatch, Decide, store
  <2>2. CASE UNCHANGED <<child, todo>>
    BY <1>3, <2>1, <2>2
  <2>3. CASE TakeContext
    <3>1. /\ todo' = <<Revise("component", "CONTEXT", {}, now)>>
          /\ child'.count = child.count /\ child'.groups = child.groups
      BY <1>1, <2>3, ContextStep
    <3>2. DOMAIN todo' = {1} /\ todo'[1].used = {}
      BY <3>1 DEF Revise
    <3>3. ~Revising /\ ~Revising'
      BY <2>1 DEF Revising
    <3> QED BY <2>1, <3>1, <3>2, <3>3 DEF Calm, Planning
  <2> QED BY <2>1, <2>2, <2>3
<1>11. CASE UNCHANGED vars
  BY <1>2, <1>11 DEF vars, store, work
<1> QED BY <1>4, <1>5, <1>6, <1>7, <1>8, <1>9, <1>10, <1>11 DEF Next

LEMMA CountingKept ==
  ASSUME Counting, \A b \in Beliefs : On(b)' \subseteq On(b), db'.uses = db.uses, db'.revs = db.revs,
         child'.count = child.count, failed \subseteq failed', Revising => Revising' \/ "technical" \in failed'
  PROVE  Counting'
<1> SUFFICES ASSUME NEW b \in Beliefs \ {"surface"}, DomainOf(b) \notin failed', NEW h \in On(b)',
                    Newest(db'.revs, h, b), ~(b = "component" /\ Revising')
             PROVE  Level(db'.uses, child'.count, b) <= h.count
  BY DEF Counting
<1>1. h \in On(b) /\ DomainOf(b) \notin failed /\ Newest(db.revs, h, b)
  OBVIOUS
<1>2. ~(b = "component" /\ Revising)
  BY ChildOf
<1>3. Level(db.uses, child.count, b) <= h.count
  BY <1>1, <1>2 DEF Counting
<1> QED BY <1>3

LEMMA AskedKept ==
  ASSUME Typed, Asked, \A b \in Beliefs : On(b)' \subseteq On(b), need' = need, db'.uses = db.uses,
         child'.count = child.count, failed \subseteq failed'
  PROVE  Asked'
<1> SUFFICES ASSUME need # NoNeed
             PROVE  /\ \A b \in Beliefs : need.before[b] \subseteq db.uses[b]
                    /\ Grown(need) \/ Unanswered(need)'
  BY DEF Asked, Grown
<1>1. need.belief \in Beliefs
  BY NeedType
<1>2. Unanswered(need) => Unanswered(need)'
  BY <1>1 DEF Unanswered
<1> QED BY <1>2 DEF Asked

LEMMA CalmCounted ==
  ASSUME Typed, Stored, Shown, Counted, [Next]_vars, ~Commit, \A domain \in Domains : ~Ingest(domain)
  PROVE  Planning' /\ Grouped' /\ Counting' /\ (need' = need => Asked')
<1>1. Calm /\ Planning'
  BY CalmSteps DEF Counted
<1>2. \A b \in Beliefs : On(b)' \subseteq On(b)
  BY OnShrinks
<1>3. Counting'
  BY <1>1, <1>2, CountingKept DEF Calm, Counted
<1>4. need' = need => Asked'
  BY <1>1, <1>2, AskedKept DEF Calm, Counted
<1>5. Grouped'
  <2> SUFFICES ASSUME "technical" \notin failed'
               PROVE  child'.groups = Support(db'.uses, "component") \cup (IF Revising' THEN GroupsOf(todo'[1].used) ELSE {})
    BY DEF Grouped
  <2>1. child.groups = Support(db.uses, "component") \cup (IF Revising THEN GroupsOf(todo[1].used) ELSE {})
    BY <1>1 DEF Calm, Counted, Grouped
  <2>2. Revising' <=> Revising
    BY <1>1 DEF Calm
  <2>3. Revising => todo' = todo
    BY <1>1 DEF Calm
  <2> QED BY <1>1, <2>1, <2>2, <2>3 DEF Calm
<1> QED BY <1>1, <1>3, <1>4, <1>5

LEMMA IngestCounted ==
  ASSUME Typed, Stored, Shown, Counted, NEW domain \in Domains, Ingest(domain)
  PROVE  Counted'
<1> DEFINE used == {Encoded(o) : o \in taken \cap Of(domain)}
<1>1. /\ phase = domain /\ phase' = phase /\ domain \notin failed /\ failed' = failed /\ need' = need
      /\ db' = PutEvidence(db, used) /\ child' = Remember(child, domain, used)
      /\ \E plan \in Plans(domain, used) : todo' = plan
      /\ taken \cap Of(domain) # {}
  BY DEF Ingest
<1>2. /\ used \subseteq Evidence /\ used # {}
      /\ \A e \in used : e.obs \in Of(domain) /\ TimeOf[e.obs] <= now
  BY <1>1, ArchivedType
<1> HIDE DEF used
<1>3. todo = <<>> /\ tx = NoTx /\ ~Revising
  BY <1>1, Idle DEF Revising
<1>4. TypeOK /\ db \in Tables /\ child \in Memories
  BY DEF Typed, TypeOK
<1>5. db'.uses = db.uses /\ db'.revs = db.revs
  BY <1>1, <1>4 DEF PutEvidence, Tables
<1>6. /\ child'.count = child.count
      /\ domain # "technical" => child'.groups = child.groups
      /\ domain = "technical" => child'.groups = child.groups \cup GroupsOf(used)
  BY <1>1, <1>4 DEF Remember, Memories, GroupsOf
<1>7. SoundPlan(todo', domain, used)
  BY <1>1, <1>2, <1>4, PlansAreSound
<1>8. domain = "technical" =>
        \/ todo' = <<Direct("component", used, 0)>>
        \/ todo' = <<Direct("surface", used, 0), Revise("component", "RELATIONAL", {}, now)>>
  BY <1>1 DEF Plans, TechnicalPlans
<1>9. Planning'
  <2>1. ASSUME domain # "spatial", NEW i \in DOMAIN todo', NEW e \in todo'[i].used PROVE e.obs \notin DOMAIN Captures
    <3>1. e.obs \in Of(domain)
      BY <1>2, <1>7, <2>1 DEF SoundPlan, Sound
    <3>2. Of(domain) \subseteq Structural \cup Survey \cup Probe
      BY <2>1 DEF Of, Domains
    <3> QED BY <3>1, <3>2, CapturesAssumption
  <2>2. domain = "technical" =>
          /\ todo'[Len(todo')].belief = "component"
          /\ \A i \in DOMAIN todo' : /\ i > 1 => todo'[i].used = {}
                                     /\ todo'[i].belief = "surface" => todo'[i].used # {}
    <3>1. CASE todo' = <<Direct("component", used, 0)>>
      <4>1. Len(todo') = 1 /\ DOMAIN todo' = {1} /\ todo'[1].belief = "component"
        BY <3>1 DEF Direct, Revise
      <4> QED BY <4>1
    <3>2. CASE todo' = <<Direct("surface", used, 0), Revise("component", "RELATIONAL", {}, now)>>
      <4>1. /\ Len(todo') = 2 /\ DOMAIN todo' = {1, 2} /\ todo'[1].used = used
            /\ todo'[2].belief = "component" /\ todo'[2].used = {}
        BY <3>2 DEF Direct, Revise
      <4> QED BY <1>2, <4>1
    <3> QED BY <1>8, <3>1, <3>2
  <2> QED BY <1>1, <2>1, <2>2 DEF Planning, Revising
<1>10. Grouped'
  <2> SUFFICES ASSUME "technical" \notin failed'
               PROVE  child'.groups = Support(db'.uses, "component") \cup (IF Revising' THEN GroupsOf(todo'[1].used) ELSE {})
    BY DEF Grouped
  <2>1. child.groups = Support(db.uses, "component")
    BY <1>1, <1>3 DEF Counted, Grouped
  <2>2. CASE domain = "technical"
    <3>1. todo' # <<>> /\ todo'[1].used = used
      BY <1>8, <2>2 DEF Direct, Revise
    <3>2. Revising'
      BY <1>1, <2>2, <3>1 DEF Revising
    <3> QED BY <1>5, <1>6, <2>1, <2>2, <3>1, <3>2
  <2>3. CASE domain # "technical"
    <3>1. ~Revising'
      BY <1>1, <2>3 DEF Revising
    <3> QED BY <1>5, <1>6, <2>1, <2>3, <3>1
  <2> QED BY <2>2, <2>3
<1>11. ~Commit
  BY <1>3 DEF Commit, NoTx
<1>12. \A b \in Beliefs : On(b)' \subseteq On(b)
  BY <1>11, OnShrinks DEF Next
<1>13. Counting'
  BY <1>1, <1>3, <1>5, <1>6, <1>12, CountingKept DEF Counted
<1>14. Asked'
  BY <1>1, <1>5, <1>6, <1>12, AskedKept DEF Counted
<1> QED BY <1>9, <1>10, <1>13, <1>14 DEF Counted

LEMMA DecideCounted ==
  ASSUME Typed, Stored, Shown, Counted, Decide
  PROVE  Counted'
<1>1. /\ phase = "dispatch" /\ phase' = "end" /\ todo = <<>> /\ db' = db /\ failed' = failed /\ bus' = bus
      /\ made' = made
      /\ \/ need = NoNeed /\ \E b \in Targets : need' = Ask(b)
         \/ need # NoNeed /\ Answered(need) /\ need' = [need EXCEPT !.closed = TRUE]
         \/ need' = need
  BY DEF Decide, store
<1>2. ~Commit /\ \A domain \in Domains : ~Ingest(domain)
  <2>1. \A domain \in Domains : phase # domain
    BY <1>1 DEF Domains
  <2> QED BY <1>1, <2>1 DEF Commit, Decide, Ingest
<1>3. Planning' /\ Grouped' /\ Counting' /\ (need' = need => Asked')
  BY <1>2, CalmCounted DEF Next
<1>4. \A b \in Beliefs : On(b)' \subseteq On(b)
  BY <1>2, OnShrinks DEF Next
<1>5. DOMAIN made = {} /\ ~Gathering /\ ~Gathering' /\ ~Revising
  BY <1>1, MadeEmpty DEF Gathering, Domains, Revising
<1>6. \A b : On(b) = {bus[b]} /\ On(b)' = {bus[b]}
  BY <1>1, <1>5 DEF On
<1>7. child'.count = child.count
  BY <1>2, CalmSteps DEF Calm, Counted, Next
<1>8. ASSUME NEW b \in Targets, need' = Ask(b) PROVE Asked'
  <2>1. b \in Beliefs
    BY PlaneAssumption
  <2>2. need'.belief = b /\ need'.rev = bus[b].rev /\ need'.count = bus[b].count /\ need'.before = db.uses /\ ~need'.closed
    BY <1>8 DEF Ask
  <2>3. ASSUME b # "surface", DomainOf(b) \notin failed PROVE Level(db.uses, child.count, b) <= bus[b].count
    <3>1. Newest(db.revs, bus[b], b)
      <4> SUFFICES ASSUME NEW i \in Shows(db.revs, b) PROVE i <= bus[b].rev + 1
        BY DEF Newest
      <4>1. i - 1 <= bus[b].rev
        BY <1>5, <2>1, <2>3 DEF Shown
      <4>2. i \in Nat /\ bus[b].rev \in Int
        <5>1. db.revs[b] \in Seq(Revisions) /\ bus[b].rev \in Int
          BY <2>1 DEF Typed, TypeOK, Tables, Heads
        <5>2. i \in DOMAIN db.revs[b]
          BY DEF Shows
        <5> QED BY <5>1, <5>2
      <4> QED BY <4>1, <4>2
    <3> QED BY <1>5, <1>6, <2>1, <2>3, <3>1 DEF Counted, Counting
  <2>4. bus[b].rev <= bus[b].rev
    BY <2>1 DEF Typed, TypeOK, Heads
  <2>5. Unanswered(need)'
    BY <1>1, <1>6, <1>7, <2>2, <2>3, <2>4 DEF Unanswered
  <2> QED BY <1>1, <2>2, <2>5 DEF Asked
<1>9. ASSUME need # NoNeed, Answered(need), need' = [need EXCEPT !.closed = TRUE] PROVE Asked'
  <2>1. /\ need.belief \in Beliefs /\ need.rev \in Int /\ need.count \in Nat
    BY <1>9, NeedType
  <2>2. bus[need.belief].rev \in Int /\ bus[need.belief].count \in Nat
    BY <2>1 DEF Typed, TypeOK, Heads
  <2>3. ~Unanswered(need)
    <3>1. ~(bus[need.belief].rev <= need.rev) /\ ~(bus[need.belief].count <= need.count)
      BY <1>9, <2>1, <2>2 DEF Answered
    <3> QED BY <1>6, <3>1 DEF Unanswered
  <2>4. Grown(need) /\ \A b \in Beliefs : need.before[b] \subseteq db.uses[b]
    BY <1>9, <2>3 DEF Counted, Asked
  <2>5. need'.belief = need.belief /\ need'.before = need.before
    <3>1. need \in Needs
      BY <1>9 DEF Typed, TypeOK
    <3> QED BY <1>9, <3>1 DEF Needs
  <2> QED BY <1>1, <2>4, <2>5 DEF Asked, Grown
<1> QED BY <1>1, <1>3, <1>8, <1>9 DEF Counted

LEMMA InitCounted ==
  ASSUME Init
  PROVE  Counted
<1>1. /\ db.uses = [b \in Beliefs |-> {}] /\ todo = <<>> /\ made = <<>> /\ out = <<>> /\ need = NoNeed
      /\ child.count = [b \in Ecological |-> 0] /\ child.groups = {}
      /\ bus = [b \in Beliefs |-> IF b = "component" THEN [NoMessage EXCEPT !.rev = 0] ELSE NoMessage]
  BY DEF Init, EmptyTables
<1>2. Support(db.uses, "component") = {}
  BY <1>1, ChildOf DEF Support
<1>3. ~Revising /\ DOMAIN todo = {} /\ DOMAIN made = {} /\ DOMAIN out = {}
  BY <1>1 DEF Revising
<1>4. \A b \in Beliefs : bus[b].count = 0 /\ On(b) = {bus[b]}
  BY <1>1, <1>3 DEF NoMessage, On
<1>5. \A b \in Beliefs : Level(db.uses, child.count, b) = 0
  <2>1. Cardinality({}) = 0
    BY FS_EmptySet
  <2>2. Level(db.uses, child.count, "component") = 0
    BY <1>2, <2>1, LevelIs
  <2>3. \A b \in Ecological \cup Spatial : Level(db.uses, child.count, b) = 0
    <3> DEFINE uses == db.uses
               counts == child.count
    <3>1. \A b \in Ecological : counts[b] = 0
      BY <1>1
    <3> HIDE DEF uses, counts
    <3>2. /\ \A b \in Ecological : Level(uses, counts, b) = counts[b]
          /\ \A b \in Spatial : Level(uses, counts, b) = 0
      BY LevelIs
    <3> QED BY <3>1, <3>2 DEF uses, counts
  <2>4. Level(db.uses, child.count, "surface") = 0
    BY DEF Level, Ecological
  <2> QED BY <2>2, <2>3, <2>4 DEF Beliefs, Technical
<1>6. Grouped
  BY <1>1, <1>2, <1>3 DEF Grouped
<1>7. Planning
  BY <1>3 DEF Planning
<1>8. Counting
  BY <1>4, <1>5 DEF Counting
<1> QED BY <1>1, <1>6, <1>7, <1>8 DEF Counted, Asked

-----------------------------------------------------------------------------
LEMMA TailFacts ==
  ASSUME NEW S, NEW s \in Seq(S), s # <<>>
  PROVE  /\ Tail(s) \in Seq(S) /\ 1 \in DOMAIN s
         /\ \A i \in DOMAIN Tail(s) : i \in Nat /\ i >= 1 /\ i + 1 > 1 /\ i + 1 \in DOMAIN s /\ Tail(s)[i] = s[i + 1]
         /\ Tail(s) # <<>> => 1 \in DOMAIN Tail(s) /\ Tail(s)[Len(Tail(s))] = s[Len(s)]
         /\ Tail(s) = <<>> => Len(s) = 1
<1>1. Len(s) \in Nat /\ Len(s) >= 1 /\ Tail(s) \in Seq(S) /\ Len(Tail(s)) = Len(s) - 1
  OBVIOUS
<1>2. \A i \in 1 .. (Len(s) - 1) : Tail(s)[i] = s[i + 1]
  BY <1>1, HeadTailProperties
<1>3. DOMAIN Tail(s) = 1 .. (Len(s) - 1) /\ DOMAIN s = 1 .. Len(s)
  BY <1>1
<1> DEFINE n == Len(s)
           w == Tail(s)
<1>4. n \in Nat /\ n >= 1 /\ w \in Seq(S) /\ Len(w) = n - 1 /\ DOMAIN w = 1 .. (n - 1) /\ DOMAIN s = 1 .. n
      /\ \A i \in 1 .. (n - 1) : w[i] = s[i + 1]
  BY <1>1, <1>2, <1>3
<1>5. w # <<>> => Len(w) >= 1
  BY <1>4
<1> HIDE DEF n, w
<1>6. w = <<>> => Len(w) = 0
  OBVIOUS
<1>7. \A i \in DOMAIN w : i \in Nat /\ i >= 1 /\ i + 1 > 1 /\ i + 1 \in DOMAIN s /\ w[i] = s[i + 1]
  BY <1>4
<1>8. w # <<>> => 1 \in DOMAIN w /\ w[Len(w)] = s[n]
  BY <1>4, <1>5
<1>9. w = <<>> => n = 1
  BY <1>4, <1>6
<1>10. 1 \in DOMAIN s
  BY <1>4
<1> QED BY <1>4, <1>7, <1>8, <1>9, <1>10 DEF n, w

\* What a commit is of, and what it does to the evidence of each belief.
Added == GroupsOf(tx.update.used)

LEMMA CommitFacts ==
  ASSUME Typed, Stored, Commit
  PROVE  LET u == tx.update
             b == u.belief
         IN /\ b \in Beliefs /\ todo \in Seq(Planned) /\ todo # <<>> /\ todo' = Tail(todo)
            /\ b = todo[1].belief /\ u.used = todo[1].used /\ DomainOf(b) \notin failed
            /\ (phase \in Domains => DomainOf(b) = phase /\ u.kind # "CONTEXT")
            /\ (phase \notin Domains => b = "component" /\ u.kind = "CONTEXT" /\ u.used = {})
            /\ \A c \in Beliefs : Support(db.uses, c) \subseteq Support(db'.uses, c)
            /\ b \in Technical => Support(db'.uses, "component") = Support(db.uses, "component") \cup Added
            /\ b \notin Technical \/ u.used = {} =>
                 Support(db'.uses, "component") = Support(db.uses, "component")
            /\ phase' = phase /\ failed' = failed /\ need' = need /\ child'.groups = child.groups
            /\ \A c \in Ecological \ {b} : child'.count[c] = child.count[c]
            /\ b \in Ecological => child'.count[b] = MessageCount(u)
<1> DEFINE u == tx.update
           b == u.belief
<1>1. TypeOK /\ todo \in Seq(Planned) /\ child.count \in [Ecological -> Nat]
  BY DEF Typed, TypeOK, Memories
<1>2. /\ b \in Beliefs /\ todo # <<>> /\ b = todo[1].belief /\ u.kind = todo[1].kind /\ u.used = todo[1].used
      /\ db'.uses[b] = db.uses[b] \cup u.used /\ \A c \in Beliefs \ {b} : db'.uses[c] = db.uses[c]
  BY CommitLogs
<1>3. /\ todo' = Tail(todo) /\ phase' = phase /\ failed' = failed /\ need' = need /\ child'.groups = child.groups
      /\ child'.count = IF b \in Ecological THEN [child.count EXCEPT ![b] = MessageCount(u)] ELSE child.count
  BY <1>1, CommitStep
<1>4. 1 \in DOMAIN todo
  BY <1>1, <1>2
<1>5. /\ DomainOf(b) \notin failed
      /\ (phase \in Domains => DomainOf(b) = phase /\ u.kind # "CONTEXT")
      /\ (phase \notin Domains => b = "component" /\ u.kind = "CONTEXT" /\ u.used = {})
  BY <1>2, <1>4 DEF Stored, Pending
<1> HIDE DEF u
<1>6. \A c \in Beliefs : db.uses[c] \subseteq db'.uses[c]
  BY <1>2
<1>7. "component" \in Beliefs /\ "surface" \in Beliefs
  BY ChildOf
<1>8. \A c \in Beliefs : Support(db.uses, c) \subseteq Support(db'.uses, c)
  BY <1>6, <1>7 DEF Support
<1>9. b \in Technical => db'.uses["component"] \cup db'.uses["surface"] = (db.uses["component"] \cup db.uses["surface"]) \cup u.used
  BY <1>2, <1>7, ChildOf
<1>10. b \notin Technical \/ u.used = {} =>
         db'.uses["component"] \cup db'.uses["surface"] = db.uses["component"] \cup db.uses["surface"]
  BY <1>2, <1>7, ChildOf
<1>11. b \in Technical => Support(db'.uses, "component") = Support(db.uses, "component") \cup GroupsOf(u.used)
  BY <1>9 DEF Support, GroupsOf
<1>12. b \notin Technical \/ u.used = {} => Support(db'.uses, "component") = Support(db.uses, "component")
  BY <1>10 DEF Support
<1>13. /\ \A c \in Ecological \ {b} : child'.count[c] = child.count[c]
       /\ b \in Ecological => child'.count[b] = MessageCount(u)
  BY <1>1, <1>3
<1> QED BY <1>1, <1>2, <1>3, <1>5, <1>8, <1>11, <1>12, <1>13 DEF u, Added

\* What the technical child commits is of the groups it counts.
LEMMA CommitGroups ==
  ASSUME Typed, Stored, Counted, Commit
  PROVE  /\ "technical" \notin failed /\ Revising => child.groups = Support(db'.uses, "component")
         /\ "technical" \notin failed /\ ~Revising => child.groups = Support(db'.uses, "component") /\ ~Revising'
<1> DEFINE u == tx.update
           b == u.belief
<1>1. /\ b = todo[1].belief /\ u.used = todo[1].used /\ todo # <<>> /\ phase' = phase
      /\ (phase \in Domains => DomainOf(b) = phase)
      /\ (phase \notin Domains => u.used = {})
      /\ b \in Technical => Support(db'.uses, "component") = Support(db.uses, "component") \cup Added
      /\ b \notin Technical \/ u.used = {} =>
           Support(db'.uses, "component") = Support(db.uses, "component")
      /\ b \in Beliefs
  BY CommitFacts
<1>2. ASSUME "technical" \notin failed, Revising PROVE child.groups = Support(db'.uses, "component")
  <2>1. DomainOf(b) = "technical"
    BY <1>1, <1>2 DEF Revising, Domains
  <2>2. b \in Technical
    BY <1>1, <2>1, ChildOf
  <2>3. child.groups = Support(db.uses, "component") \cup Added
    BY <1>1, <1>2 DEF Counted, Grouped, Added
  <2> QED BY <1>1, <2>2, <2>3
<1>3. ASSUME "technical" \notin failed, ~Revising
      PROVE  child.groups = Support(db'.uses, "component") /\ ~Revising'
  <2>1. phase # "technical"
    BY <1>1, <1>3 DEF Revising
  <2>2. b \notin Technical \/ u.used = {}
    BY <1>1, <2>1, ChildOf
  <2>3. child.groups = Support(db.uses, "component")
    BY <1>3 DEF Counted, Grouped
  <2> QED BY <1>1, <2>1, <2>2, <2>3 DEF Revising
<1> QED BY <1>2, <1>3

LEMMA CommitPlanned ==
  ASSUME Typed, Stored, Counted, Commit
  PROVE  Planning' /\ Grouped'
<1>1. todo \in Seq(Planned) /\ todo # <<>> /\ todo' = Tail(todo) /\ phase' = phase /\ failed' = failed /\ child'.groups = child.groups
  BY CommitFacts
<1> DEFINE w == Tail(todo)
<1>2. /\ \A i \in DOMAIN w : i \in Nat /\ i >= 1 /\ i + 1 > 1 /\ i + 1 \in DOMAIN todo /\ w[i] = todo[i + 1]
      /\ w # <<>> => 1 \in DOMAIN w /\ w[Len(w)] = todo[Len(todo)]
  BY <1>1, TailFacts
<1>3. todo' = w
  BY <1>1
<1> HIDE DEF w
<1>4. Revising' => Revising
  BY <1>1 DEF Revising
<1>5. ASSUME Revising'
      PROVE  /\ w[Len(w)].belief = "component" /\ w[1].used = {}
             /\ \A i \in DOMAIN w : w[i].used = {} /\ w[i].belief # "surface"
  <2>1. w # <<>> /\ Revising
    BY <1>3, <1>4, <1>5 DEF Revising
  <2>2. /\ todo[Len(todo)].belief = "component"
        /\ \A i \in DOMAIN todo : /\ i > 1 => todo[i].used = {}
                                  /\ todo[i].belief = "surface" => todo[i].used # {}
    BY <2>1 DEF Counted, Planning
  <2>3. \A i \in DOMAIN w : w[i].used = {} /\ w[i].belief # "surface"
    BY <1>2, <2>2
  <2> QED BY <1>2, <2>1, <2>2, <2>3
<1>6. Planning'
  <2>1. ASSUME phase # "spatial", NEW i \in DOMAIN w, NEW e \in w[i].used PROVE e.obs \notin DOMAIN Captures
    BY <1>2, <2>1 DEF Counted, Planning
  <2> QED BY <1>1, <1>3, <1>5, <2>1 DEF Planning
<1>7. Grouped'
  <2> SUFFICES ASSUME "technical" \notin failed'
               PROVE  child'.groups = Support(db'.uses, "component") \cup (IF Revising' THEN GroupsOf(todo'[1].used) ELSE {})
    BY DEF Grouped
  <2>1. child'.groups = Support(db'.uses, "component")
    BY <1>1, CommitGroups
  <2>2. Revising' => GroupsOf(todo'[1].used) = {}
    BY <1>3, <1>5 DEF GroupsOf
  <2> QED BY <2>1, <2>2
<1> QED BY <1>6, <1>7

LEMMA MessageCountIs ==
  ASSUME NEW u
  PROVE  /\ u.belief \in Technical => MessageCount(u) = Cardinality(child.groups)
         /\ u.belief \in Ecological => MessageCount(u) = child.count[u.belief] + (IF u.used # {} THEN 1 ELSE 0)
         /\ u.belief \in Spatial => MessageCount(u) = 0
<1>1. CASE u.belief \in Technical
  BY <1>1 DEF MessageCount, Technical, Spatial, Ecological
<1>2. CASE u.belief \in Ecological
  BY <1>2 DEF MessageCount, Technical, Spatial, Ecological
<1>3. CASE u.belief \in Spatial
  BY <1>3 DEF MessageCount, Technical, Spatial, Ecological
<1>4. CASE u.belief \notin Beliefs
  BY <1>4 DEF Beliefs
<1> QED BY <1>1, <1>2, <1>3, <1>4 DEF Beliefs

LEMMA CommitCounting ==
  ASSUME Typed, Stored, Shown, Counted, Commit
  PROVE  Counting'
<1> DEFINE u == tx.update
           b == u.belief
           head == [rev |-> u.rev, used |-> u.used, count |-> MessageCount(u)]
<1>1. /\ b \in Beliefs /\ todo \in Seq(Planned) /\ todo # <<>> /\ todo' = Tail(todo)
      /\ b = todo[1].belief /\ u.used = todo[1].used /\ DomainOf(b) \notin failed
      /\ (phase \in Domains => DomainOf(b) = phase /\ u.kind # "CONTEXT")
      /\ (phase \notin Domains => b = "component" /\ u.kind = "CONTEXT" /\ u.used = {})
      /\ b \notin Technical \/ u.used = {} =>
           Support(db'.uses, "component") = Support(db.uses, "component")
      /\ phase' = phase /\ failed' = failed
      /\ \A c \in Ecological \ {b} : child'.count[c] = child.count[c]
      /\ b \in Ecological => child'.count[b] = MessageCount(u)
  BY CommitFacts
<1>2. /\ u.rev \in Nat /\ u.kind \in Kinds \ {"CREATE"} /\ u.rev = Len(db.revs[b])
      /\ \A i \in DOMAIN db.revs[b] : i \in DOMAIN db'.revs[b] /\ db'.revs[b][i] = db.revs[b][i]
      /\ u.rev + 1 \in DOMAIN db'.revs[b] /\ db'.revs[b][u.rev + 1].kind = u.kind
      /\ \A c \in Beliefs \ {b} : db'.revs[c] = db.revs[c]
  <2> HIDE DEF head
  <2> QED BY CommitLogs
<1>3. \A c \in Beliefs : On(c)' \subseteq On(c) \cup (IF c = b /\ u.kind # "CONTEXT" THEN {head} ELSE {})
  BY OnCommit
<1>4. u.kind # "CONTEXT" => u.rev + 1 \in Shows(db'.revs, b)
  BY <1>2 DEF Shows
<1>5. \A c \in Beliefs : Shows(db.revs, c) \subseteq Shows(db'.revs, c)
  <2>1. Shows(db.revs, b) \subseteq Shows(db'.revs, b)
    BY <1>2 DEF Shows
  <2>2. \A c \in Beliefs \ {b} : Shows(db.revs, c) = Shows(db'.revs, c)
    BY <1>2 DEF Shows
  <2> QED BY <2>1, <2>2
<1>6. head.rev = u.rev /\ head.count = MessageCount(u)
  OBVIOUS
<1>7. /\ b \in Technical => MessageCount(u) = Cardinality(child.groups)
      /\ b \in Spatial => MessageCount(u) = 0
  BY MessageCountIs
<1>12. MessageCount(u) \in Nat
  <2>1. child \in Memories /\ u \in Updates
    BY CommitStep DEF Typed, TypeOK
  <2> QED BY <2>1, MessageCountType
<1>13. /\ Level(db'.uses, child'.count, "component") = Cardinality(Support(db'.uses, "component"))
       /\ \A x \in Ecological : Level(db'.uses, child'.count, x) = child'.count[x]
       /\ \A x \in Spatial : Level(db'.uses, child'.count, x) = 0
  BY LevelIs
<1>14. /\ Level(db.uses, child.count, "component") = Cardinality(Support(db.uses, "component"))
       /\ \A x \in Ecological : Level(db.uses, child.count, x) = child.count[x]
       /\ \A x \in Spatial : Level(db.uses, child.count, x) = 0
  BY LevelIs
<1> HIDE DEF u, head
<1> SUFFICES ASSUME NEW c \in Beliefs \ {"surface"}, DomainOf(c) \notin failed, NEW h \in On(c)',
                    Newest(db'.revs, h, c), ~(c = "component" /\ Revising')
             PROVE  Level(db'.uses, child'.count, c) <= h.count
  BY <1>1 DEF Counting
<1>8. Newest(db.revs, h, c)
  BY <1>5 DEF Newest
<1>9. CASE h = head /\ c = b /\ u.kind # "CONTEXT"
  <2>1. phase \in Domains /\ DomainOf(b) = phase
    BY <1>1, <1>9
  <2>2. CASE b = "component"
    <3>1. Revising /\ "technical" \notin failed
      BY <1>1, <2>1, <2>2, ChildOf DEF Revising
    <3>2. child.groups = Support(db'.uses, "component")
      BY <3>1, CommitGroups
    <3>3. Level(db'.uses, child'.count, c) = Cardinality(child.groups)
      BY <1>9, <2>2, <3>2, <1>13, <1>14
    <3>4. Level(db'.uses, child'.count, c) = h.count
      BY <1>6, <1>7, <1>9, <2>2, <3>3, ChildOf
    <3>5. h.count \in Nat
      BY <1>6, <1>9, <1>12
    <3> QED BY <3>4, <3>5
  <2>3. CASE b \in Ecological
    <3>1. Level(db'.uses, child'.count, c) = MessageCount(u)
      BY <1>1, <1>9, <2>3, <1>13, <1>14
    <3> QED BY <1>6, <1>9, <1>12, <3>1
  <2>4. CASE b \in Spatial
    <3>1. Level(db'.uses, child'.count, c) = 0 /\ h.count = 0
      BY <1>6, <1>7, <1>9, <2>4, <1>13, <1>14 DEF Technical, Ecological, Spatial
    <3> QED BY <3>1
  <2> QED BY <1>9, <2>2, <2>3, <2>4 DEF Beliefs, Technical
<1>10. CASE h \in On(c) /\ c = b /\ u.kind # "CONTEXT"
  <2>1. h.rev \in Int /\ h.rev + 1 <= u.rev
    BY <1>2, <1>10, OnKnown
  <2>2. u.rev + 1 <= h.rev + 1
    BY <1>4, <1>10 DEF Newest
  <2> QED BY <1>2, <2>1, <2>2
<1>11. CASE h \in On(c) /\ ~(c = b /\ u.kind # "CONTEXT")
  <2>1. ~(c = "component" /\ Revising)
    <3> SUFFICES ASSUME c = "component", Revising PROVE FALSE
      OBVIOUS
    <3>1. b = "surface"
      BY <1>1, <1>11, ChildOf DEF Revising, Domains
    <3>2. todo[Len(todo)].belief = "component"
      BY DEF Counted, Planning
    <3>3. todo' = <<>> => Len(todo) = 1
      BY <1>1, TailFacts
    <3>4. todo' # <<>>
      BY <1>1, <3>1, <3>2, <3>3
    <3> QED BY <1>1, <3>4 DEF Revising
  <2>2. Level(db.uses, child.count, c) <= h.count
    BY <1>8, <1>11, <2>1 DEF Counted, Counting
  <2>3. CASE c = "component"
    <3>1. b \notin Technical \/ u.used = {}
      BY <1>1, <1>11, <2>1, <2>3, ChildOf DEF Revising, Domains
    <3>2. Level(db'.uses, child'.count, c) = Level(db.uses, child.count, c)
      <4>1. Support(db'.uses, "component") = Support(db.uses, "component")
        BY <1>1, <3>1
      <4> QED BY <2>3, <4>1, <1>13, <1>14
    <3> QED BY <2>2, <3>2
  <2>4. CASE c \in Ecological
    <3>1. c # b
      BY <1>1, <1>11, <2>4, ChildOf
    <3>2. child'.count[c] = child.count[c]
      BY <1>1, <2>4, <3>1
    <3>3. Level(db'.uses, child'.count, c) = Level(db.uses, child.count, c)
      BY <2>4, <3>2, <1>13, <1>14
    <3> QED BY <2>2, <3>3
  <2>5. CASE c \in Spatial
    <3>1. Level(db'.uses, child'.count, c) = Level(db.uses, child.count, c)
      BY <2>5, <1>13, <1>14
    <3> QED BY <2>2, <3>1
  <2> QED BY <2>3, <2>4, <2>5 DEF Beliefs, Technical
<1> QED BY <1>3, <1>9, <1>10, <1>11

\* Evidence of no shared capture that is new to a belief makes it rest on more.
LEMMA FreshGrows ==
  ASSUME Typed, Stored, Counted, Commit, need # NoNeed, need.belief = tx.update.belief,
         need.belief \notin {"component"} \cup Spatial, tx.update.used # {}
  PROVE  Grown(need)'
<1> DEFINE u == tx.update
           b == u.belief
<1>1. /\ b \in Beliefs /\ todo \in Seq(Planned) /\ todo # <<>> /\ b = todo[1].belief /\ u.used = todo[1].used
      /\ need' = need /\ (phase \in Domains => DomainOf(b) = phase) /\ (phase \notin Domains => u.used = {})
  BY CommitFacts
<1>2. u.used \subseteq Evidence /\ u.used \cap db.uses[b] = {} /\ db'.uses[b] = db.uses[b] \cup u.used
  BY CommitLogs
<1>3. 1 \in DOMAIN todo
  BY <1>1
<1>4. PICK e \in u.used : TRUE
  OBVIOUS
<1>5. need.before[b] \subseteq db.uses[b] /\ need.before[b] \subseteq Evidence
  BY <1>1, NeedType DEF Counted, Asked
<1>6. phase # "spatial"
  <2>1. b \notin Spatial
    OBVIOUS
  <2>2. DomainOf(b) # "spatial"
    BY <1>1, <2>1, ChildOf
  <2>3. phase = "spatial" => phase \in Domains
    BY DEF Domains
  <2> QED BY <1>1, <2>2, <2>3
<1> HIDE DEF u
<1>7. e.obs \notin DOMAIN Captures
  BY <1>1, <1>3, <1>4, <1>6 DEF Counted, Planning
<1>8. Group(e) = e /\ e.n = 1
  BY <1>2, <1>4, <1>7 DEF Group, Evidence
<1>9. e \in Support(db'.uses, b)
  <2>1. e \in db'.uses[b] /\ b # "component"
    BY <1>2, <1>4 DEF u
  <2> QED BY <1>8, <2>1 DEF Support
<1>10. ASSUME NEW f \in need.before[b] PROVE Group(f) # e
  <2>1. f # e
    BY <1>2, <1>4, <1>5
  <2>2. Group(f) = f \/ Group(f).n = 0
    BY DEF Group, EvidenceOf
  <2> QED BY <1>8, <2>1, <2>2
<1>11. e \notin Support(need.before, b)
  <2>1. b # "component"
    BY DEF u
  <2> QED BY <1>10, <2>1 DEF Support
<1> QED BY <1>1, <1>9, <1>11 DEF Grown, u

LEMMA CommitAsked ==
  ASSUME Typed, Stored, Shown, Counted, Commit
  PROVE  Asked'
<1> DEFINE u == tx.update
           b == u.belief
           head == [rev |-> u.rev, used |-> u.used, count |-> MessageCount(u)]
           n == need.belief
<1>1. /\ b \in Beliefs /\ todo \in Seq(Planned) /\ todo # <<>>
      /\ b = todo[1].belief /\ u.used = todo[1].used /\ DomainOf(b) \notin failed
      /\ (phase \in Domains => DomainOf(b) = phase /\ u.kind # "CONTEXT")
      /\ (phase \notin Domains => b = "component" /\ u.kind = "CONTEXT" /\ u.used = {})
      /\ \A c \in Beliefs : Support(db.uses, c) \subseteq Support(db'.uses, c)
      /\ phase' = phase /\ failed' = failed /\ need' = need
      /\ \A c \in Ecological \ {b} : child'.count[c] = child.count[c]
      /\ b \in Ecological => child'.count[b] = MessageCount(u)
  BY CommitFacts
<1>2. \A c \in Beliefs : db.uses[c] \subseteq db'.uses[c]
  <2>1. db'.uses[b] = db.uses[b] \cup u.used /\ \A c \in Beliefs \ {b} : db'.uses[c] = db.uses[c]
    <3> HIDE DEF head
    <3> QED BY CommitLogs
  <2> QED BY <2>1
<1>3. \A c \in Beliefs : On(c)' \subseteq On(c) \cup (IF c = b /\ u.kind # "CONTEXT" THEN {head} ELSE {})
  BY OnCommit
<1>4. head.count = MessageCount(u)
  OBVIOUS
<1>5. /\ b \in Technical => MessageCount(u) = Cardinality(child.groups)
      /\ b \in Ecological => MessageCount(u) = child.count[b] + (IF u.used # {} THEN 1 ELSE 0)
      /\ b \in Spatial => MessageCount(u) = 0
  BY MessageCountIs
<1>6. /\ Level(db'.uses, child'.count, "component") = Cardinality(Support(db'.uses, "component"))
      /\ \A x \in Ecological : Level(db'.uses, child'.count, x) = child'.count[x]
      /\ \A x \in Spatial : Level(db'.uses, child'.count, x) = 0
  BY LevelIs
<1>7. /\ Level(db.uses, child.count, "component") = Cardinality(Support(db.uses, "component"))
      /\ \A x \in Ecological : Level(db.uses, child.count, x) = child.count[x]
  BY LevelIs
<1> SUFFICES ASSUME need # NoNeed, ~Grown(need)'
             PROVE  (\A c \in Beliefs : need.before[c] \subseteq db'.uses[c]) /\ Unanswered(need)'
  <2>1. need # NoNeed => \A c \in Beliefs : need.before[c] \subseteq db'.uses[c]
    BY <1>2 DEF Counted, Asked
  <2> QED BY <1>1, <2>1 DEF Asked
<1>8. n \in Beliefs /\ need.count \in Nat
  BY NeedType
<1>9. \A c \in Beliefs : need.before[c] \subseteq db.uses[c]
  BY DEF Counted, Asked
<1>10. Support(db'.uses, n) \subseteq Support(need.before, n)
  BY <1>1 DEF Grown
<1>11. Unanswered(need)
  <2>1. ~Grown(need)
    BY <1>1, <1>8, <1>10 DEF Grown
  <2> QED BY <2>1 DEF Counted, Asked
<1>12. n \notin {"component"} \cup Spatial /\ n = b => u.used = {}
  BY FreshGrows
<1> HIDE DEF u, head
<1>13. ASSUME n # "surface", DomainOf(n) \notin failed PROVE Level(db'.uses, child'.count, n) <= need.count
  <2>1. Level(db.uses, child.count, n) <= need.count
    BY <1>11, <1>13 DEF Unanswered
  <2>2. CASE n = "component"
    <3>1. Support(need.before, "component") \subseteq Support(db.uses, "component")
      BY <1>9, ChildOf DEF Support
    <3>2. Support(db'.uses, "component") = Support(db.uses, "component")
      BY <1>1, <1>8, <1>10, <2>2, <3>1
    <3> QED BY <1>6, <1>7, <2>1, <2>2, <3>2
  <2>3. CASE n \in Ecological
    <3>1. n \notin {"component"} \cup Spatial
      BY <2>3 DEF Ecological, Spatial
    <3>2. child'.count[n] = child.count[n]
      <4>1. CASE n = b
        <5>1. child.count[b] \in Nat
          BY <2>3, <4>1 DEF Typed, TypeOK, Memories
        <5>2. MessageCount(u) = child.count[b] + 0
          BY <1>5, <1>12, <2>3, <3>1, <4>1
        <5> QED BY <1>1, <2>3, <4>1, <5>1, <5>2
      <4>2. CASE n # b
        BY <1>1, <2>3, <4>2
      <4> QED BY <4>1, <4>2
    <3> QED BY <1>6, <1>7, <2>1, <2>3, <3>2
  <2>4. CASE n \in Spatial
    BY <1>6, <1>8, <2>4
  <2> QED BY <1>8, <1>13, <2>2, <2>3, <2>4 DEF Beliefs, Technical
<1>14. ASSUME n = b, u.kind # "CONTEXT" PROVE MessageCount(u) <= need.count
  <2>1. phase \in Domains /\ DomainOf(n) = phase /\ DomainOf(n) \notin failed
    BY <1>1, <1>14
  <2>2. CASE n = "component"
    <3>1. Revising /\ "technical" \notin failed
      BY <1>1, <2>1, <2>2, ChildOf DEF Revising
    <3>2. child.groups = Support(db'.uses, "component")
      BY <3>1, CommitGroups
    <3>3. MessageCount(u) = Level(db'.uses, child'.count, n)
      BY <1>5, <1>6, <1>14, <2>2, <3>2, ChildOf
    <3> QED BY <1>13, <2>1, <2>2, <3>3
  <2>3. CASE n \in Ecological
    <3>1. MessageCount(u) = Level(db'.uses, child'.count, n)
      BY <1>1, <1>6, <1>14, <2>3
    <3>2. n # "surface"
      BY <2>3 DEF Ecological
    <3> QED BY <1>13, <2>1, <3>1, <3>2
  <2>4. CASE n = "surface"
    <3>1. Revising
      BY <1>1, <2>1, <2>4, ChildOf DEF Revising
    <3>2. 1 \in DOMAIN todo
      BY <1>1
    <3>3. u.used # {}
      BY <1>1, <1>14, <2>4, <3>1, <3>2 DEF Counted, Planning
    <3>4. n \notin {"component"} \cup Spatial
      BY <2>4 DEF Spatial
    <3> QED BY <1>12, <1>14, <3>3, <3>4
  <2>5. CASE n \in Spatial
    BY <1>5, <1>8, <1>14, <2>5
  <2> QED BY <1>8, <2>2, <2>3, <2>4, <2>5 DEF Beliefs, Technical
<1>15. ASSUME NEW h \in On(n)' PROVE h.rev <= need.rev \/ h.count <= need.count
  <2>1. CASE h \in On(n)
    BY <1>11, <2>1 DEF Unanswered
  <2>2. CASE h = head /\ n = b /\ u.kind # "CONTEXT"
    BY <1>4, <1>14, <2>2
  <2>3. h \in On(n) \/ (h = head /\ n = b /\ u.kind # "CONTEXT")
    <3>1. PICK c \in Beliefs : c = n
      BY <1>8
    <3>2. On(c)' \subseteq On(c) \cup (IF c = b /\ u.kind # "CONTEXT" THEN {head} ELSE {})
      BY <1>3
    <3>3. On(n)' = On(c)' /\ On(n) = On(c)
      BY <1>1, <3>1 DEF On
    <3> QED BY <3>1, <3>2, <3>3
  <2> QED BY <2>1, <2>2, <2>3
<1>16. ~need.closed
  BY <1>11 DEF Unanswered
<1>17. Unanswered(need)'
  BY <1>1, <1>13, <1>15, <1>16 DEF Unanswered
<1> QED BY <1>2, <1>9, <1>17

LEMMA CountedInductive ==
  ASSUME Typed, Stored, Shown, Counted, [Next]_vars
  PROVE  Counted'
<1>1. CASE Commit
  BY <1>1, CommitPlanned, CommitCounting, CommitAsked DEF Counted
<1>2. ASSUME NEW domain \in Domains, Ingest(domain) PROVE Counted'
  BY <1>2, IngestCounted
<1>3. CASE Decide
  BY <1>3, DecideCounted
<1>4. CASE ~Commit /\ ~Decide /\ \A domain \in Domains : ~Ingest(domain)
  <2>1. need' = need
    BY <1>4 DEF Next, Sense, Leave, Begin, Execute, Raise, Publish, Dispatch, EndTick, vars
  <2> QED BY <1>4, <2>1, CalmCounted DEF Counted
<1> QED BY <1>1, <1>2, <1>3, <1>4

\* active/gap.py need_satisfied: a need that is closed was closed by an observation that is independent of all
\* its belief rested on when the need was raised, whatever revisions, contexts and repeated views came between.
THEOREM NeedsAreAnswered == Spec => []NeedAnswered
<1>1. Init => Counted
  BY InitCounted
<1>2. Typed /\ Stored /\ Shown /\ Counted /\ [Next]_vars => Counted'
  BY CountedInductive
<1>3. Counted => NeedAnswered
  BY DEF Counted, Asked, Unanswered, Grown, NeedAnswered
<1> QED BY <1>1, <1>2, <1>3, BusInductive, PTL DEF Spec
=============================================================================
