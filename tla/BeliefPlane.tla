---------------------------- MODULE BeliefPlane -----------------------------
(***************************************************************************)
(* From an observation to a published belief: admission                    *)
(* (src/conrad/orchestration/perception.py), the three domain children and *)
(* their memory of what they committed (src/conrad/domains), the           *)
(* transactions of the repository, the Belief Bus                          *)
(* (src/conrad/orchestration/belief_bus.py), the context the technical     *)
(* child takes from the others, and the need for one more observation that *)
(* Model 1 raises and MCBR closes.  The runtime is one thread; what can    *)
(* interleave is the order and the repetition of what the sensors deliver  *)
(* and a database fault between any two writes.                            *)
(***************************************************************************)
EXTENDS Repository, SequencesExt

CONSTANTS
  Structural, Geometric, Survey, Probe,  \* the kinds of observations
  SensorOf,       \* per observation: its sensor
  LatePolicy,     \* "REJECT" or "EXPLICIT_LATE"
  MaxNow,         \* bound: ticks
  MaxBatch,       \* bound: observations delivered in one tick
  MaxDeliveries,  \* bound: deliveries in all
  MaxFaults,      \* bound: database faults
  Targets         \* beliefs a confirming look may be asked for

VARIABLES
  now,         \* the tick
  phase,       \* where the tick is
  seen,        \* Perception._seen
  newest,      \* Perception._last_ns
  taken,       \* observations admitted in this tick
  db,          \* the committed tables
  tx,          \* the open transaction
  child,       \* what the domain children remember
  failed,      \* ModuleRunner.failed
  todo,        \* revisions the running child still has to commit
  made,        \* messages of the running child
  out,         \* messages of this tick, then those dispatch has to deliver
  bus,         \* BeliefBus._heads
  need,        \* a need that waits for an observation
  delivered,   \* deliveries so far
  faults       \* faults so far

admission == <<seen, newest, taken>>
store == <<db, tx>>
work == <<child, failed, todo, made>>
bounds == <<delivered, faults>>
vars == <<now, phase, admission, store, work, out, bus, need, bounds>>

ASSUME PlaneAssumption ==
  /\ IsFiniteSet(Observations)
  /\ {Structural, Geometric, Survey, Probe} \subseteq SUBSET Observations
  /\ TimeOf \in [Observations -> Nat]
  /\ Captures \in [DOMAIN Captures -> Observations]
  /\ LatePolicy \in {"REJECT", "EXPLICIT_LATE"}
  /\ {MaxNow, MaxBatch, MaxDeliveries, MaxFaults} \subseteq Nat
  /\ Targets \subseteq Beliefs

\* Only the evidence of the geometry names a capture it shares with others (domains/spatial/evidence.py);
\* structured evidence has a group per observation (perception.py) and the rest has none.
ASSUME CapturesAssumption == (Structural \cup Survey \cup Probe) \cap DOMAIN Captures = {}

Sensors == {SensorOf[o] : o \in Observations}
Domains == {"spatial", "technical", "ecological"}
DomainOf(b) == CASE b \in Technical -> "technical" [] b \in Spatial -> "spatial" [] OTHER -> "ecological"
Of(domain) ==
  CASE domain = "technical" -> Structural [] domain = "spatial" -> Geometric [] OTHER -> Survey \cup Probe

NoTx == [at |-> 0]
NoMessage == [rev |-> -1, used |-> {}, count |-> 0]
NoNeed == [belief |-> "none"]

\* initialize: the technical and the ecological beliefs exist from the start, the spatial ones and the
\* read surface do not.  Only the technical child's are published (MissionRuntime.start).
Created == {"component", "field", "entity"}
First == [rev |-> 0, kind |-> "CREATE", used |-> {}, time |-> 0, late |-> FALSE, root |-> 1, count |-> 0]

Init ==
  /\ now = 1 /\ phase = "sense"
  /\ seen = {} /\ newest = [s \in Sensors |-> -1] /\ taken = {}
  /\ db = [EmptyTables EXCEPT
             !.prov = [c \in Chains |-> IF c \in Created THEN 1 ELSE 0],
             !.rows = [b \in Beliefs |-> IF b \in Created THEN [head |-> 0, time |-> 0, count |-> 0] ELSE NoRow],
             !.revs = [b \in Beliefs |-> IF b \in Created THEN <<First>> ELSE <<>>]]
  /\ tx = NoTx
  /\ child = [rev |-> [b \in Beliefs |-> IF b \in Created THEN 0 ELSE -1],
              time |-> [c \in Chains |-> IF c \in Created THEN 0 ELSE -1],
              root |-> [c \in Chains |-> IF c \in Created THEN 1 ELSE 0],
              count |-> [b \in Ecological |-> 0],
              undrained |-> {},
              groups |-> {}]
  /\ failed = {} /\ todo = <<>> /\ made = <<>> /\ out = <<>>
  /\ bus = [b \in Beliefs |-> IF b = "component" THEN [NoMessage EXCEPT !.rev = 0] ELSE NoMessage]
  /\ need = NoNeed
  /\ delivered = 0 /\ faults = 0

-----------------------------------------------------------------------------
\* Admission

Late(a, o) == TimeOf[o] < a.newest[SensorOf[o]]

\* Mutant: the observation is not remembered.
AdmitUnmarked(a, o, corrupt) ==
  IF o \in corrupt \/ (Late(a, o) /\ LatePolicy = "REJECT") THEN a
  ELSE [seen |-> a.seen, taken |-> a.taken \cup {o},
        newest |-> [a.newest EXCEPT ![SensorOf[o]] = Latest(@, {TimeOf[o]})]]

\* _admit: a duplicate is dropped; so is a corrupt delivery, which may be repeated intact; a late one is
\* rejected or taken as the policy says, and is a duplicate from now on either way.
Admit(a, o, corrupt) ==
  IF o \in a.seen \cup corrupt THEN a
  ELSE IF Late(a, o) /\ LatePolicy = "REJECT" THEN [a EXCEPT !.seen = @ \cup {o}]
  ELSE [seen |-> a.seen \cup {o}, taken |-> a.taken \cup {o},
        newest |-> [a.newest EXCEPT ![SensorOf[o]] = Latest(@, {TimeOf[o]})]]

\* What admission knows when the deliveries of a batch have been admitted one after the other.
AfterBatch(batch, corrupt) ==
  LET after[i \in 0..Len(batch)] ==
        IF i = 0 THEN [seen |-> seen, newest |-> newest, taken |-> {}]
        ELSE Admit(after[i - 1], batch[i], corrupt)
  IN after[Len(batch)]

\* The payload returns what was measured up to now, some of it again, in any order.
Sense ==
  /\ phase = "sense"
  /\ \E batch \in SeqOf({o \in Observations : TimeOf[o] <= now}, MaxBatch) :
       /\ delivered + Len(batch) <= MaxDeliveries
       /\ delivered' = delivered + Len(batch)
       /\ \E corrupt \in {{}} \cup {{o} : o \in ToSet(batch)} :
            LET a == AfterBatch(batch, corrupt)
            IN seen' = a.seen /\ newest' = a.newest /\ taken' = a.taken
  /\ phase' = "spatial"
  /\ UNCHANGED <<now, store, work, out, bus, need, faults>>

-----------------------------------------------------------------------------
\* The children: what one update plans to commit, in order

Revise(b, kind, used, time) == [belief |-> b, kind |-> kind, used |-> used, time |-> time]
Direct(b, used, floor) == Revise(b, "DIRECT", used, Max({TimeOf[e.obs] : e \in used} \cup {floor}))

\* RegionPublisher.publish_changes: the block the evidence fell in, then the asset over it.
SpatialPlans(used) == {<<Direct("block", used, 0), Direct("asset", used, 0)>>}

\* Model2T.update_beliefs: while the surface is read only in part, the readings are its surface's and
\* the component gets a coverage revision.
TechnicalPlans(used) ==
  {<<Direct("component", used, 0)>>,
   <<Direct("surface", used, 0), Revise("component", "RELATIONAL", {}, now)>>}

\* Model2E.update_beliefs: the field, then the entity, which is also revised when the temperature seen
\* since moves its stress.  Both are stamped with the newest time of their own state.
EcologicalPlans(used) ==
  LET probed == {e \in used : e.obs \in Probe}
      surveyed == used \ probed
      fieldTime == Max({TimeOf[e.obs] : e \in probed} \cup {child.time["field"]})
      fieldPlan == IF probed = {} THEN <<>> ELSE <<Direct("field", probed, fieldTime)>>
      coupled == (probed # {} \/ child.count["field"] > 0) /\ (surveyed # {} \/ child.count["entity"] > 0)
      floor == Max({child.time["entity"]} \cup IF coupled THEN {fieldTime} ELSE {})
  IN IF surveyed # {} THEN {Append(fieldPlan, Direct("entity", surveyed, floor))}
     ELSE {fieldPlan} \cup IF coupled THEN {Append(fieldPlan, Revise("entity", "RELATIONAL", {}, floor))} ELSE {}

Plans(domain, used) ==
  CASE domain = "spatial" -> SpatialPlans(used)
    [] domain = "technical" -> TechnicalPlans(used)
    [] OTHER -> EcologicalPlans(used)

\* One piece of evidence per observation, with an id of its own.
Encoded(o) == EvidenceOf(o, 1 + Cardinality({e \in db.evidence : e.obs = o}))

NextPhase == [spatial |-> "technical", technical |-> "ecological", ecological |-> "publish"]

\* apply_evidence: the technical child makes a provenance record and counts groups at once.
Remember(c, domain, used) ==
  IF domain # "technical" THEN c
  ELSE [c EXCEPT !.root["component"] = @ + 1,
                 !.undrained = @ \cup {c.root["component"] + 1},
                 !.groups = @ \cup {Group(e) : e \in used}]

\* A child that is available and has observations archives their evidence and plans its revisions.
Ingest(domain) ==
  /\ phase = domain /\ domain \notin failed /\ taken \cap Of(domain) # {}
  /\ LET used == {Encoded(o) : o \in taken \cap Of(domain)}
     IN /\ db' = PutEvidence(db, used)
        /\ child' = Remember(child, domain, used)
        /\ \E plan \in Plans(domain, used) : todo' = plan
  /\ taken' = taken \ Of(domain)
  /\ UNCHANGED <<now, phase, seen, newest, tx, failed, made, out, bus, need, bounds>>

\* The call is over: its messages join those of the tick.
Leave(domain) ==
  /\ phase = domain /\ todo = <<>> /\ tx = NoTx
  /\ domain \in failed \/ taken \cap Of(domain) = {}
  /\ phase' = NextPhase[domain]
  /\ out' = out \o made /\ made' = <<>>
  /\ UNCHANGED <<now, admission, store, child, failed, todo, bus, need, bounds>>

-----------------------------------------------------------------------------
\* One commit

\* Mutant: nothing is ever late.
NeverLate(r) == FALSE

\* What the child says of the revision: the technical child compares with the newest time of component
\* and surface together.
IsLate(r) == r.time < child.time[ChainOf(r.belief)]

UpdateOf(r) ==
  LET b == r.belief
      chain == ChainOf(b)
      ownRecord == child.root[chain] + 1
  IN [belief |-> b, kind |-> r.kind, used |-> r.used, time |-> r.time, late |-> IsLate(r),
      rev |-> child.rev[b] + 1,
      root |-> IF b \in Technical THEN child.root[chain] ELSE ownRecord,
      records |-> IF b \in Technical THEN child.undrained ELSE {ownRecord}]

\* The technical child drains its provenance and counts the revision before the transaction,
\* the others remember it afterwards.
Begin ==
  /\ todo # <<>> /\ tx = NoTx
  /\ LET r == Head(todo) IN
       /\ tx' = [at |-> 1, update |-> UpdateOf(r), copy |-> db]
       /\ child' = IF r.belief \in Technical
                   THEN [child EXCEPT !.rev[r.belief] = @ + 1, !.undrained = {}] ELSE child
  /\ UNCHANGED <<now, phase, admission, db, failed, todo, made, out, bus, need, bounds>>

\* Mutant: every write goes to the tables at once.
ExecuteAtOnce ==
  /\ tx.at \in 1..4
  /\ tx.at = 1 => ~Refused(db, tx.update)
  /\ tx' = [tx EXCEPT !.at = @ + 1, !.copy = Write(tx.at, @, db, tx.update)]
  /\ db' = Write(tx.at, db, db, tx.update)
  /\ UNCHANGED <<now, phase, admission, work, out, bus, need, bounds>>

\* One write inside the transaction, after the checks.
Execute ==
  /\ tx.at \in 1..4
  /\ tx.at = 1 => ~Refused(db, tx.update)
  /\ tx' = [tx EXCEPT !.at = @ + 1, !.copy = Write(tx.at, @, db, tx.update)]
  /\ UNCHANGED <<now, phase, admission, db, work, out, bus, need, bounds>>

\* independent_observation_count of the message: the groups the technical child has consumed for the
\* component; one more per ecological revision that consumed evidence.  (A spatial message counts per
\* voxel, which is not modelled.)
MessageCount(u) ==
  CASE u.belief \in Technical -> Cardinality(child.groups)
    [] u.belief \in Ecological -> child.count[u.belief] + (IF u.used # {} THEN 1 ELSE 0)
    [] OTHER -> 0

Commit ==
  /\ tx.at = 5
  /\ LET u == tx.update
         chain == ChainOf(u.belief) IN
       /\ db' = tx.copy
       /\ child' = [child EXCEPT !.rev[u.belief] = u.rev,
                                 !.time[chain] = Latest(@, {u.time}),
                                 !.root[chain] = u.root,
                                 !.count = IF u.belief \in Ecological
                                           THEN [@ EXCEPT ![u.belief] = MessageCount(u)] ELSE @]
       /\ made' = IF u.kind = "CONTEXT" THEN made
                  ELSE Append(made, [belief |-> u.belief, rev |-> u.rev, used |-> u.used,
                                     count |-> MessageCount(u)])
  /\ tx' = NoTx /\ todo' = Tail(todo)
  /\ UNCHANGED <<now, phase, admission, failed, out, bus, need, bounds>>

\* Mutant: the module stays in service.
RaiseUnlatched ==
  /\ tx.at > 0
  /\ \/ tx.at = 1 /\ Refused(db, tx.update) /\ UNCHANGED faults
     \/ faults < MaxFaults /\ faults' = faults + 1
  /\ tx' = NoTx /\ todo' = <<>> /\ made' = <<>>
  /\ UNCHANGED <<now, phase, admission, db, child, failed, out, bus, need, delivered>>

\* A refusal, or a fault between two writes: rollback; the runner marks the module failed for good and
\* the messages of its call are lost, those of revisions that are already committed too.
Raise ==
  /\ tx.at > 0
  /\ \/ tx.at = 1 /\ Refused(db, tx.update) /\ UNCHANGED faults
     \/ faults < MaxFaults /\ faults' = faults + 1
  /\ tx' = NoTx /\ todo' = <<>> /\ made' = <<>>
  /\ failed' = failed \cup {DomainOf(tx.update.belief)}
  /\ UNCHANGED <<now, phase, admission, db, child, out, bus, need, delivered>>

-----------------------------------------------------------------------------
\* The bus

\* publish accepts what is newer than its head.
Accepted(heads, m) == m.rev > heads[m.belief].rev

HeadOf(m) == [rev |-> m.rev, used |-> m.used, count |-> m.count]

\* The heads after the messages, taken in their order, and the messages that were accepted.
PublishMany(messages) ==
  LET after[i \in 0..Len(messages)] ==
        IF i = 0 THEN [heads |-> bus, accepted |-> <<>>]
        ELSE LET m == messages[i]
                 p == after[i - 1]
             IN IF Accepted(p.heads, m)
                THEN [heads |-> [p.heads EXCEPT ![m.belief] = HeadOf(m)], accepted |-> Append(p.accepted, m)]
                ELSE p
  IN after[Len(messages)]

Publish ==
  /\ phase = "publish" /\ todo = <<>>
  /\ bus' = PublishMany(out).heads
  /\ out' = PublishMany(out).accepted
  /\ phase' = "dispatch"
  /\ UNCHANGED <<now, admission, store, work, need, bounds>>

\* A context that changes the uncertainty of the component makes a revision nobody publishes.
TakeContext ==
  /\ child' = [child EXCEPT !.root["component"] = @ + 1,
                            !.undrained = @ \cup {child.root["component"] + 1}]
  /\ todo' = <<Revise("component", "CONTEXT", {}, now)>>

\* dispatch: of what the other domains published, the technical child takes the ecological beliefs and
\* the assets of the map.
Dispatch ==
  /\ phase = "dispatch" /\ todo = <<>> /\ out # <<>>
  /\ \/ /\ Head(out).belief \in Ecological \cup {"asset"} /\ "technical" \notin failed
        /\ TakeContext
     \/ UNCHANGED <<child, todo>>
  /\ out' = Tail(out)
  /\ UNCHANGED <<now, phase, admission, store, failed, made, bus, need, bounds>>

-----------------------------------------------------------------------------
\* The decision

Ask(b) == [belief |-> b, rev |-> bus[b].rev, count |-> bus[b].count, before |-> db.uses, closed |-> FALSE]

\* Mutant: a newer revision is enough.
AnsweredByRevision(n) == bus[n.belief].rev >= n.rev + 1

\* need_satisfied: the belief has a newer revision and one more independent observation.
Answered(n) == bus[n.belief].rev >= n.rev + 1 /\ bus[n.belief].count >= n.count + 1

\* The end of a tick.  In a decision cycle the ecological child's view of the water may reach the
\* technical child once more, Model 1 may ask for a confirming look, and MCBR closes an answered need
\* when the uncertainty permits.
Decide ==
  /\ phase = "dispatch" /\ todo = <<>> /\ tx = NoTx /\ out = <<>>
  /\ \/ {"technical", "ecological"} \cap failed = {} /\ TakeContext
     \/ UNCHANGED <<child, todo>>
  /\ \/ need = NoNeed /\ \E b \in Targets : bus[b] # NoMessage /\ need' = Ask(b)
     \/ need # NoNeed /\ ~need.closed /\ Answered(need) /\ need' = [need EXCEPT !.closed = TRUE]
     \/ UNCHANGED need
  /\ phase' = "end"
  /\ UNCHANGED <<now, admission, store, failed, made, out, bus, bounds>>

EndTick ==
  /\ phase = "end" /\ todo = <<>> /\ now < MaxNow
  /\ now' = now + 1 /\ phase' = "sense" /\ taken' = {}
  /\ UNCHANGED <<seen, newest, store, work, out, bus, need, bounds>>

Next ==
  \/ Sense
  \/ \E domain \in Domains : Ingest(domain) \/ Leave(domain)
  \/ Begin \/ Execute \/ Commit \/ Raise
  \/ Publish \/ Dispatch
  \/ Decide \/ EndTick

Spec == Init /\ [][Next]_vars

-----------------------------------------------------------------------------
\* Properties

\* The types of what a child plans, remembers and publishes.
Planned == [belief : Beliefs, kind : Kinds \ {"CREATE"}, used : SUBSET Evidence, time : Nat]
Memories ==
  [rev : [Beliefs -> Nat \cup {-1}], time : [Chains -> Nat \cup {-1}], root : [Chains -> Nat],
   count : [Ecological -> Nat], undrained : SUBSET Nat, groups : SUBSET [obs : Observations, n : {0, 1}]]
Messages == [belief : Beliefs, rev : Nat, used : SUBSET Evidence, count : Nat]
Heads == [rev : Nat \cup {-1}, used : SUBSET Evidence, count : Nat]
Transactions == [at : 1..5, update : Updates, copy : Tables]
Needs == [belief : Targets, rev : Nat \cup {-1}, count : Nat, before : [Beliefs -> SUBSET Evidence], closed : BOOLEAN]

TypeOK ==
  /\ now \in Nat /\ delivered \in Nat /\ faults \in Nat
  /\ phase \in {"sense", "publish", "dispatch", "end"} \cup Domains
  /\ seen \subseteq Observations /\ taken \subseteq seen
  /\ newest \in [Sensors -> Nat \cup {-1}]
  /\ db \in Tables
  /\ tx \in {NoTx} \cup Transactions
  /\ child \in Memories /\ failed \subseteq Domains
  /\ todo \in Seq(Planned) /\ made \in Seq(Messages) /\ out \in Seq(Messages)
  /\ bus \in [Beliefs -> Heads]
  /\ need \in {NoNeed} \cup Needs

\* CC-03, test_cc03_fault_at_every_point_leaves_prior_state_intact: what is committed is always whole.
\* Per belief the revisions are numbered without a gap, the head row is the last of them, the
\* contributions are those of the revisions, their evidence is archived and their provenance stored.
WholeCommits ==
  \A b \in Beliefs :
    LET revs == db.revs[b]
        row == db.rows[b] IN
    /\ row.head = Len(revs) - 1
    /\ \A i \in DOMAIN revs :
         /\ revs[i].rev = i - 1
         /\ revs[i].root \in 1..db.prov[ChainOf(b)]
    /\ revs # <<>> => /\ row.count = revs[Len(revs)].count
                      /\ row.time = Max({revs[i].time : i \in DOMAIN revs})
    /\ db.uses[b] = UNION {revs[i].used : i \in DOMAIN revs}
    /\ db.uses[b] \subseteq db.evidence

\* What a child remembers agrees with what the repository holds whenever it commits: whatever was
\* delivered late, twice or corrupt, and whatever faults came before, no update of the runtime is
\* refused (a refusal would take the domain out of service for the rest of the mission).
NeverRefused == tx.at = 1 => ~Refused(db, tx.update)

Publishable(b) ==
  {i \in DOMAIN db.revs[b] : db.revs[b][i].kind \notin {"CONTEXT"} \cup (IF b \in Ecological THEN {"CREATE"} ELSE {})}

\* CC-04: a published belief is a committed revision, with the evidence it was committed with; and
\* between two ticks the bus has the newest publishable revision of every domain in service, so that
\* only a failed domain or a context revision leaves subscribers behind the store.
PublishedFromStore ==
  \A b \in Beliefs :
    /\ bus[b] # NoMessage =>
         /\ bus[b].rev + 1 \in Publishable(b)
         /\ bus[b].used = db.revs[b][bus[b].rev + 1].used
    /\ phase \in {"sense", "end"} /\ DomainOf(b) \notin failed
         => bus[b].rev + 1 = Max({0} \cup Publishable(b))

\* What a belief rests on for its message: the component's includes its surface's.
Support(uses, b) == {Group(e) : e \in IF b = "component" THEN uses["component"] \cup uses["surface"] ELSE uses[b]}

\* active/gap.py need_satisfied: a need is closed only when an observation that is independent of all
\* the belief had when the need was raised has been committed, not by another revision of what was
\* known.
NeedAnswered ==
  need # NoNeed /\ need.closed
    => Support(db.uses, need.belief) \ Support(need.before, need.belief) # {}

Promise == INSTANCE BeliefLog WITH log <- db.revs, GroupOf <- Group

\* The plane implements the belief log: one whole revision of one belief at a time, no observation
\* twice in a belief, and a count in which a shared capture counts once.
ImplementsBeliefLog == Promise!Spec

\* repository.py: "A stale update cannot silently replace a newer state; late evidence is explicit
\* (CC-02)".  A revision whose evidence is all older than the head it replaces says so.
LateIsExplicit ==
  \A b \in Beliefs : \A i \in DOMAIN db.revs[b] :
    LET r == db.revs[b][i]
        before == {db.revs[b][j].time : j \in 1..(i - 1)} IN
    r.kind = "DIRECT" /\ before # {} /\ (\A e \in r.used : TimeOf[e.obs] < Max(before)) => r.late
=============================================================================
