----------------------------- MODULE Repository -----------------------------
(***************************************************************************)
(* The single-writer belief repository                                     *)
(* (src/conrad/persistence/repository.py): its tables as one record, the   *)
(* checks and the writes of commit_update.  A transaction works on a copy  *)
(* of the tables that replaces them when it commits and is dropped when    *)
(* anything raises (BEGIN IMMEDIATE and rollback, db.py).                  *)
(***************************************************************************)
EXTENDS Integers, Sequences, FiniteSetsExt

CONSTANTS
  Observations,  \* what the sensors deliver
  TimeOf,        \* per observation: when it was measured
  Captures       \* per observation of a shared capture: the one that stands for it

\* The beliefs: a component and the part of its surface that was read (technical), a map block and the
\* asset it overlaps (spatial), a field and an entity in it (ecological).
Technical == {"component", "surface"}
Spatial == {"block", "asset"}
Ecological == {"field", "entity"}
Beliefs == Technical \cup Spatial \cup Ecological

\* Provenance records form one chain per belief, one for the two technical ones.
Chains == {"component"} \cup Spatial \cup Ecological
ChainOf(b) == IF b \in Technical THEN "component" ELSE b

Kinds == {"CREATE", "DIRECT", "RELATIONAL", "CONTEXT"}

\* The n-th piece of evidence made from an observation.
EvidenceOf(o, n) == [obs |-> o, n |-> n]

\* independence_group, or the evidence itself when it has none.
Group(e) == IF e.obs \in DOMAIN Captures THEN EvidenceOf(Captures[e.obs], 0) ELSE e

NoRow == [head |-> -1, time |-> -1, count |-> 0]

\* What the tables hold, and what a child hands to commit_update. An observation is admitted once and
\* makes one piece of evidence.
Evidence == [obs : Observations, n : {1}]
Rows == [head : Nat \cup {-1}, time : Nat \cup {-1}, count : Nat]
Revisions ==
  [rev : Nat, kind : Kinds, used : SUBSET Evidence, time : Nat, late : BOOLEAN, root : Nat, count : Nat]
Tables ==
  [evidence : SUBSET Evidence, prov : [Chains -> Nat], rows : [Beliefs -> Rows],
   uses : [Beliefs -> SUBSET Evidence], revs : [Beliefs -> Seq(Revisions)]]
Updates ==
  [belief : Beliefs, kind : Kinds, used : SUBSET Evidence, time : Nat, late : BOOLEAN, rev : Nat, root : Nat,
   records : SUBSET Nat]

\* The tables: evidence, provenance (records 1..prov[c] of chain c), beliefs, evidence_contributions
\* and belief_revisions.
EmptyTables ==
  [evidence |-> {},
   prov |-> [c \in Chains |-> 0],
   rows |-> [b \in Beliefs |-> NoRow],
   uses |-> [b \in Beliefs |-> {}],
   revs |-> [b \in Beliefs |-> <<>>]]

Latest(n, records) == Max({n} \cup records)

-----------------------------------------------------------------------------
\* What commit_update raises before it writes anything.  A revision names its predecessor, so that
\* only its number needs to be checked; message ids are fresh, which leaves out the duplicate message.

PredecessorMismatch(db, u) == u.rev # db.rows[u.belief].head + 1

StaleUpdate(db, u) == u.kind = "DIRECT" /\ ~u.late /\ u.time < db.rows[u.belief].time

DuplicateEvidence(db, u) == u.used \cap db.uses[u.belief] # {}

NotArchived(db, u) == ~(u.used \subseteq db.evidence)

\* The root is stored or part of the update, and so is the parent of every new record.
Dangling(db, u) ==
  LET known == 1..db.prov[ChainOf(u.belief)] \cup u.records
  IN u.root \notin known \/ \E r \in u.records : r > 1 /\ r - 1 \notin known

Refused(db, u) ==
  \/ PredecessorMismatch(db, u)
  \/ StaleUpdate(db, u)
  \/ DuplicateEvidence(db, u)
  \/ NotArchived(db, u)
  \/ Dangling(db, u)

-----------------------------------------------------------------------------
\* The writes of commit_update, in their order, on the transaction's copy w; db is what the
\* transaction read when it began.

\* Independent observations once u is in: a group counts once.
IndependentTotal(db, u) ==
  LET before == {Group(e) : e \in db.uses[u.belief]}
  IN db.rows[u.belief].count + Cardinality({Group(e) : e \in u.used} \ before)

InsertProvenance(w, u) == [w EXCEPT !.prov[ChainOf(u.belief)] = Latest(@, u.records)]

\* A belief that is new gets its row here.
InsertContributions(w, u) ==
  [w EXCEPT !.rows[u.belief] = IF @ = NoRow THEN [head |-> 0, time |-> u.time, count |-> 0] ELSE @,
            !.uses[u.belief] = @ \cup u.used]

InsertRevision(w, db, u) ==
  [w EXCEPT !.revs[u.belief] = Append(@,
     [rev |-> u.rev, kind |-> u.kind, used |-> u.used, time |-> u.time, late |-> u.late,
      root |-> u.root, count |-> IndependentTotal(db, u)])]

MoveHead(w, db, u) ==
  [w EXCEPT !.rows[u.belief] =
     [head |-> u.rev, time |-> Latest(@.time, {u.time}), count |-> IndependentTotal(db, u)]]

\* The points between two writes where a transaction can fail (_FaultPlan).
Points == <<"before_writes", "after_provenance", "after_contributions", "after_revision", "before_commit">>

\* The write that follows the i-th point.
Write(i, w, db, u) ==
  CASE i = 1 -> InsertProvenance(w, u)
    [] i = 2 -> InsertContributions(w, u)
    [] i = 3 -> InsertRevision(w, db, u)
    [] i = 4 -> MoveHead(w, db, u)

\* put_evidence, idempotent on the id, in a transaction of its own.
PutEvidence(db, new) == [db EXCEPT !.evidence = @ \cup new]
=============================================================================
