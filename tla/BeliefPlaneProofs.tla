------------------------- MODULE BeliefPlaneProofs -------------------------
(***************************************************************************)
(* Proofs about the belief plane: for every finite set of observations of  *)
(* any kinds, times and captures, both late policies, any number of ticks, *)
(* deliveries and faults.                                                  *)
(***************************************************************************)
EXTENDS BeliefPlane, FiniteSetTheorems, SequenceTheorems, WellFoundedInduction, TLAPS

-----------------------------------------------------------------------------
(***************************************************************************)
(* The order of the integers: induction over an interval and iteration,    *)
(* stated over sets and functions, and what the maximum of a set is        *)
(* (FiniteSetsExt!Max).                                                    *)
(***************************************************************************)
\* A set of naturals that has an element has a least one.
LEMMA LeastElement ==
  ASSUME NEW T, T \subseteq Nat, T # {}
  PROVE  \E x \in T : \A y \in T : x <= y
<1> DEFINE R == OpToRel(<, Nat)
<1>1. IsWellFoundedOn(R, Nat)
  BY NatLessThanWellFounded
<1>2. \A x, y \in Nat : y < x => <<y, x>> \in R
  BY DEF OpToRel
<1> HIDE DEF R
<1>3. PICK x \in T : \A y \in T : ~(<<y, x>> \in R)
  BY <1>1, WFMin
<1>4. ASSUME NEW y \in T PROVE x <= y
  <2>1. ~(y < x)
    BY <1>2, <1>3
  <2> QED BY <2>1
<1> QED BY <1>4

\* Induction up to n, over the set of the numbers that have the property.
LEMMA IntervalInduction ==
  ASSUME NEW n \in Nat, NEW T, 0 \in T, \A i \in 1 .. n : i - 1 \in T => i \in T
  PROVE  n \in T
<1> DEFINE B == {i \in 0 .. n : i \notin T}
<1>1. SUFFICES ASSUME B # {} PROVE FALSE
  OBVIOUS
<1>2. B \subseteq Nat
  OBVIOUS
<1>3. PICK x \in B : \A y \in B : x <= y
  BY <1>1, <1>2, LeastElement
<1>4. x \in 1 .. n /\ x \notin T /\ x - 1 \in 0 .. n
  BY <1>3
<1>5. x - 1 \notin B
  BY <1>3, <1>4
<1> QED BY <1>4, <1>5

\* Steps of a state can be iterated.
Run(S, s, F, k, g) == g \in [0 .. k -> S] /\ g[0] = s /\ \A i \in 1 .. k : g[i] = F[i][g[i - 1]]

LEMMA Iterates ==
  ASSUME NEW S, NEW s \in S, NEW n \in Nat, NEW F \in [1 .. n -> [S -> S]]
  PROVE  \E g : Run(S, s, F, n, g)
<1> DEFINE T == {k \in 0 .. n : \E g : Run(S, s, F, k, g)}
<1>1. 0 \in T
  <2>1. Run(S, s, F, 0, [i \in 0 .. 0 |-> s])
    BY DEF Run
  <2> QED BY <2>1
<1>2. ASSUME NEW k \in 1 .. n, k - 1 \in T PROVE k \in T
  <2>1. PICK g : Run(S, s, F, k - 1, g)
    BY <1>2
  <2> DEFINE h == [i \in 0 .. k |-> IF i < k THEN g[i] ELSE F[k][g[k - 1]]]
  <2>2. g[k - 1] \in S /\ F[k][g[k - 1]] \in S
    BY <2>1 DEF Run
  <2>3. \A i \in 0 .. k : h[i] \in S
    BY <2>1, <2>2 DEF Run
  <2>4. ASSUME NEW i \in 1 .. k PROVE h[i] = F[i][h[i - 1]]
    BY <2>1 DEF Run
  <2>5. Run(S, s, F, k, h)
    BY <2>1, <2>3, <2>4 DEF Run
  <2> QED BY <2>5
<1> HIDE DEF T
<1>3. n \in T
  BY <1>1, <1>2, IntervalInduction
<1> QED BY <1>3 DEF T

Bounded(S) == S \subseteq Int /\ \E B \in Int : \A x \in S : x <= B

\* A set of integers that has an element and a bound has a maximum.
LEMMA MaxOfBounded ==
  ASSUME NEW S, S # {}, Bounded(S)
  PROVE  Max(S) \in S /\ \A x \in S : x <= Max(S)
<1>0. S \subseteq Int
  BY DEF Bounded
<1> PICK B \in Int : \A x \in S : x <= B
  BY DEF Bounded
<1> DEFINE T == {B - x : x \in S}
<1>1. T \subseteq Nat /\ T # {}
  <2>1. ASSUME NEW x \in S PROVE B - x \in Nat
    <3>1. x \in Int /\ x <= B
      BY <1>0
    <3> QED BY <3>1
  <2> QED BY <2>1
<1> HIDE DEF T
<1>2. PICK t \in T : \A u \in T : t <= u
  BY <1>1, LeastElement
<1>3. PICK x \in S : t = B - x
  BY <1>2 DEF T
<1>4. ASSUME NEW y \in S PROVE x >= y
  <2>1. B - y \in T
    BY DEF T
  <2>2. B - x <= B - y
    BY <1>2, <1>3, <2>1
  <2> QED BY <1>0, <2>2
<1>5. \E z \in S : \A y \in S : z >= y
  BY <1>4
<1>6. Max(S) \in S /\ \A y \in S : Max(S) >= y
  BY <1>5 DEF Max
<1> QED BY <1>6

\* The maximum of a set that has one.
LEMMA MaxIsGreatest ==
  ASSUME NEW S, S \subseteq Int, NEW m \in S, \A x \in S : x <= m
  PROVE  Max(S) = m
<1>1. Max(S) \in S /\ \A x \in S : x <= Max(S)
  <2>1. Bounded(S) /\ S # {}
    BY DEF Bounded
  <2> QED BY <2>1, MaxOfBounded
<1>2. m \in Int /\ Max(S) \in Int /\ m <= Max(S) /\ Max(S) <= m
  BY <1>1
<1> QED BY <1>2

-----------------------------------------------------------------------------
GroupsOf(used) == {Group(e) : e \in used}

\* What is archived was admitted and is not admitted again.
Admitted ==
  /\ \A e \in db.evidence : e.obs \in seen \ taken
  /\ \A o \in taken : TimeOf[o] <= now
  /\ tx # NoTx => tx.copy.evidence \subseteq db.evidence

\* Of the provenance records that wait for a commit there is a newest.
RecordsBounded == Bounded(child.undrained) /\ (tx # NoTx => Bounded(tx.update.records))

\* A transaction belongs to the revision that is to be committed next.
Working == tx # NoTx => todo # <<>>

Typed == TypeOK /\ Admitted /\ RecordsBounded /\ Working

-----------------------------------------------------------------------------
(***************************************************************************)
(* Maxima, finite sets and the parts of a record.                          *)
(***************************************************************************)
LEMMA LatestIs ==
  ASSUME NEW n \in Int, NEW R, Bounded(R)
  PROVE  /\ Latest(n, R) \in {n} \cup R
         /\ n <= Latest(n, R) /\ \A r \in R : r <= Latest(n, R)
<1> PICK B \in Int : \A r \in R : r <= B
  BY DEF Bounded
<1>1. R \subseteq Int
  BY DEF Bounded
<1> DEFINE S == {n} \cup R
           C == IF n <= B THEN B ELSE n
<1>2. C \in Int /\ \A x \in S : x <= C
  BY <1>1
<1>3. Bounded(S) /\ S # {}
  BY <1>1, <1>2 DEF Bounded
<1> HIDE DEF S
<1>4. Max(S) \in S /\ \A x \in S : x <= Max(S)
  BY <1>3, MaxOfBounded
<1> QED BY <1>4 DEF S, Latest

LEMMA LatestOfTwo ==
  ASSUME NEW m \in Int, NEW n \in Int
  PROVE  Latest(m, {n}) = IF m <= n THEN n ELSE m
<1>1. Bounded({n})
  BY DEF Bounded
<1>2. Latest(m, {n}) \in {m, n} /\ m <= Latest(m, {n}) /\ n <= Latest(m, {n})
  BY <1>1, LatestIs
<1> QED BY <1>2

LEMMA BoundedSets ==
  /\ Bounded({})
  /\ \A R : \A n \in Int : Bounded(R) => Bounded(R \cup {n})
  /\ \A n \in Int : Bounded({n})
<1>1. Bounded({})
  <2>1. 0 \in Int /\ \A x \in {} : x <= 0
    OBVIOUS
  <2> QED BY <2>1 DEF Bounded
<1>2. ASSUME NEW R, NEW n \in Int, Bounded(R) PROVE Bounded(R \cup {n})
  <2>1. PICK B \in Int : \A x \in R : x <= B
    BY <1>2 DEF Bounded
  <2> DEFINE C == IF B <= n THEN n ELSE B
  <2>2. R \subseteq Int
    BY <1>2 DEF Bounded
  <2>3. C \in Int /\ \A x \in R \cup {n} : x <= C
    BY <2>1, <2>2
  <2> HIDE DEF C
  <2> QED BY <2>2, <2>3 DEF Bounded
<1>3. \A n \in Int : {} \cup {n} = {n}
  OBVIOUS
<1> QED BY <1>1, <1>2, <1>3

LEMMA EvidenceFinite == IsFiniteSet(Evidence)
<1> DEFINE F == [o \in Observations |-> EvidenceOf(o, 1)]
<1>1. F \in Surjection(Observations, Evidence)
  BY DEF Surjection, Evidence, EvidenceOf
<1>2. IsFiniteSet(Observations)
  BY PlaneAssumption
<1> QED BY <1>1, <1>2, FS_Surjection

LEMMA GroupsFinite ==
  ASSUME NEW used, used \subseteq Evidence
  PROVE  IsFiniteSet(used) /\ IsFiniteSet(GroupsOf(used)) /\ Cardinality(GroupsOf(used)) \in Nat
<1> DEFINE F == [e \in used |-> Group(e)]
<1>1. IsFiniteSet(used)
  BY EvidenceFinite, FS_Subset
<1>2. F \in Surjection(used, GroupsOf(used))
  BY DEF Surjection, GroupsOf
<1>3. IsFiniteSet(GroupsOf(used))
  BY <1>1, <1>2, FS_Surjection
<1> QED BY <1>1, <1>3, FS_CardinalityType

AllGroups == [obs : Observations, n : {0, 1}]

LEMMA GroupType == \A e \in Evidence : Group(e) \in AllGroups
BY PlaneAssumption DEF Evidence, Group, EvidenceOf, AllGroups

LEMMA AllGroupsFinite ==
  ASSUME NEW G, G \subseteq AllGroups
  PROVE  IsFiniteSet(G) /\ Cardinality(G) \in Nat
<1> DEFINE F == [p \in Observations \X {0, 1} |-> [obs |-> p[1], n |-> p[2]]]
<1>1. F \in Surjection(Observations \X {0, 1}, AllGroups)
  <2>1. F \in [Observations \X {0, 1} -> AllGroups]
    BY DEF AllGroups
  <2>2. ASSUME NEW g \in AllGroups PROVE \E p \in Observations \X {0, 1} : F[p] = g
    <3>1. <<g.obs, g.n>> \in Observations \X {0, 1} /\ F[<<g.obs, g.n>>] = [obs |-> g.obs, n |-> g.n]
      BY DEF AllGroups
    <3>2. g = [obs |-> g.obs, n |-> g.n]
      BY DEF AllGroups
    <3> QED BY <3>1, <3>2
  <2> QED BY <2>1, <2>2 DEF Surjection
<1>2. IsFiniteSet(Observations) /\ IsFiniteSet({0, 1})
  <2>1. IsFiniteSet({0} \cup {1})
    BY FS_Singleton, FS_Union
  <2>2. {0} \cup {1} = {0, 1}
    OBVIOUS
  <2> QED BY <2>1, <2>2, PlaneAssumption
<1>3. IsFiniteSet(Observations \X {0, 1})
  BY <1>2, FS_Product
<1>4. IsFiniteSet(AllGroups)
  BY <1>1, <1>3, FS_Surjection
<1> QED BY <1>4, FS_Subset, FS_CardinalityType

LEMMA DomainFacts ==
  /\ \A b \in Technical : DomainOf(b) = "technical"
  /\ \A b \in Spatial : DomainOf(b) = "spatial"
  /\ \A b \in Ecological : DomainOf(b) = "ecological"
BY Zenon DEF DomainOf, Technical, Spatial, Ecological

LEMMA DomainType == \A b \in Beliefs : DomainOf(b) \in Domains /\ ChainOf(b) \in Chains
BY DomainFacts DEF Beliefs, Domains, ChainOf, Chains, Technical

LEMMA TxFacts ==
  ASSUME TypeOK
  PROVE  /\ tx # NoTx => tx \in Transactions /\ tx.at \in 1 .. 5
         /\ tx.at # 0 => tx # NoTx
BY DEF TypeOK, NoTx, Transactions
-----------------------------------------------------------------------------
(***************************************************************************)
(* The writes of a commit: their types, and the tables all four make.      *)
(***************************************************************************)
LEMMA TableUpdates ==
  ASSUME NEW w \in Tables
  PROVE  /\ \A x \in SUBSET Evidence : [w EXCEPT !.evidence = x] \in Tables
         /\ \A x \in [Chains -> Nat] : [w EXCEPT !.prov = x] \in Tables
         /\ \A x \in [Beliefs -> Rows] : [w EXCEPT !.rows = x] \in Tables
         /\ \A x \in [Beliefs -> SUBSET Evidence] : [w EXCEPT !.uses = x] \in Tables
         /\ \A x \in [Beliefs -> Seq(Revisions)] : [w EXCEPT !.revs = x] \in Tables
<1>1. \A x \in SUBSET Evidence : [w EXCEPT !.evidence = x] \in Tables
  BY DEF Tables
<1>2. \A x \in [Chains -> Nat] : [w EXCEPT !.prov = x] \in Tables
  BY DEF Tables
<1>3. \A x \in [Beliefs -> Rows] : [w EXCEPT !.rows = x] \in Tables
  BY DEF Tables
<1>4. \A x \in [Beliefs -> SUBSET Evidence] : [w EXCEPT !.uses = x] \in Tables
  BY DEF Tables
<1>5. \A x \in [Beliefs -> Seq(Revisions)] : [w EXCEPT !.revs = x] \in Tables
  BY DEF Tables
<1> QED BY <1>1, <1>2, <1>3, <1>4, <1>5

LEMMA TotalType ==
  ASSUME NEW d \in Tables, NEW u \in Updates
  PROVE  IndependentTotal(d, u) \in Nat
<1> DEFINE before == {Group(e) : e \in d.uses[u.belief]}
<1>1. u.belief \in Beliefs /\ u.used \subseteq Evidence
  BY DEF Updates
<1>2. d.rows[u.belief].count \in Nat
  BY <1>1 DEF Tables, Rows
<1>3. IsFiniteSet(GroupsOf(u.used)) /\ GroupsOf(u.used) \ before \subseteq GroupsOf(u.used)
  BY <1>1, GroupsFinite
<1>4. Cardinality(GroupsOf(u.used) \ before) \in Nat
  BY <1>3, FS_Subset, FS_CardinalityType
<1> QED BY <1>2, <1>4 DEF IndependentTotal, GroupsOf

LEMMA ProvenanceWritten ==
  ASSUME NEW w \in Tables, NEW u \in Updates, Bounded(u.records)
  PROVE  /\ InsertProvenance(w, u) \in Tables
         /\ InsertProvenance(w, u).prov[ChainOf(u.belief)] = Latest(w.prov[ChainOf(u.belief)], u.records)
         /\ \A c \in Chains \ {ChainOf(u.belief)} : InsertProvenance(w, u).prov[c] = w.prov[c]
         /\ InsertProvenance(w, u).rows = w.rows /\ InsertProvenance(w, u).uses = w.uses
         /\ InsertProvenance(w, u).revs = w.revs /\ InsertProvenance(w, u).evidence = w.evidence
<1>1. u.belief \in Beliefs /\ u.records \subseteq Nat
  BY DEF Updates
<1>2. ChainOf(u.belief) \in Chains /\ w.prov \in [Chains -> Nat]
  BY <1>1, DomainType DEF Tables
<1>3. Latest(w.prov[ChainOf(u.belief)], u.records) \in Nat
  BY <1>1, <1>2, LatestIs
<1>4. InsertProvenance(w, u) =
        [w EXCEPT !.prov = [w.prov EXCEPT ![ChainOf(u.belief)] = Latest(w.prov[ChainOf(u.belief)], u.records)]]
  BY DEF InsertProvenance
<1> QED BY <1>2, <1>3, <1>4 DEF Tables

LEMMA ContributionsWritten ==
  ASSUME NEW w \in Tables, NEW u \in Updates
  PROVE  /\ InsertContributions(w, u) \in Tables
         /\ InsertContributions(w, u).rows[u.belief] =
              IF w.rows[u.belief] = NoRow THEN [head |-> 0, time |-> u.time, count |-> 0] ELSE w.rows[u.belief]
         /\ InsertContributions(w, u).uses[u.belief] = w.uses[u.belief] \cup u.used
         /\ \A b \in Beliefs \ {u.belief} : /\ InsertContributions(w, u).rows[b] = w.rows[b]
                                            /\ InsertContributions(w, u).uses[b] = w.uses[b]
         /\ InsertContributions(w, u).prov = w.prov
         /\ InsertContributions(w, u).revs = w.revs /\ InsertContributions(w, u).evidence = w.evidence
<1> DEFINE row == IF w.rows[u.belief] = NoRow THEN [head |-> 0, time |-> u.time, count |-> 0] ELSE w.rows[u.belief]
<1>1. u.belief \in Beliefs /\ u.used \subseteq Evidence /\ u.time \in Nat
  BY DEF Updates
<1>2. w.rows \in [Beliefs -> Rows] /\ w.uses \in [Beliefs -> SUBSET Evidence]
  BY DEF Tables
<1>3. row \in Rows
  BY <1>1, <1>2 DEF Rows
<1>4. InsertContributions(w, u) =
        [w EXCEPT !.rows = [w.rows EXCEPT ![u.belief] = row],
                  !.uses = [w.uses EXCEPT ![u.belief] = w.uses[u.belief] \cup u.used]]
  BY DEF InsertContributions
<1> HIDE DEF row
<1>5. /\ InsertContributions(w, u).rows = [w.rows EXCEPT ![u.belief] = row]
      /\ InsertContributions(w, u).uses = [w.uses EXCEPT ![u.belief] = w.uses[u.belief] \cup u.used]
      /\ InsertContributions(w, u).prov = w.prov
      /\ InsertContributions(w, u).revs = w.revs /\ InsertContributions(w, u).evidence = w.evidence
  BY <1>4 DEF Tables
<1>6. InsertContributions(w, u) \in Tables
  <2> DEFINE x == [w.rows EXCEPT ![u.belief] = row]
             y == [w.uses EXCEPT ![u.belief] = w.uses[u.belief] \cup u.used]
  <2>1. x \in [Beliefs -> Rows] /\ y \in [Beliefs -> SUBSET Evidence]
    BY <1>1, <1>2, <1>3
  <2> DEFINE z == [w EXCEPT !.rows = x]
  <2>2. InsertContributions(w, u) = [z EXCEPT !.uses = y]
    BY <1>4 DEF Tables
  <2> HIDE DEF x, y
  <2>3. z \in Tables
    BY <2>1, TableUpdates
  <2> HIDE DEF z
  <2> QED BY <2>1, <2>2, <2>3, TableUpdates
<1>7. /\ InsertContributions(w, u).rows[u.belief] = row
      /\ InsertContributions(w, u).uses[u.belief] = w.uses[u.belief] \cup u.used
      /\ \A b \in Beliefs \ {u.belief} : /\ InsertContributions(w, u).rows[b] = w.rows[b]
                                         /\ InsertContributions(w, u).uses[b] = w.uses[b]
  BY <1>1, <1>2, <1>5
<1> QED BY <1>5, <1>6, <1>7 DEF row

LEMMA RevisionWritten ==
  ASSUME NEW d \in Tables, NEW w \in Tables, NEW u \in Updates
  PROVE  /\ InsertRevision(w, d, u) \in Tables
         /\ InsertRevision(w, d, u).revs[u.belief] = Append(w.revs[u.belief],
              [rev |-> u.rev, kind |-> u.kind, used |-> u.used, time |-> u.time, late |-> u.late,
               root |-> u.root, count |-> IndependentTotal(d, u)])
         /\ \A b \in Beliefs \ {u.belief} : InsertRevision(w, d, u).revs[b] = w.revs[b]
         /\ InsertRevision(w, d, u).prov = w.prov /\ InsertRevision(w, d, u).rows = w.rows
         /\ InsertRevision(w, d, u).uses = w.uses /\ InsertRevision(w, d, u).evidence = w.evidence
<1> DEFINE r == [rev |-> u.rev, kind |-> u.kind, used |-> u.used, time |-> u.time, late |-> u.late,
                 root |-> u.root, count |-> IndependentTotal(d, u)]
<1>1. u.belief \in Beliefs /\ r \in Revisions
  BY TotalType DEF Updates, Revisions
<1>2. w.revs \in [Beliefs -> Seq(Revisions)]
  BY DEF Tables
<1>3. InsertRevision(w, d, u) = [w EXCEPT !.revs = [w.revs EXCEPT ![u.belief] = Append(w.revs[u.belief], r)]]
  BY DEF InsertRevision
<1> HIDE DEF r
<1>4. Append(w.revs[u.belief], r) \in Seq(Revisions)
  BY <1>1, <1>2
<1>5. InsertRevision(w, d, u) \in Tables
  <2>1. [w.revs EXCEPT ![u.belief] = Append(w.revs[u.belief], r)] \in [Beliefs -> Seq(Revisions)]
    BY <1>1, <1>2, <1>4
  <2> QED BY <1>3, <2>1, TableUpdates
<1>6. /\ InsertRevision(w, d, u).revs = [w.revs EXCEPT ![u.belief] = Append(w.revs[u.belief], r)]
      /\ InsertRevision(w, d, u).prov = w.prov /\ InsertRevision(w, d, u).rows = w.rows
      /\ InsertRevision(w, d, u).uses = w.uses /\ InsertRevision(w, d, u).evidence = w.evidence
  BY <1>3 DEF Tables
<1>7. /\ InsertRevision(w, d, u).revs[u.belief] = Append(w.revs[u.belief], r)
      /\ \A b \in Beliefs \ {u.belief} : InsertRevision(w, d, u).revs[b] = w.revs[b]
  BY <1>1, <1>2, <1>6
<1> QED BY <1>5, <1>6, <1>7 DEF r

LEMMA HeadWritten ==
  ASSUME NEW d \in Tables, NEW w \in Tables, NEW u \in Updates
  PROVE  /\ MoveHead(w, d, u) \in Tables
         /\ MoveHead(w, d, u).rows[u.belief] =
              [head |-> u.rev, time |-> Latest(w.rows[u.belief].time, {u.time}), count |-> IndependentTotal(d, u)]
         /\ \A b \in Beliefs \ {u.belief} : MoveHead(w, d, u).rows[b] = w.rows[b]
         /\ MoveHead(w, d, u).prov = w.prov /\ MoveHead(w, d, u).revs = w.revs
         /\ MoveHead(w, d, u).uses = w.uses /\ MoveHead(w, d, u).evidence = w.evidence
<1> DEFINE row == [head |-> u.rev, time |-> Latest(w.rows[u.belief].time, {u.time}), count |-> IndependentTotal(d, u)]
<1>1. u.belief \in Beliefs /\ u.time \in Nat /\ u.rev \in Nat
  BY DEF Updates
<1>2. w.rows \in [Beliefs -> Rows] /\ w.rows[u.belief].time \in Nat \cup {-1}
  BY <1>1 DEF Tables, Rows
<1>3. Latest(w.rows[u.belief].time, {u.time}) \in Nat
  BY <1>1, <1>2, LatestOfTwo
<1>4. row \in Rows
  BY <1>1, <1>3, TotalType DEF Rows
<1>5. MoveHead(w, d, u) = [w EXCEPT !.rows = [w.rows EXCEPT ![u.belief] = row]]
  BY DEF MoveHead
<1> HIDE DEF row
<1>6. MoveHead(w, d, u) \in Tables
  <2>1. [w.rows EXCEPT ![u.belief] = row] \in [Beliefs -> Rows]
    BY <1>1, <1>2, <1>4
  <2> QED BY <1>5, <2>1, TableUpdates
<1>7. /\ MoveHead(w, d, u).rows = [w.rows EXCEPT ![u.belief] = row]
      /\ MoveHead(w, d, u).prov = w.prov /\ MoveHead(w, d, u).revs = w.revs
      /\ MoveHead(w, d, u).uses = w.uses /\ MoveHead(w, d, u).evidence = w.evidence
  BY <1>5 DEF Tables
<1>8. /\ MoveHead(w, d, u).rows[u.belief] = row
      /\ \A b \in Beliefs \ {u.belief} : MoveHead(w, d, u).rows[b] = w.rows[b]
  BY <1>1, <1>2, <1>7
<1> QED BY <1>6, <1>7, <1>8 DEF row

-----------------------------------------------------------------------------
(***************************************************************************)
(* What admission makes of a batch of deliveries.                          *)
(***************************************************************************)
Admissions ==
  {a \in [seen : SUBSET Observations, newest : [Sensors -> Nat \cup {-1}], taken : SUBSET Observations] :
     seen \subseteq a.seen /\ a.taken \subseteq a.seen \ seen /\ \A o \in a.taken : TimeOf[o] <= now}

LEMMA AdmitKeeps ==
  ASSUME NEW a \in Admissions, NEW o \in Observations, TimeOf[o] <= now, NEW corrupt
  PROVE  Admit(a, o, corrupt) \in Admissions
<1>1. TimeOf[o] \in Nat /\ SensorOf[o] \in Sensors
  BY PlaneAssumption DEF Sensors
<1>2. a.newest \in [Sensors -> Nat \cup {-1}]
  BY DEF Admissions
<1>3. Latest(a.newest[SensorOf[o]], {TimeOf[o]}) \in Nat \cup {-1}
  BY <1>1, <1>2, LatestOfTwo
<1> DEFINE x == [a.newest EXCEPT ![SensorOf[o]] = Latest(@, {TimeOf[o]})]
<1>4. x \in [Sensors -> Nat \cup {-1}]
  BY <1>2, <1>3
<1>5. [a EXCEPT !.seen = @ \cup {o}] \in Admissions
  BY DEF Admissions
<1>6. o \notin a.seen => [seen |-> a.seen \cup {o}, taken |-> a.taken \cup {o}, newest |-> x] \in Admissions
  <2> HIDE DEF x
  <2> QED BY <1>4 DEF Admissions
<1> QED BY <1>5, <1>6 DEF Admit

LEMMA BatchAdmitted ==
  ASSUME TypeOK, NEW n \in Nat, NEW batch \in [1 .. n -> {o \in Observations : TimeOf[o] <= now}], NEW corrupt
  PROVE  AfterBatch(batch, corrupt) \in Admissions
<1> DEFINE s == [seen |-> seen, newest |-> newest, taken |-> {}]
           F == [i \in 1 .. n |-> [a \in Admissions |-> Admit(a, batch[i], corrupt)]]
           Solves(f) == f = [i \in 0 .. n |-> IF i = 0 THEN s ELSE Admit(f[i - 1], batch[i], corrupt)]
           after == CHOOSE f : Solves(f)
<1>1. s \in Admissions
  BY DEF Admissions, TypeOK
<1>2. ASSUME NEW a \in Admissions, NEW i \in 1 .. n PROVE Admit(a, batch[i], corrupt) \in Admissions
  <2>1. batch[i] \in Observations /\ TimeOf[batch[i]] <= now
    OBVIOUS
  <2> QED BY <2>1, AdmitKeeps
<1>3. F \in [1 .. n -> [Admissions -> Admissions]]
  BY <1>2
<1>4. \A i \in 1 .. n, a \in Admissions : F[i][a] = Admit(a, batch[i], corrupt)
  OBVIOUS
<1> HIDE DEF F, s
<1>5. PICK g : Run(Admissions, s, F, n, g)
  BY <1>1, <1>3, Iterates
<1>6. Solves(g)
  <2>1. g \in [0 .. n -> Admissions] /\ g[0] = s
    BY <1>5 DEF Run
  <2>2. ASSUME NEW i \in 1 .. n PROVE g[i] = Admit(g[i - 1], batch[i], corrupt)
    <3>1. g[i] = F[i][g[i - 1]] /\ g[i - 1] \in Admissions
      BY <1>5, <2>1 DEF Run
    <3> QED BY <1>4, <3>1
  <2>3. \A i \in 0 .. n : g[i] = IF i = 0 THEN s ELSE Admit(g[i - 1], batch[i], corrupt)
    BY <2>1, <2>2
  <2>4. g = [i \in 0 .. n |-> g[i]]
    BY <2>1
  <2> QED BY <2>3, <2>4
<1>7. Solves(after)
  BY <1>6
<1>8. Len(batch) = n
  OBVIOUS
<1>9. AfterBatch(batch, corrupt) = after[n]
  BY <1>8 DEF AfterBatch, s
<1> HIDE DEF after
<1> DEFINE T == {i \in 0 .. n : after[i] \in Admissions}
<1>10. 0 \in T
  BY <1>1, <1>7
<1>11. ASSUME NEW i \in 1 .. n, i - 1 \in T PROVE i \in T
  <2>1. after[i] = Admit(after[i - 1], batch[i], corrupt)
    BY <1>7
  <2> QED BY <1>2, <1>11, <2>1
<1> HIDE DEF T
<1>12. n \in T
  BY <1>10, <1>11, IntervalInduction
<1> QED BY <1>9, <1>12 DEF T

-----------------------------------------------------------------------------
(***************************************************************************)
(* What a child plans: revisions of different beliefs of its domain.       *)
(***************************************************************************)
Sound(r, domain, used) ==
  /\ r \in Planned /\ DomainOf(r.belief) = domain /\ r.used \subseteq used
  /\ r.kind \in {"DIRECT", "RELATIONAL"} /\ (r.kind = "DIRECT" <=> r.used # {})

SoundPlan(plan, domain, used) ==
  /\ plan \in Seq(Planned)
  /\ \A i \in DOMAIN plan : Sound(plan[i], domain, used)
  /\ \A i, j \in DOMAIN plan : i # j => plan[i].belief # plan[j].belief

LEMMA ShortPlans ==
  ASSUME NEW domain, NEW used
  PROVE  /\ SoundPlan(<<>>, domain, used)
         /\ \A r : Sound(r, domain, used) => SoundPlan(<<r>>, domain, used) /\ <<r>> # <<>>
         /\ \A r, s : Sound(r, domain, used) /\ Sound(s, domain, used) /\ r.belief # s.belief
                        => /\ SoundPlan(<<r, s>>, domain, used) /\ SoundPlan(Append(<<r>>, s), domain, used)
                           /\ <<r, s>> # <<>> /\ Append(<<r>>, s) # <<>>
<1>1. SoundPlan(<<>>, domain, used)
  BY DEF SoundPlan
<1>2. ASSUME NEW r, Sound(r, domain, used) PROVE SoundPlan(<<r>>, domain, used) /\ <<r>> # <<>>
  BY <1>2 DEF SoundPlan, Sound
<1>3. ASSUME NEW r, NEW s, Sound(r, domain, used), Sound(s, domain, used), r.belief # s.belief
      PROVE  /\ SoundPlan(<<r, s>>, domain, used) /\ SoundPlan(Append(<<r>>, s), domain, used)
             /\ <<r, s>> # <<>> /\ Append(<<r>>, s) # <<>>
  <2>1. r \in Planned /\ s \in Planned
    BY <1>3 DEF Sound
  <2>2. <<r, s>> \in Seq(Planned) /\ DOMAIN <<r, s>> = 1 .. 2 /\ <<r, s>>[1] = r /\ <<r, s>>[2] = s
    BY <2>1
  <2>3. <<r>> \in Seq(Planned) /\ Len(<<r>>) = 1 /\ <<r>>[1] = r
    BY <2>1
  <2>4. /\ Append(<<r>>, s) \in Seq(Planned) /\ DOMAIN Append(<<r>>, s) = 1 .. 2
        /\ Append(<<r>>, s)[1] = r /\ Append(<<r>>, s)[2] = s
    BY <2>1, <2>3
  <2> QED BY <1>3, <2>2, <2>4 DEF SoundPlan
<1> QED BY <1>1, <1>2, <1>3

LEMMA NewestTime ==
  ASSUME now \in Nat, NEW used, used \subseteq Evidence, \A e \in used : TimeOf[e.obs] <= now,
         NEW floor \in Nat \cup {-1}
  PROVE  LET t == Max({TimeOf[e.obs] : e \in used} \cup {floor})
         IN t \in Nat \cup {-1} /\ floor <= t /\ (used # {} => t \in Nat)
<1> DEFINE S == {TimeOf[e.obs] : e \in used} \cup {floor}
           B == IF floor <= now THEN now ELSE floor
<1>1. \A e \in used : TimeOf[e.obs] \in Nat
  BY PlaneAssumption DEF Evidence
<1>2. S \subseteq Nat \cup {-1} /\ B \in Int /\ \A x \in S : x <= B
  BY <1>1
<1>3. Bounded(S) /\ S # {} /\ floor \in S
  BY <1>2 DEF Bounded
<1>4. \A e \in used : TimeOf[e.obs] \in S
  OBVIOUS
<1> HIDE DEF S
<1>5. Max(S) \in S /\ \A x \in S : x <= Max(S)
  BY <1>3, MaxOfBounded
<1>6. used # {} => Max(S) \in Nat
  <2> HAVE used # {}
  <2>1. PICK e \in used : TRUE
    OBVIOUS
  <2> DEFINE t == TimeOf[e.obs]
             M == Max(S)
  <2>2. t \in Nat /\ t \in S
    BY <1>1, <1>4
  <2> HIDE DEF t
  <2>3. t <= M /\ M \in Nat \cup {-1}
    BY <1>2, <1>5, <2>2
  <2> HIDE DEF M
  <2>4. M \in Nat
    BY <2>2, <2>3
  <2> QED BY <2>4 DEF M
<1>7. Max(S) \in Nat \cup {-1} /\ floor <= Max(S) /\ (used # {} => Max(S) \in Nat)
  BY <1>2, <1>3, <1>5, <1>6
<1> QED BY <1>7 DEF S

LEMMA DirectIsSound ==
  ASSUME now \in Nat, NEW used, used \subseteq Evidence, \A e \in used : TimeOf[e.obs] <= now,
         NEW mine, mine \subseteq used, mine # {}, NEW floor \in Nat \cup {-1}, NEW b \in Beliefs
  PROVE  Sound(Direct(b, mine, floor), DomainOf(b), used)
<1> DEFINE t == Max({TimeOf[e.obs] : e \in mine} \cup {floor})
<1>1. t \in Nat
  BY NewestTime
<1>2. Direct(b, mine, floor) = [belief |-> b, kind |-> "DIRECT", used |-> mine, time |-> t]
  BY DEF Direct, Revise
<1> HIDE DEF t
<1> QED BY <1>1, <1>2 DEF Sound, Planned, Kinds

LEMMA RelationalIsSound ==
  ASSUME NEW used, NEW t \in Nat, NEW b \in Beliefs
  PROVE  Sound(Revise(b, "RELATIONAL", {}, t), DomainOf(b), used)
BY DEF Sound, Planned, Kinds, Revise

LEMMA PlansAreSound ==
  ASSUME TypeOK, NEW domain \in Domains, NEW used, used \subseteq Evidence, used # {},
         \A e \in used : TimeOf[e.obs] <= now, NEW plan \in Plans(domain, used)
  PROVE  SoundPlan(plan, domain, used) /\ plan # <<>>
<1>1. now \in Nat /\ child.time["field"] \in Nat \cup {-1} /\ child.time["entity"] \in Nat \cup {-1}
  BY DEF TypeOK, Memories, Chains, Ecological
<1>2. \A b \in {"block", "asset", "component", "surface", "field", "entity"} : b \in Beliefs
  BY DEF Beliefs, Technical, Spatial, Ecological
<1>3. /\ DomainOf("block") = "spatial" /\ DomainOf("asset") = "spatial"
      /\ DomainOf("component") = "technical" /\ DomainOf("surface") = "technical"
      /\ DomainOf("field") = "ecological" /\ DomainOf("entity") = "ecological"
  BY DomainFacts DEF Technical, Spatial, Ecological
<1>4. CASE domain = "spatial"
  <2>1. Plans(domain, used) = SpatialPlans(used)
    BY <1>4, Zenon DEF Plans
  <2>2. Sound(Direct("block", used, 0), domain, used) /\ Sound(Direct("asset", used, 0), domain, used)
    BY <1>1, <1>2, <1>3, <1>4, DirectIsSound
  <2>3. Direct("block", used, 0).belief # Direct("asset", used, 0).belief
    BY DEF Direct, Revise
  <2> QED BY <2>1, <2>2, <2>3, ShortPlans DEF SpatialPlans
<1>5. CASE domain = "technical"
  <2>1. Plans(domain, used) = TechnicalPlans(used)
    BY <1>5, Zenon DEF Plans
  <2>2. Sound(Direct("component", used, 0), domain, used) /\ Sound(Direct("surface", used, 0), domain, used)
    BY <1>1, <1>2, <1>3, <1>5, DirectIsSound
  <2>3. Sound(Revise("component", "RELATIONAL", {}, now), domain, used)
    BY <1>1, <1>2, <1>3, <1>5, RelationalIsSound
  <2>4. Direct("surface", used, 0).belief # Revise("component", "RELATIONAL", {}, now).belief
    BY DEF Direct, Revise
  <2> QED BY <2>1, <2>2, <2>3, <2>4, ShortPlans DEF TechnicalPlans
<1>6. CASE domain = "ecological"
  <2> DEFINE probed == {e \in used : e.obs \in Probe}
             surveyed == used \ probed
             fieldTime == Max({TimeOf[e.obs] : e \in probed} \cup {child.time["field"]})
             fieldPlan == IF probed = {} THEN <<>> ELSE <<Direct("field", probed, fieldTime)>>
             coupled == (probed # {} \/ child.count["field"] > 0) /\ (surveyed # {} \/ child.count["entity"] > 0)
             F == {child.time["entity"]} \cup IF coupled THEN {fieldTime} ELSE {}
             floor == Max(F)
  <2>1. Plans(domain, used) = EcologicalPlans(used)
    BY <1>6, Zenon DEF Plans
  <2>2. EcologicalPlans(used) =
          IF surveyed # {} THEN {Append(fieldPlan, Direct("entity", surveyed, floor))}
          ELSE {fieldPlan} \cup IF coupled THEN {Append(fieldPlan, Revise("entity", "RELATIONAL", {}, floor))} ELSE {}
    BY DEF EcologicalPlans
  <2>3. probed \subseteq used /\ surveyed \subseteq used /\ (surveyed = {} => probed # {})
    OBVIOUS
  <2>4. fieldTime \in Nat \cup {-1} /\ (probed # {} => fieldTime \in Nat)
    BY <1>1, <2>3, NewestTime
  <2> HIDE DEF fieldTime, probed, surveyed, coupled
  <2>5. floor \in Nat \cup {-1} /\ (coupled /\ probed # {} => floor \in Nat)
    <3>1. F \subseteq Nat \cup {-1} /\ F # {} /\ (coupled => fieldTime \in F)
      BY <1>1, <2>4
    <3>2. Bounded(F)
      <4> DEFINE B == IF child.time["entity"] <= fieldTime THEN fieldTime ELSE child.time["entity"]
      <4>1. B \in Int /\ child.time["entity"] <= B /\ fieldTime <= B
        BY <1>1, <2>4
      <4>2. F \subseteq {child.time["entity"], fieldTime}
        OBVIOUS
      <4>3. F \subseteq Int
        BY <3>1
      <4> HIDE DEF B, F
      <4>4. \A x \in F : x <= B
        BY <4>1, <4>2
      <4> QED BY <4>1, <4>3, <4>4 DEF Bounded
    <3> HIDE DEF F
    <3>3. Max(F) \in F /\ \A x \in F : x <= Max(F)
      BY <3>1, <3>2, MaxOfBounded
    <3>4. floor \in Nat \cup {-1}
      BY <3>1, <3>3
    <3>5. coupled => fieldTime <= floor
      BY <3>1, <3>3
    <3> HIDE DEF floor
    <3> QED BY <2>4, <3>4, <3>5
  <2> HIDE DEF floor
  <2> DEFINE f == Direct("field", probed, fieldTime)
             d == Direct("entity", surveyed, floor)
             e == Revise("entity", "RELATIONAL", {}, floor)
  <2>6. probed # {} => Sound(f, domain, used)
    BY <1>1, <1>2, <1>3, <1>6, <2>3, <2>4, DirectIsSound
  <2>7. surveyed # {} => Sound(d, domain, used)
    BY <1>1, <1>2, <1>3, <1>6, <2>3, <2>5, DirectIsSound
  <2>8. coupled /\ probed # {} => Sound(e, domain, used)
    BY <1>2, <1>3, <1>6, <2>5, RelationalIsSound
  <2>9. f.belief # d.belief /\ f.belief # e.belief
    BY DEF Direct, Revise
  <2>10. plan \in IF surveyed # {} THEN {Append(fieldPlan, d)}
                  ELSE {fieldPlan} \cup IF coupled THEN {Append(fieldPlan, e)} ELSE {}
    BY <2>1, <2>2
  <2>11. \A r : Append(<<>>, r) = <<r>>
    OBVIOUS
  <2> HIDE DEF f, d, e
  <2>12. probed = {} => SoundPlan(Append(<<>>, d), domain, used) /\ Append(<<>>, d) # <<>>
    BY <2>3, <2>7, <2>11, ShortPlans
  <2>13. probed # {} =>
           /\ SoundPlan(<<f>>, domain, used) /\ <<f>> # <<>>
           /\ surveyed # {} => SoundPlan(Append(<<f>>, d), domain, used) /\ Append(<<f>>, d) # <<>>
           /\ coupled => SoundPlan(Append(<<f>>, e), domain, used) /\ Append(<<f>>, e) # <<>>
    <3> HAVE probed # {}
    <3>1. SoundPlan(<<f>>, domain, used) /\ <<f>> # <<>>
      BY <2>6, ShortPlans
    <3>2. surveyed # {} => SoundPlan(Append(<<f>>, d), domain, used) /\ Append(<<f>>, d) # <<>>
      BY <2>6, <2>7, <2>9, ShortPlans
    <3>3. coupled => SoundPlan(Append(<<f>>, e), domain, used) /\ Append(<<f>>, e) # <<>>
      BY <2>6, <2>8, <2>9, ShortPlans
    <3> QED BY <3>1, <3>2, <3>3
  <2>14. fieldPlan = IF probed = {} THEN <<>> ELSE <<f>>
    BY DEF f
  <2> HIDE DEF fieldPlan
  <2> QED BY <2>3, <2>10, <2>12, <2>13, <2>14
<1> QED BY <1>4, <1>5, <1>6 DEF Domains

-----------------------------------------------------------------------------
(***************************************************************************)
(* The types are kept by every action.                                     *)
(***************************************************************************)
LEMMA MemoryUpdates ==
  ASSUME NEW c \in Memories
  PROVE  /\ \A x \in [Beliefs -> Nat \cup {-1}] : [c EXCEPT !.rev = x] \in Memories
         /\ \A x \in [Chains -> Nat \cup {-1}] : [c EXCEPT !.time = x] \in Memories
         /\ \A x \in [Chains -> Nat] : [c EXCEPT !.root = x] \in Memories
         /\ \A x \in [Ecological -> Nat] : [c EXCEPT !.count = x] \in Memories
         /\ \A x \in SUBSET Nat : [c EXCEPT !.undrained = x] \in Memories
         /\ \A x \in SUBSET AllGroups : [c EXCEPT !.groups = x] \in Memories
<1>1. \A x \in [Beliefs -> Nat \cup {-1}] : [c EXCEPT !.rev = x] \in Memories
  BY DEF Memories
<1>2. \A x \in [Chains -> Nat \cup {-1}] : [c EXCEPT !.time = x] \in Memories
  BY DEF Memories
<1>3. \A x \in [Chains -> Nat] : [c EXCEPT !.root = x] \in Memories
  BY DEF Memories
<1>4. \A x \in [Ecological -> Nat] : [c EXCEPT !.count = x] \in Memories
  BY DEF Memories
<1>5. \A x \in SUBSET Nat : [c EXCEPT !.undrained = x] \in Memories
  BY DEF Memories
<1>6. \A x \in SUBSET AllGroups : [c EXCEPT !.groups = x] \in Memories
  BY DEF Memories, AllGroups
<1> QED BY <1>1, <1>2, <1>3, <1>4, <1>5, <1>6

LEMMA InitTyped ==
  ASSUME Init
  PROVE  Typed
<1>1. "component" \in Chains /\ Created \subseteq Beliefs
  BY DEF Created, Chains, Beliefs, Technical, Ecological
<1>2. First \in Revisions
  BY DEF First, Revisions, Kinds
<1>3. <<First>> \in Seq(Revisions) /\ <<>> \in Seq(Revisions) /\ NoRow \in Rows
  BY <1>2 DEF NoRow, Rows
<1>4. db \in Tables /\ db.evidence = {}
  <2>1. db = [evidence |-> {},
              prov |-> [c \in Chains |-> IF c \in Created THEN 1 ELSE 0],
              rows |-> [b \in Beliefs |-> IF b \in Created THEN [head |-> 0, time |-> 0, count |-> 0] ELSE NoRow],
              uses |-> [b \in Beliefs |-> {}],
              revs |-> [b \in Beliefs |-> IF b \in Created THEN <<First>> ELSE <<>>]]
    BY DEF Init, EmptyTables
  <2>2. [b \in Beliefs |-> IF b \in Created THEN [head |-> 0, time |-> 0, count |-> 0] ELSE NoRow] \in [Beliefs -> Rows]
    BY <1>3 DEF Rows
  <2>3. [b \in Beliefs |-> IF b \in Created THEN <<First>> ELSE <<>>] \in [Beliefs -> Seq(Revisions)]
    BY <1>3
  <2>4. /\ [c \in Chains |-> IF c \in Created THEN 1 ELSE 0] \in [Chains -> Nat]
        /\ [b \in Beliefs |-> {}] \in [Beliefs -> SUBSET Evidence]
    OBVIOUS
  <2> QED BY <2>1, <2>2, <2>3, <2>4 DEF Tables
<1>5. child \in Memories /\ child.undrained = {}
  <2>1. child = [rev |-> [b \in Beliefs |-> IF b \in Created THEN 0 ELSE -1],
                 time |-> [c \in Chains |-> IF c \in Created THEN 0 ELSE -1],
                 root |-> [c \in Chains |-> IF c \in Created THEN 1 ELSE 0],
                 count |-> [b \in Ecological |-> 0],
                 undrained |-> {},
                 groups |-> {}]
    BY DEF Init
  <2>2. /\ [b \in Beliefs |-> IF b \in Created THEN 0 ELSE -1] \in [Beliefs -> Nat \cup {-1}]
        /\ [c \in Chains |-> IF c \in Created THEN 0 ELSE -1] \in [Chains -> Nat \cup {-1}]
        /\ [c \in Chains |-> IF c \in Created THEN 1 ELSE 0] \in [Chains -> Nat]
        /\ [b \in Ecological |-> 0] \in [Ecological -> Nat]
    OBVIOUS
  <2> QED BY <2>1, <2>2 DEF Memories
<1>6. bus \in [Beliefs -> Heads]
  <2>1. NoMessage \in Heads /\ [NoMessage EXCEPT !.rev = 0] \in Heads
    BY DEF NoMessage, Heads
  <2> QED BY <2>1 DEF Init
<1>7. newest \in [Sensors -> Nat \cup {-1}]
  BY DEF Init
<1>8. TypeOK
  BY <1>4, <1>5, <1>6, <1>7 DEF Init, TypeOK
<1>9. Admitted
  BY <1>4 DEF Init, Admitted
<1>10. RecordsBounded
  BY <1>5, BoundedSets DEF Init, RecordsBounded
<1>11. Working
  BY DEF Init, Working
<1> QED BY <1>8, <1>9, <1>10, <1>11 DEF Typed

LEMMA SenseTyped ==
  ASSUME Typed, Sense
  PROVE  Typed'
<1> USE DEF Typed
<1>1. PICK batch \in SeqOf({o \in Observations : TimeOf[o] <= now}, MaxBatch) :
        /\ delivered' = delivered + Len(batch)
        /\ \E corrupt \in {{}} \cup {{o} : o \in ToSet(batch)} :
             LET a == AfterBatch(batch, corrupt)
             IN seen' = a.seen /\ newest' = a.newest /\ taken' = a.taken
  BY DEF Sense
<1>2. PICK corrupt :
        LET a == AfterBatch(batch, corrupt)
        IN seen' = a.seen /\ newest' = a.newest /\ taken' = a.taken
  BY <1>1
<1>3. PICK n \in 0 .. MaxBatch : batch \in [1 .. n -> {o \in Observations : TimeOf[o] <= now}]
  BY <1>1 DEF SeqOf
<1>4. n \in Nat /\ Len(batch) = n
  BY <1>3, PlaneAssumption
<1> DEFINE a == AfterBatch(batch, corrupt)
<1>5. a \in Admissions
  BY <1>3, <1>4, BatchAdmitted
<1>6. seen' = a.seen /\ newest' = a.newest /\ taken' = a.taken
  BY <1>2
<1> HIDE DEF a
<1>7. /\ seen' \subseteq Observations /\ taken' \subseteq seen' \ seen /\ seen \subseteq seen'
      /\ newest' \in [Sensors -> Nat \cup {-1}] /\ \A o \in taken' : TimeOf[o] <= now
  BY <1>5, <1>6 DEF Admissions
<1>8. /\ now' = now /\ phase' = "spatial" /\ faults' = faults /\ db' = db /\ tx' = tx /\ child' = child
      /\ failed' = failed /\ todo' = todo /\ made' = made /\ out' = out /\ bus' = bus /\ need' = need
      /\ delivered' \in Nat
  BY <1>1, <1>4 DEF Sense, store, work, TypeOK
<1>9. TypeOK'
  BY <1>7, <1>8 DEF TypeOK, Domains
<1>10. Admitted'
  BY <1>7, <1>8 DEF Admitted
<1>11. RecordsBounded'
  BY <1>8 DEF RecordsBounded
<1>12. Working'
  BY <1>8 DEF Working
<1> QED BY <1>9, <1>10, <1>11, <1>12

LEMMA EncodedType ==
  ASSUME Typed, NEW o \in taken
  PROVE  Encoded(o) = EvidenceOf(o, 1) /\ Encoded(o) \in Evidence /\ Encoded(o).obs = o
<1>1. {e \in db.evidence : e.obs = o} = {}
  BY DEF Typed, Admitted
<1>2. 1 + Cardinality({}) = 1
  BY FS_EmptySet
<1>3. Encoded(o) = EvidenceOf(o, 1)
  BY <1>1, <1>2 DEF Encoded
<1>4. o \in Observations
  BY DEF Typed, TypeOK
<1> QED BY <1>3, <1>4 DEF EvidenceOf, Evidence

\* What a child archives is evidence of what was taken.
LEMMA ArchivedType ==
  ASSUME Typed, NEW domain \in Domains
  PROVE  LET used == {Encoded(o) : o \in taken \cap Of(domain)}
         IN /\ used \subseteq Evidence
            /\ \A e \in used : e.obs \in taken \cap Of(domain) /\ TimeOf[e.obs] <= now
            /\ taken \cap Of(domain) # {} => used # {}
<1> DEFINE used == {Encoded(o) : o \in taken \cap Of(domain)}
<1>1. \A o \in taken : Encoded(o) \in Evidence /\ Encoded(o).obs = o /\ TimeOf[o] <= now
  BY EncodedType DEF Typed, Admitted
<1>2. \A e \in used : e \in Evidence /\ e.obs \in taken \cap Of(domain) /\ TimeOf[e.obs] <= now
  BY <1>1
<1> QED BY <1>2

LEMMA RememberType ==
  ASSUME NEW c \in Memories, Bounded(c.undrained), NEW domain, NEW used, used \subseteq Evidence
  PROVE  Remember(c, domain, used) \in Memories /\ Bounded(Remember(c, domain, used).undrained)
<1>1. CASE domain # "technical"
  BY <1>1 DEF Remember
<1>2. CASE domain = "technical"
  <2> DEFINE n == c.root["component"] + 1
             x == [c.root EXCEPT !["component"] = n]
             y == c.undrained \cup {n}
             z == c.groups \cup GroupsOf(used)
             d == [c EXCEPT !.root = x]
             e == [d EXCEPT !.undrained = y]
  <2>1. c.root \in [Chains -> Nat] /\ c.undrained \subseteq Nat /\ c.groups \subseteq AllGroups
    BY DEF Memories, AllGroups
  <2>2. n \in Nat /\ x \in [Chains -> Nat]
    BY <2>1 DEF Chains
  <2>3. y \subseteq Nat /\ Bounded(y)
    BY <2>1, <2>2, BoundedSets
  <2>4. z \subseteq AllGroups
    BY <2>1, GroupType DEF GroupsOf
  <2>5. Remember(c, domain, used) = [c EXCEPT !.root = x, !.undrained = y, !.groups = z]
    BY <1>2 DEF Remember, GroupsOf
  <2> HIDE DEF x, y, z
  <2>6. Remember(c, domain, used) = [e EXCEPT !.groups = z]
    BY <2>5 DEF Memories
  <2>7. d \in Memories
    BY <2>2, MemoryUpdates
  <2> HIDE DEF d
  <2>8. e \in Memories
    BY <2>3, <2>7, MemoryUpdates
  <2> HIDE DEF e
  <2>9. Remember(c, domain, used) \in Memories
    BY <2>4, <2>6, <2>8, MemoryUpdates
  <2>10. Remember(c, domain, used).undrained = y
    BY <2>5 DEF Memories
  <2> QED BY <2>3, <2>9, <2>10
<1> QED BY <1>1, <1>2

LEMMA IngestTyped ==
  ASSUME Typed, NEW domain \in Domains, Ingest(domain)
  PROVE  Typed'
<1> DEFINE used == {Encoded(o) : o \in taken \cap Of(domain)}
<1>1. /\ used \subseteq Evidence /\ used # {}
      /\ \A e \in used : e.obs \in taken \cap Of(domain) /\ TimeOf[e.obs] <= now
  BY ArchivedType DEF Ingest
<1>2. /\ db' = PutEvidence(db, used) /\ child' = Remember(child, domain, used)
      /\ \E plan \in Plans(domain, used) : todo' = plan
      /\ taken' = taken \ Of(domain)
      /\ now' = now /\ phase' = phase /\ seen' = seen /\ newest' = newest /\ tx' = tx /\ failed' = failed
      /\ made' = made /\ out' = out /\ bus' = bus /\ need' = need /\ delivered' = delivered /\ faults' = faults
  BY DEF Ingest, bounds
<1> HIDE DEF used
<1>3. TypeOK /\ db \in Tables /\ child \in Memories /\ Bounded(child.undrained)
  BY DEF Typed, TypeOK, RecordsBounded
<1>4. db' \in Tables /\ db'.evidence = db.evidence \cup used
  <2>1. db.evidence \cup used \in SUBSET Evidence
    BY <1>1, <1>3 DEF Tables
  <2>2. db' = [db EXCEPT !.evidence = db.evidence \cup used]
    BY <1>2 DEF PutEvidence
  <2>3. db'.evidence = db.evidence \cup used
    BY <1>3, <2>2 DEF Tables
  <2> QED BY <1>3, <2>1, <2>2, <2>3, TableUpdates
<1>5. child' \in Memories /\ Bounded(child'.undrained)
  BY <1>1, <1>2, <1>3, RememberType
<1>6. todo' \in Seq(Planned) /\ todo' # <<>>
  BY <1>1, <1>2, <1>3, PlansAreSound DEF SoundPlan
<1>7. TypeOK'
  BY <1>2, <1>3, <1>4, <1>5, <1>6 DEF TypeOK
<1>8. Admitted'
  BY <1>1, <1>2, <1>3, <1>4 DEF Typed, Admitted, TypeOK
<1>9. RecordsBounded'
  BY <1>2, <1>5 DEF Typed, RecordsBounded
<1>10. Working'
  BY <1>6 DEF Working
<1> QED BY <1>7, <1>8, <1>9, <1>10 DEF Typed

LEMMA LeaveTyped ==
  ASSUME Typed, NEW domain \in Domains, Leave(domain)
  PROVE  Typed'
<1>1. /\ phase' = NextPhase[domain] /\ out' = out \o made /\ made' = <<>>
      /\ now' = now /\ seen' = seen /\ newest' = newest /\ taken' = taken /\ db' = db /\ tx' = tx
      /\ child' = child /\ failed' = failed /\ todo' = todo /\ bus' = bus /\ need' = need
      /\ delivered' = delivered /\ faults' = faults
  BY DEF Leave, admission, store, bounds
<1>2. NextPhase[domain] \in {"publish"} \cup Domains
  BY DEF NextPhase, Domains
<1>3. out' \in Seq(Messages) /\ made' \in Seq(Messages)
  BY <1>1 DEF Typed, TypeOK
<1>4. TypeOK'
  BY <1>1, <1>2, <1>3 DEF Typed, TypeOK
<1> QED BY <1>1, <1>4 DEF Typed, Admitted, RecordsBounded, Working

LEMMA UpdateType ==
  ASSUME Typed, NEW r \in Planned
  PROVE  /\ UpdateOf(r) \in Updates /\ Bounded(UpdateOf(r).records)
         /\ UpdateOf(r).belief = r.belief /\ UpdateOf(r).kind = r.kind
         /\ UpdateOf(r).used = r.used /\ UpdateOf(r).time = r.time /\ UpdateOf(r).late = IsLate(r)
         /\ UpdateOf(r).rev = child.rev[r.belief] + 1
         /\ r.belief \in Technical => /\ UpdateOf(r).root = child.root["component"]
                                      /\ UpdateOf(r).records = child.undrained
         /\ r.belief \notin Technical => /\ UpdateOf(r).root = child.root[r.belief] + 1
                                         /\ UpdateOf(r).records = {child.root[r.belief] + 1}
<1> DEFINE b == r.belief
           chain == ChainOf(b)
           root == IF b \in Technical THEN child.root[chain] ELSE child.root[chain] + 1
           records == IF b \in Technical THEN child.undrained ELSE {child.root[chain] + 1}
<1>1. b \in Beliefs /\ r.kind \in Kinds /\ r.used \subseteq Evidence /\ r.time \in Nat
  BY DEF Planned
<1>2. child \in Memories /\ chain \in Chains /\ Bounded(child.undrained)
  BY <1>1, DomainType DEF Typed, TypeOK, RecordsBounded
<1>3. child.rev[b] \in Nat \cup {-1} /\ child.root[chain] \in Nat /\ child.undrained \subseteq Nat
  BY <1>1, <1>2 DEF Memories
<1>4. root \in Nat /\ records \subseteq Nat /\ Bounded(records) /\ child.rev[b] + 1 \in Nat
  BY <1>2, <1>3, BoundedSets
<1>5. IsLate(r) \in BOOLEAN
  BY DEF IsLate
<1>6. UpdateOf(r) = [belief |-> b, kind |-> r.kind, used |-> r.used, time |-> r.time, late |-> IsLate(r),
                     rev |-> child.rev[b] + 1, root |-> root, records |-> records]
  BY DEF UpdateOf
<1>7. chain = IF b \in Technical THEN "component" ELSE b
  BY DEF ChainOf
<1>8. /\ b \in Technical => root = child.root["component"] /\ records = child.undrained
      /\ b \notin Technical => root = child.root[b] + 1 /\ records = {child.root[b] + 1}
  BY <1>7
<1> HIDE DEF root, records
<1>9. UpdateOf(r) \in Updates
  BY <1>1, <1>4, <1>5, <1>6 DEF Updates
<1> QED BY <1>4, <1>6, <1>8, <1>9

LEMMA HeadOfTodo ==
  ASSUME TypeOK, todo # <<>>
  PROVE  Head(todo) \in Planned /\ Tail(todo) \in Seq(Planned) /\ Head(todo) = todo[1]
BY DEF TypeOK

LEMMA BeginTyped ==
  ASSUME Typed, Begin
  PROVE  Typed'
<1> DEFINE r == Head(todo)
           u == UpdateOf(r)
<1>1. /\ tx' = [at |-> 1, update |-> u, copy |-> db]
      /\ child' = IF r.belief \in Technical
                  THEN [child EXCEPT !.rev[r.belief] = @ + 1, !.undrained = {}] ELSE child
      /\ now' = now /\ phase' = phase /\ seen' = seen /\ newest' = newest /\ taken' = taken /\ db' = db
      /\ failed' = failed /\ todo' = todo /\ made' = made /\ out' = out /\ bus' = bus /\ need' = need
      /\ delivered' = delivered /\ faults' = faults
  BY DEF Begin, admission, bounds
<1>2. TypeOK /\ child \in Memories /\ db \in Tables /\ Bounded(child.undrained)
  BY DEF Typed, TypeOK, RecordsBounded
<1>3. r \in Planned /\ r.belief \in Beliefs
  BY <1>2, HeadOfTodo DEF Begin, Planned
<1>4. u \in Updates /\ Bounded(u.records)
  BY <1>3, UpdateType
<1> HIDE DEF u
<1>5. tx' \in Transactions /\ tx'.update = u /\ tx'.copy = db
  BY <1>1, <1>2, <1>4 DEF Transactions
<1>6. child' \in Memories /\ Bounded(child'.undrained)
  <2>1. CASE r.belief \in Technical
    <3> DEFINE x == [child.rev EXCEPT ![r.belief] = @ + 1]
               d == [child EXCEPT !.rev = x]
    <3>1. x \in [Beliefs -> Nat \cup {-1}]
      BY <1>2, <1>3 DEF Memories
    <3>2. child' = [d EXCEPT !.undrained = {}]
      BY <1>1, <1>2, <2>1 DEF Memories
    <3> HIDE DEF x
    <3>3. d \in Memories
      BY <1>2, <3>1, MemoryUpdates
    <3> HIDE DEF d
    <3>4. child' \in Memories /\ child'.undrained = {}
      BY <3>2, <3>3 DEF Memories
    <3> QED BY <3>4, BoundedSets
  <2>2. CASE r.belief \notin Technical
    BY <1>1, <1>2, <2>2
  <2> QED BY <2>1, <2>2
<1>7. TypeOK'
  BY <1>1, <1>2, <1>5, <1>6 DEF TypeOK
<1>8. Admitted'
  BY <1>1, <1>5 DEF Typed, Admitted
<1>9. RecordsBounded'
  BY <1>4, <1>5, <1>6 DEF RecordsBounded
<1>10. Working'
  BY <1>1 DEF Begin, Working
<1> QED BY <1>7, <1>8, <1>9, <1>10 DEF Typed

LEMMA WriteIs ==
  ASSUME NEW w, NEW d, NEW u
  PROVE  /\ Write(1, w, d, u) = InsertProvenance(w, u)
         /\ Write(2, w, d, u) = InsertContributions(w, u)
         /\ Write(3, w, d, u) = InsertRevision(w, d, u)
         /\ Write(4, w, d, u) = MoveHead(w, d, u)
<1>1. 1 # 2 /\ 1 # 3 /\ 1 # 4 /\ 2 # 1 /\ 2 # 3 /\ 2 # 4 /\ 3 # 1 /\ 3 # 2 /\ 3 # 4 /\ 4 # 1 /\ 4 # 2 /\ 4 # 3
  OBVIOUS
<1>2. Write(1, w, d, u) = InsertProvenance(w, u)
  BY <1>1, Zenon DEF Write
<1>3. Write(2, w, d, u) = InsertContributions(w, u)
  BY <1>1, Zenon DEF Write
<1>4. Write(3, w, d, u) = InsertRevision(w, d, u)
  BY <1>1, Zenon DEF Write
<1>5. Write(4, w, d, u) = MoveHead(w, d, u)
  BY <1>1, Zenon DEF Write
<1> QED BY <1>2, <1>3, <1>4, <1>5

LEMMA WriteType ==
  ASSUME NEW w \in Tables, NEW d \in Tables, NEW u \in Updates, Bounded(u.records), NEW i \in 1 .. 4
  PROVE  Write(i, w, d, u) \in Tables /\ Write(i, w, d, u).evidence = w.evidence
<1>1. CASE i = 1
  <2>1. Write(i, w, d, u) = InsertProvenance(w, u)
    BY <1>1, WriteIs
  <2>2. InsertProvenance(w, u) \in Tables /\ InsertProvenance(w, u).evidence = w.evidence
    BY ProvenanceWritten
  <2> QED BY <2>1, <2>2
<1>2. CASE i = 2
  <2>1. Write(i, w, d, u) = InsertContributions(w, u)
    BY <1>2, WriteIs
  <2>2. InsertContributions(w, u) \in Tables /\ InsertContributions(w, u).evidence = w.evidence
    BY ContributionsWritten
  <2> QED BY <2>1, <2>2
<1>3. CASE i = 3
  <2>1. Write(i, w, d, u) = InsertRevision(w, d, u)
    BY <1>3, WriteIs
  <2>2. InsertRevision(w, d, u) \in Tables /\ InsertRevision(w, d, u).evidence = w.evidence
    BY RevisionWritten
  <2> QED BY <2>1, <2>2
<1>4. CASE i = 4
  <2>1. Write(i, w, d, u) = MoveHead(w, d, u)
    BY <1>4, WriteIs
  <2>2. MoveHead(w, d, u) \in Tables /\ MoveHead(w, d, u).evidence = w.evidence
    BY HeadWritten
  <2> QED BY <2>1, <2>2
<1> QED BY <1>1, <1>2, <1>3, <1>4

LEMMA ExecuteStep ==
  ASSUME TypeOK, Execute
  PROVE  /\ tx \in Transactions /\ tx # NoTx /\ tx.at \in 1 .. 4
         /\ tx' = [at |-> tx.at + 1, update |-> tx.update, copy |-> Write(tx.at, tx.copy, db, tx.update)]
         /\ now' = now /\ phase' = phase /\ seen' = seen /\ newest' = newest /\ taken' = taken /\ db' = db
         /\ child' = child /\ failed' = failed /\ todo' = todo /\ made' = made /\ out' = out /\ bus' = bus
         /\ need' = need /\ delivered' = delivered /\ faults' = faults
<1>1. tx.at \in 1 .. 4 /\ tx' = [tx EXCEPT !.at = tx.at + 1, !.copy = Write(tx.at, tx.copy, db, tx.update)]
  BY DEF Execute
<1>2. tx \in Transactions /\ tx # NoTx
  BY <1>1, TxFacts DEF TypeOK
<1>3. tx = [at |-> tx.at, update |-> tx.update, copy |-> tx.copy]
  BY <1>2 DEF Transactions
<1>4. tx' = [at |-> tx.at + 1, update |-> tx.update, copy |-> Write(tx.at, tx.copy, db, tx.update)]
  BY <1>1, <1>3
<1> QED BY <1>1, <1>2, <1>4 DEF Execute, admission, work, bounds

LEMMA ExecuteTyped ==
  ASSUME Typed, Execute
  PROVE  Typed'
<1> DEFINE w == Write(tx.at, tx.copy, db, tx.update)
<1>1. TypeOK /\ Bounded(child.undrained)
  BY DEF Typed, RecordsBounded
<1>2. tx \in Transactions /\ tx # NoTx /\ tx.at \in 1 .. 4
  BY <1>1, ExecuteStep
<1>3. tx' = [at |-> tx.at + 1, update |-> tx.update, copy |-> w]
  BY <1>1, ExecuteStep
<1>4. tx.update \in Updates /\ tx.copy \in Tables /\ db \in Tables /\ Bounded(tx.update.records)
      /\ tx.copy.evidence \subseteq db.evidence
  BY <1>1, <1>2 DEF Transactions, Typed, Admitted, RecordsBounded, TypeOK
<1>5. w \in Tables /\ w.evidence = tx.copy.evidence
  BY <1>2, <1>4, WriteType
<1> HIDE DEF w
<1>6. tx' \in Transactions /\ tx'.update = tx.update /\ tx'.copy = w
  BY <1>2, <1>3, <1>4, <1>5 DEF Transactions
<1>7. /\ now' = now /\ phase' = phase /\ seen' = seen /\ newest' = newest /\ taken' = taken /\ db' = db
      /\ child' = child /\ failed' = failed /\ todo' = todo /\ made' = made /\ out' = out /\ bus' = bus
      /\ need' = need /\ delivered' = delivered /\ faults' = faults
  BY <1>1, ExecuteStep
<1>8. TypeOK'
  BY <1>1, <1>6, <1>7 DEF TypeOK
<1>9. Admitted'
  BY <1>4, <1>5, <1>6, <1>7 DEF Typed, Admitted
<1>10. RecordsBounded'
  BY <1>1, <1>4, <1>6, <1>7 DEF RecordsBounded
<1>11. Working'
  BY <1>2, <1>7 DEF Typed, Working
<1> QED BY <1>8, <1>9, <1>10, <1>11 DEF Typed

LEMMA MessageCountType ==
  ASSUME child \in Memories, NEW u \in Updates
  PROVE  MessageCount(u) \in Nat
<1>1. Cardinality(child.groups) \in Nat
  BY AllGroupsFinite DEF Memories, AllGroups
<1>2. CASE u.belief \in Technical
  <2>1. u.belief \notin Ecological
    BY <1>2 DEF Ecological, Technical
  <2>2. MessageCount(u) = Cardinality(child.groups)
    BY <1>2, <2>1, Zenon DEF MessageCount
  <2> QED BY <1>1, <2>2
<1>3. CASE u.belief \in Ecological
  <2>1. u.belief \notin Technical
    BY <1>3 DEF Ecological, Technical
  <2>2. MessageCount(u) = child.count[u.belief] + (IF u.used # {} THEN 1 ELSE 0)
    BY <1>3, <2>1, Zenon DEF MessageCount
  <2>3. child.count[u.belief] \in Nat
    BY <1>3 DEF Memories
  <2> QED BY <2>2, <2>3
<1>4. CASE u.belief \notin Technical /\ u.belief \notin Ecological
  <2>1. MessageCount(u) = 0
    BY <1>4, Zenon DEF MessageCount
  <2> QED BY <2>1
<1> QED BY <1>2, <1>3, <1>4

\* What a commit changes.
LEMMA CommitStep ==
  ASSUME TypeOK, Commit
  PROVE  LET u == tx.update
             chain == ChainOf(u.belief)
         IN /\ tx \in Transactions /\ tx # NoTx /\ tx.at = 5 /\ u \in Updates /\ u.belief \in Beliefs
            /\ db' = tx.copy /\ tx' = NoTx /\ todo' = Tail(todo)
            /\ child' \in Memories
            /\ child'.rev = [child.rev EXCEPT ![u.belief] = u.rev]
            /\ child'.time = [child.time EXCEPT ![chain] = Latest(child.time[chain], {u.time})]
            /\ child'.root = [child.root EXCEPT ![chain] = u.root]
            /\ child'.count = IF u.belief \in Ecological
                              THEN [child.count EXCEPT ![u.belief] = MessageCount(u)] ELSE child.count
            /\ child'.undrained = child.undrained /\ child'.groups = child.groups
            /\ made' = IF u.kind = "CONTEXT" THEN made
                       ELSE Append(made, [belief |-> u.belief, rev |-> u.rev, used |-> u.used, count |-> MessageCount(u)])
            /\ now' = now /\ phase' = phase /\ seen' = seen /\ newest' = newest /\ taken' = taken
            /\ failed' = failed /\ out' = out /\ bus' = bus /\ need' = need /\ delivered' = delivered
            /\ faults' = faults
<1> DEFINE u == tx.update
           chain == ChainOf(u.belief)
           x1 == [child.rev EXCEPT ![u.belief] = u.rev]
           x2 == [child.time EXCEPT ![chain] = Latest(child.time[chain], {u.time})]
           x3 == [child.root EXCEPT ![chain] = u.root]
           x4 == IF u.belief \in Ecological
                 THEN [child.count EXCEPT ![u.belief] = MessageCount(u)] ELSE child.count
           c1 == [child EXCEPT !.rev = x1]
           c2 == [c1 EXCEPT !.time = x2]
           c3 == [c2 EXCEPT !.root = x3]
<1>1. tx \in Transactions /\ tx # NoTx /\ tx.at = 5
  BY TxFacts DEF TypeOK, Commit
<1>2. u \in Updates
  BY <1>1 DEF Transactions
<1>3. u.belief \in Beliefs /\ u.rev \in Nat /\ u.time \in Nat /\ u.root \in Nat
  BY <1>2 DEF Updates
<1>4. child \in Memories /\ chain \in Chains
  BY <1>3, DomainType DEF TypeOK
<1>5. MessageCount(u) \in Nat
  BY <1>2, <1>4, MessageCountType
<1>6. Latest(child.time[chain], {u.time}) \in Nat
  <2>1. child.time[chain] \in Nat \cup {-1}
    BY <1>4 DEF Memories
  <2> QED BY <1>3, <2>1, LatestOfTwo
<1>7. /\ x1 \in [Beliefs -> Nat \cup {-1}] /\ x2 \in [Chains -> Nat \cup {-1}] /\ x3 \in [Chains -> Nat]
      /\ x4 \in [Ecological -> Nat]
  BY <1>3, <1>4, <1>5, <1>6 DEF Memories
<1>8. /\ db' = tx.copy /\ tx' = NoTx /\ todo' = Tail(todo)
      /\ child' = [child EXCEPT !.rev = x1, !.time = x2, !.root = x3, !.count = x4]
      /\ made' = IF u.kind = "CONTEXT" THEN made
                 ELSE Append(made, [belief |-> u.belief, rev |-> u.rev, used |-> u.used, count |-> MessageCount(u)])
      /\ now' = now /\ phase' = phase /\ seen' = seen /\ newest' = newest /\ taken' = taken
      /\ failed' = failed /\ out' = out /\ bus' = bus /\ need' = need /\ delivered' = delivered
      /\ faults' = faults
  BY DEF Commit, admission, bounds
<1> HIDE DEF x1, x2, x3, x4
<1>9. child' = [c3 EXCEPT !.count = x4]
  BY <1>4, <1>8 DEF Memories
<1>10. c1 \in Memories
  BY <1>4, <1>7, MemoryUpdates
<1> HIDE DEF c1
<1>11. c2 \in Memories
  BY <1>7, <1>10, MemoryUpdates
<1> HIDE DEF c2
<1>12. c3 \in Memories
  BY <1>7, <1>11, MemoryUpdates
<1> HIDE DEF c3
<1>13. child' \in Memories
  BY <1>7, <1>9, <1>12, MemoryUpdates
<1>14. /\ child'.rev = x1 /\ child'.time = x2 /\ child'.root = x3 /\ child'.count = x4
       /\ child'.undrained = child.undrained /\ child'.groups = child.groups
  BY <1>4, <1>8 DEF Memories
<1> QED BY <1>1, <1>2, <1>3, <1>8, <1>13, <1>14 DEF x1, x2, x3, x4

LEMMA CommitTyped ==
  ASSUME Typed, Commit
  PROVE  Typed'
<1> DEFINE u == tx.update
           m == [belief |-> u.belief, rev |-> u.rev, used |-> u.used, count |-> MessageCount(u)]
<1>1. TypeOK /\ child \in Memories
  BY DEF Typed, TypeOK
<1>2. /\ tx \in Transactions /\ tx # NoTx /\ u \in Updates /\ u.belief \in Beliefs
      /\ db' = tx.copy /\ tx' = NoTx /\ todo' = Tail(todo)
      /\ child' \in Memories /\ child'.undrained = child.undrained
      /\ made' = IF u.kind = "CONTEXT" THEN made ELSE Append(made, m)
      /\ now' = now /\ phase' = phase /\ seen' = seen /\ newest' = newest /\ taken' = taken
      /\ failed' = failed /\ out' = out /\ bus' = bus /\ need' = need /\ delivered' = delivered
      /\ faults' = faults
  BY <1>1, CommitStep
<1>3. m \in Messages
  BY <1>1, <1>2, MessageCountType DEF Messages, Updates
<1> HIDE DEF m
<1>4. made' \in Seq(Messages)
  BY <1>1, <1>2, <1>3 DEF TypeOK
<1>5. todo' \in Seq(Planned)
  BY <1>1, <1>2, HeadOfTodo DEF Typed, Working
<1>6. db' \in Tables /\ db'.evidence \subseteq db.evidence
  BY <1>2 DEF Transactions, Typed, Admitted
<1>7. TypeOK'
  BY <1>1, <1>2, <1>4, <1>5, <1>6 DEF TypeOK
<1>8. Admitted'
  BY <1>2, <1>6 DEF Typed, Admitted
<1>9. RecordsBounded'
  BY <1>2 DEF Typed, RecordsBounded
<1>10. Working'
  BY <1>2 DEF Working
<1> QED BY <1>7, <1>8, <1>9, <1>10 DEF Typed

LEMMA RaiseTyped ==
  ASSUME Typed, Raise
  PROVE  Typed'
<1>1. /\ tx.at > 0 /\ tx' = NoTx /\ todo' = <<>> /\ made' = <<>>
      /\ failed' = failed \cup {DomainOf(tx.update.belief)}
      /\ faults' \in {faults, faults + 1}
      /\ now' = now /\ phase' = phase /\ seen' = seen /\ newest' = newest /\ taken' = taken /\ db' = db
      /\ child' = child /\ out' = out /\ bus' = bus /\ need' = need /\ delivered' = delivered
  BY DEF Raise, admission
<1>2. TypeOK
  BY DEF Typed
<1>3. tx \in Transactions /\ tx.update.belief \in Beliefs
  BY <1>1, <1>2, TxFacts DEF TypeOK, Transactions, Updates
<1>4. failed' \subseteq Domains
  BY <1>1, <1>2, <1>3, DomainType DEF TypeOK
<1>5. todo' \in Seq(Planned) /\ made' \in Seq(Messages) /\ faults' \in Nat
  BY <1>1, <1>2 DEF TypeOK
<1>6. TypeOK'
  BY <1>1, <1>2, <1>4, <1>5 DEF TypeOK
<1>7. Admitted' /\ RecordsBounded' /\ Working'
  BY <1>1 DEF Typed, Admitted, RecordsBounded, Working
<1> QED BY <1>6, <1>7 DEF Typed

\* Publishing is one delivery after the other.
Deliver(p, m) ==
  IF Accepted(p.heads, m)
  THEN [heads |-> [p.heads EXCEPT ![m.belief] = HeadOf(m)], accepted |-> Append(p.accepted, m)]
  ELSE p

Deliveries == [heads : [Beliefs -> Heads], accepted : Seq(Messages)]

LEMMA DeliverType ==
  ASSUME NEW p \in Deliveries, NEW m \in Messages
  PROVE  Deliver(p, m) \in Deliveries
<1>1. HeadOf(m) \in Heads /\ m.belief \in Beliefs
  BY DEF HeadOf, Heads, Messages
<1>2. p.heads \in [Beliefs -> Heads] /\ p.accepted \in Seq(Messages)
  BY DEF Deliveries
<1>3. [p.heads EXCEPT ![m.belief] = HeadOf(m)] \in [Beliefs -> Heads] /\ Append(p.accepted, m) \in Seq(Messages)
  BY <1>1, <1>2
<1>4. [heads |-> [p.heads EXCEPT ![m.belief] = HeadOf(m)], accepted |-> Append(p.accepted, m)] \in Deliveries
  BY <1>3 DEF Deliveries
<1> QED BY <1>4 DEF Deliver

LEMMA PublishRuns ==
  ASSUME TypeOK, NEW messages \in Seq(Messages)
  PROVE  \E after \in [0 .. Len(messages) -> Deliveries] :
           /\ after[0] = [heads |-> bus, accepted |-> <<>>]
           /\ \A i \in 1 .. Len(messages) : after[i] = Deliver(after[i - 1], messages[i])
           /\ PublishMany(messages) = after[Len(messages)]
<1> DEFINE n == Len(messages)
           s == [heads |-> bus, accepted |-> <<>>]
           F == [i \in 1 .. n |-> [p \in Deliveries |-> Deliver(p, messages[i])]]
           Solves(f) == f = [i \in 0 .. n |-> IF i = 0 THEN s ELSE Deliver(f[i - 1], messages[i])]
           after == CHOOSE f : Solves(f)
<1>1. s \in Deliveries
  BY DEF Deliveries, TypeOK
<1>2. n \in Nat /\ \A i \in 1 .. n : messages[i] \in Messages
  OBVIOUS
<1>3. ASSUME NEW p \in Deliveries, NEW i \in 1 .. n PROVE Deliver(p, messages[i]) \in Deliveries
  BY <1>2, DeliverType
<1>4. F \in [1 .. n -> [Deliveries -> Deliveries]]
  BY <1>3
<1>5. \A i \in 1 .. n, p \in Deliveries : F[i][p] = Deliver(p, messages[i])
  OBVIOUS
<1>6. PublishMany(messages) = after[n]
  BY DEF PublishMany, Deliver
<1> HIDE DEF F, s, n
<1>7. PICK g : Run(Deliveries, s, F, n, g)
  BY <1>1, <1>2, <1>4, Iterates
<1>8. g \in [0 .. n -> Deliveries] /\ g[0] = s
  BY <1>7 DEF Run
<1>9. Solves(g)
  <2>1. ASSUME NEW i \in 1 .. n PROVE g[i] = Deliver(g[i - 1], messages[i])
    <3>1. g[i] = F[i][g[i - 1]] /\ g[i - 1] \in Deliveries
      BY <1>2, <1>7, <1>8 DEF Run
    <3> QED BY <1>5, <3>1
  <2>2. \A i \in 0 .. n : g[i] = IF i = 0 THEN s ELSE Deliver(g[i - 1], messages[i])
    BY <1>2, <1>8, <2>1
  <2>3. g = [i \in 0 .. n |-> g[i]]
    BY <1>8
  <2> QED BY <2>2, <2>3
<1>10. Solves(after)
  BY <1>9
<1> HIDE DEF after
<1>11. DOMAIN after = 0 .. n /\ after[0] = s
  BY <1>2, <1>10
<1>12. \A i \in 1 .. n : after[i] = Deliver(after[i - 1], messages[i])
  BY <1>2, <1>10
<1> DEFINE T == {i \in 0 .. n : after[i] \in Deliveries}
<1>13. 0 \in T
  BY <1>1, <1>2, <1>11
<1>14. ASSUME NEW i \in 1 .. n, i - 1 \in T PROVE i \in T
  BY <1>2, <1>3, <1>12, <1>14
<1>15. ASSUME NEW k \in 0 .. n PROVE k \in T
  <2> HIDE DEF T
  <2>1. k \in Nat /\ \A i \in 1 .. k : i - 1 \in T => i \in T
    BY <1>2, <1>14
  <2> QED BY <1>13, <2>1, IntervalInduction
<1>16. after \in [0 .. n -> Deliveries]
  <2>1. after = [i \in 0 .. n |-> IF i = 0 THEN s ELSE Deliver(after[i - 1], messages[i])]
    BY <1>10
  <2>2. \A i \in 0 .. n : after[i] \in Deliveries
    BY <1>15
  <2> QED BY <2>1, <2>2
<1> QED BY <1>6, <1>11, <1>12, <1>16 DEF s, n

LEMMA PublishTyped ==
  ASSUME Typed, Publish
  PROVE  Typed'
<1>1. /\ bus' = PublishMany(out).heads /\ out' = PublishMany(out).accepted /\ phase' = "dispatch"
      /\ now' = now /\ seen' = seen /\ newest' = newest /\ taken' = taken /\ db' = db /\ tx' = tx
      /\ child' = child /\ failed' = failed /\ todo' = todo /\ made' = made /\ need' = need
      /\ delivered' = delivered /\ faults' = faults
  BY DEF Publish, admission, store, work, bounds
<1>2. TypeOK /\ out \in Seq(Messages)
  BY DEF Typed, TypeOK
<1>3. PublishMany(out) \in Deliveries
  <2>1. PICK after \in [0 .. Len(out) -> Deliveries] : PublishMany(out) = after[Len(out)]
    BY <1>2, PublishRuns
  <2> QED BY <1>2, <2>1
<1>4. bus' \in [Beliefs -> Heads] /\ out' \in Seq(Messages)
  BY <1>1, <1>3 DEF Deliveries
<1>5. TypeOK'
  BY <1>1, <1>2, <1>4 DEF TypeOK
<1> QED BY <1>1, <1>5 DEF Typed, Admitted, RecordsBounded, Working

\* A context makes a provenance record and the plan of one revision.
LEMMA ContextStep ==
  ASSUME TypeOK, Bounded(child.undrained), TakeContext
  PROVE  /\ child' \in Memories /\ Bounded(child'.undrained) /\ todo' \in Seq(Planned)
         /\ todo' = <<Revise("component", "CONTEXT", {}, now)>> /\ todo' # <<>>
         /\ child'.root = [child.root EXCEPT !["component"] = child.root["component"] + 1]
         /\ child'.undrained = child.undrained \cup {child.root["component"] + 1}
         /\ child'.rev = child.rev /\ child'.time = child.time /\ child'.count = child.count
         /\ child'.groups = child.groups
<1> DEFINE n == child.root["component"] + 1
           x == [child.root EXCEPT !["component"] = n]
           y == child.undrained \cup {n}
           d == [child EXCEPT !.root = x]
           r == Revise("component", "CONTEXT", {}, now)
<1>1. child \in Memories /\ child.root \in [Chains -> Nat] /\ child.undrained \subseteq Nat
  BY DEF TypeOK, Memories
<1>2. n \in Nat /\ x \in [Chains -> Nat]
  BY <1>1 DEF Chains
<1>3. y \subseteq Nat /\ Bounded(y)
  BY <1>1, <1>2, BoundedSets
<1>4. child' = [child EXCEPT !.root = x, !.undrained = y] /\ todo' = <<r>>
  BY DEF TakeContext
<1>5. r \in Planned
  BY DEF TypeOK, Revise, Planned, Kinds, Beliefs, Technical
<1> HIDE DEF x, y, r
<1>6. child' = [d EXCEPT !.undrained = y]
  BY <1>1, <1>4 DEF Memories
<1>7. d \in Memories
  BY <1>1, <1>2, MemoryUpdates
<1> HIDE DEF d
<1>8. child' \in Memories
  BY <1>3, <1>6, <1>7, MemoryUpdates
<1>9. /\ child'.root = x /\ child'.undrained = y /\ child'.rev = child.rev /\ child'.time = child.time
      /\ child'.count = child.count /\ child'.groups = child.groups
  BY <1>1, <1>4 DEF Memories
<1>10. todo' \in Seq(Planned) /\ todo' # <<>>
  BY <1>4, <1>5
<1> QED BY <1>3, <1>4, <1>8, <1>9, <1>10 DEF x, y, r

LEMMA DispatchTyped ==
  ASSUME Typed, Dispatch
  PROVE  Typed'
<1>1. /\ phase = "dispatch" /\ todo = <<>> /\ out # <<>> /\ out' = Tail(out)
      /\ TakeContext \/ (child' = child /\ todo' = todo)
      /\ now' = now /\ phase' = phase /\ seen' = seen /\ newest' = newest /\ taken' = taken /\ db' = db
      /\ tx' = tx /\ failed' = failed /\ made' = made /\ bus' = bus /\ need' = need
      /\ delivered' = delivered /\ faults' = faults
  BY DEF Dispatch, admission, store, bounds
<1>2. TypeOK /\ Bounded(child.undrained) /\ (tx # NoTx => todo # <<>>)
  BY DEF Typed, RecordsBounded, Working
<1>3. child' \in Memories /\ Bounded(child'.undrained) /\ todo' \in Seq(Planned)
  BY <1>1, <1>2, ContextStep DEF TypeOK
<1>4. out' \in Seq(Messages)
  BY <1>1, <1>2 DEF TypeOK
<1>5. TypeOK'
  BY <1>1, <1>2, <1>3, <1>4 DEF TypeOK
<1>6. tx = NoTx
  BY <1>1, <1>2
<1>7. Admitted' /\ RecordsBounded' /\ Working'
  BY <1>1, <1>3, <1>6 DEF Typed, Admitted, RecordsBounded, Working
<1> QED BY <1>5, <1>7 DEF Typed

LEMMA DecideTyped ==
  ASSUME Typed, Decide
  PROVE  Typed'
<1>1. /\ phase = "dispatch" /\ todo = <<>> /\ tx = NoTx /\ out = <<>> /\ phase' = "end"
      /\ TakeContext \/ (child' = child /\ todo' = todo)
      /\ \/ need = NoNeed /\ \E b \in Targets : need' = Ask(b)
         \/ need # NoNeed /\ need' = [need EXCEPT !.closed = TRUE]
         \/ need' = need
      /\ now' = now /\ seen' = seen /\ newest' = newest /\ taken' = taken /\ db' = db
      /\ tx' = tx /\ failed' = failed /\ made' = made /\ out' = out /\ bus' = bus
      /\ delivered' = delivered /\ faults' = faults
  BY DEF Decide, admission, store, bounds
<1>2. TypeOK /\ Bounded(child.undrained)
  BY DEF Typed, RecordsBounded
<1>3. child' \in Memories /\ Bounded(child'.undrained) /\ todo' \in Seq(Planned)
  BY <1>1, <1>2, ContextStep DEF TypeOK
<1>4. need' \in {NoNeed} \cup Needs
  <2>1. ASSUME NEW b \in Targets PROVE Ask(b) \in Needs
    <3>1. b \in Beliefs /\ bus[b] \in Heads /\ db.uses \in [Beliefs -> SUBSET Evidence]
      BY <1>2, PlaneAssumption DEF TypeOK, Tables
    <3> QED BY <3>1 DEF Ask, Needs, Heads
  <2>2. need # NoNeed => [need EXCEPT !.closed = TRUE] \in Needs
    BY <1>2 DEF TypeOK, Needs
  <2> QED BY <1>1, <1>2, <2>1, <2>2 DEF TypeOK
<1>5. TypeOK'
  BY <1>1, <1>2, <1>3, <1>4 DEF TypeOK
<1>6. Admitted' /\ RecordsBounded' /\ Working'
  BY <1>1, <1>3 DEF Typed, Admitted, RecordsBounded, Working
<1> QED BY <1>5, <1>6 DEF Typed

LEMMA EndTickTyped ==
  ASSUME Typed, EndTick
  PROVE  Typed'
<1>1. /\ now' = now + 1 /\ phase' = "sense" /\ taken' = {}
      /\ seen' = seen /\ newest' = newest /\ db' = db /\ tx' = tx /\ child' = child /\ failed' = failed
      /\ todo' = todo /\ made' = made /\ out' = out /\ bus' = bus /\ need' = need
      /\ delivered' = delivered /\ faults' = faults
  BY DEF EndTick, store, work, bounds
<1>2. TypeOK'
  BY <1>1 DEF Typed, TypeOK
<1> QED BY <1>1, <1>2 DEF Typed, Admitted, RecordsBounded, Working

LEMMA StutterTyped ==
  ASSUME Typed, UNCHANGED vars
  PROVE  Typed'
BY DEF Typed, TypeOK, Admitted, RecordsBounded, Working, vars, admission, store, work, bounds

LEMMA TypedInductive ==
  ASSUME Typed, [Next]_vars
  PROVE  Typed'
BY SenseTyped, IngestTyped, LeaveTyped, BeginTyped, ExecuteTyped, CommitTyped, RaiseTyped, PublishTyped,
   DispatchTyped, DecideTyped, EndTickTyped, StutterTyped DEF Next

\* TypeOK holds in every reachable state: what admission, the children, the transactions, the bus and the
\* need hold are values of their kinds, and no observation is in one batch twice.
THEOREM PlaneTypeCorrect == Spec => []TypeOK
<1>1. Init => Typed
  BY InitTyped
<1>2. Typed /\ [Next]_vars => Typed'
  BY TypedInductive
<1>3. Typed => TypeOK
  BY DEF Typed
<1> QED BY <1>1, <1>2, <1>3, PTL DEF Spec

-----------------------------------------------------------------------------
(***************************************************************************)
(* The store.  A transaction makes its four writes on a copy of the tables *)
(* as they still are, and what a child remembers of its beliefs is what    *)
(* the tables hold, so that no check of the repository fails.              *)
(***************************************************************************)
Provenanced(d, u) == InsertProvenance(d, u)
Contributed(d, u) == InsertContributions(Provenanced(d, u), u)
Revised(d, u) == InsertRevision(Contributed(d, u), d, u)
Complete(d, u) == MoveHead(Revised(d, u), d, u)

\* A belief is whole: as WholeCommits has it, with the newest time as a bound that is reached, and also
\* where the belief has no revision yet; and its count is of the groups of what it rests on.
Whole(d, b) ==
  LET revs == d.revs[b]
      row == d.rows[b] IN
  /\ row.head = Len(revs) - 1
  /\ \A i \in DOMAIN revs : /\ revs[i].rev = i - 1 /\ revs[i].root \in 1 .. d.prov[ChainOf(b)]
                            /\ revs[i].time <= row.time
  /\ revs # <<>> => /\ row.count = revs[Len(revs)].count
                    /\ \E i \in DOMAIN revs : revs[i].time = row.time
  /\ revs = <<>> => row.time = -1
  /\ d.uses[b] = UNION {revs[i].used : i \in DOMAIN revs}
  /\ d.uses[b] \subseteq d.evidence
  /\ row.count = Cardinality(GroupsOf(d.uses[b]))

Agrees(d) == (\A b \in Beliefs : Whole(d, b)) /\ d.prov["component"] >= 1

\* The open transaction commits the next planned revision, was not refused, and has made the writes
\* before its point on a copy of the tables.
Writing ==
  tx # NoTx =>
    LET u == tx.update IN
    /\ u.belief = todo[1].belief /\ u.kind = todo[1].kind /\ u.used = todo[1].used
    /\ ~Refused(db, u) /\ u.root >= 1
    /\ tx.at = 1 => tx.copy = db
    /\ tx.at = 2 => tx.copy = Provenanced(db, u)
    /\ tx.at = 3 => tx.copy = Contributed(db, u)
    /\ tx.at = 4 => tx.copy = Revised(db, u)
    /\ tx.at = 5 => tx.copy = Complete(db, u)

\* The technical child counts a revision and drains its records when the transaction begins.
Draining == tx # NoTx /\ tx.update.belief \in Technical
Undrained == (db.prov["component"] + 1) .. child.root["component"]

\* What a child in service remembers of its beliefs is what the tables hold.
Remembered ==
  /\ \A b \in Beliefs : db.rows[b].time <= child.time[ChainOf(b)]
  /\ \A b \in Beliefs \ Technical : child.rev[b] = db.rows[b].head /\ child.root[b] = db.prov[b]
  /\ (tx # NoTx /\ ~Draining) =>
       tx.update.root = db.prov[tx.update.belief] + 1 /\ tx.update.records = {db.prov[tx.update.belief] + 1}
  /\ "technical" \notin failed =>
       /\ \A b \in Technical :
            child.rev[b] = IF Draining /\ tx.update.belief = b THEN db.rows[b].head + 1 ELSE db.rows[b].head
       /\ db.prov["component"] <= child.root["component"]
       /\ child.undrained = IF Draining THEN {} ELSE Undrained
       /\ Draining => tx.update.root = child.root["component"] /\ tx.update.records = Undrained

\* What is planned may be committed: its evidence is archived and new to its belief, no two revisions are of
\* one belief, and the child that planned them is in service and has ingested all it took.
Pending ==
  /\ \A i \in DOMAIN todo :
       /\ DomainOf(todo[i].belief) \notin failed
       /\ todo[i].used \subseteq db.evidence /\ todo[i].used \cap db.uses[todo[i].belief] = {}
       /\ todo[i].kind = "DIRECT" <=> todo[i].used # {}
       /\ IF phase \in Domains THEN DomainOf(todo[i].belief) = phase /\ todo[i].kind # "CONTEXT"
          ELSE todo[i].belief = "component" /\ todo[i].kind = "CONTEXT"
  /\ \A i, j \in DOMAIN todo : i # j => todo[i].belief # todo[j].belief
  /\ todo # <<>> => /\ phase \in Domains \cup {"dispatch", "end"}
                    /\ phase \in Domains => taken \cap Of(phase) = {}

Stored == Agrees(db) /\ Writing /\ Remembered /\ Pending

\* The tables after all four writes.
LEMMA Written ==
  ASSUME NEW d \in Tables, NEW u \in Updates, Bounded(u.records)
  PROVE  /\ Provenanced(d, u) \in Tables /\ Contributed(d, u) \in Tables /\ Revised(d, u) \in Tables
         /\ Complete(d, u) \in Tables
         /\ Complete(d, u).evidence = d.evidence
         /\ Complete(d, u).prov[ChainOf(u.belief)] = Latest(d.prov[ChainOf(u.belief)], u.records)
         /\ \A c \in Chains \ {ChainOf(u.belief)} : Complete(d, u).prov[c] = d.prov[c]
         /\ Complete(d, u).rows[u.belief] =
              [head |-> u.rev, count |-> IndependentTotal(d, u),
               time |-> IF d.rows[u.belief] = NoRow THEN u.time ELSE Latest(d.rows[u.belief].time, {u.time})]
         /\ Complete(d, u).uses[u.belief] = d.uses[u.belief] \cup u.used
         /\ Complete(d, u).revs[u.belief] = Append(d.revs[u.belief],
              [rev |-> u.rev, kind |-> u.kind, used |-> u.used, time |-> u.time, late |-> u.late,
               root |-> u.root, count |-> IndependentTotal(d, u)])
         /\ \A b \in Beliefs \ {u.belief} : /\ Complete(d, u).rows[b] = d.rows[b]
                                            /\ Complete(d, u).uses[b] = d.uses[b]
                                            /\ Complete(d, u).revs[b] = d.revs[b]
<1> DEFINE w1 == Provenanced(d, u)
           w2 == Contributed(d, u)
           w3 == Revised(d, u)
           w4 == Complete(d, u)
<1>0. u.time \in Nat /\ u.belief \in Beliefs
  BY DEF Updates
<1>1. /\ w1 \in Tables /\ w1.prov[ChainOf(u.belief)] = Latest(d.prov[ChainOf(u.belief)], u.records)
      /\ \A c \in Chains \ {ChainOf(u.belief)} : w1.prov[c] = d.prov[c]
      /\ w1.rows = d.rows /\ w1.uses = d.uses /\ w1.revs = d.revs /\ w1.evidence = d.evidence
  BY ProvenanceWritten DEF Provenanced
<1> HIDE DEF w1
<1>2. /\ w2 \in Tables
      /\ w2.rows[u.belief] = IF d.rows[u.belief] = NoRow THEN [head |-> 0, time |-> u.time, count |-> 0]
                             ELSE d.rows[u.belief]
      /\ w2.uses[u.belief] = d.uses[u.belief] \cup u.used
      /\ \A b \in Beliefs \ {u.belief} : w2.rows[b] = d.rows[b] /\ w2.uses[b] = d.uses[b]
      /\ w2.prov = w1.prov /\ w2.revs = d.revs /\ w2.evidence = d.evidence
  <2>1. w2 = InsertContributions(w1, u)
    BY DEF Contributed, w1
  <2> HIDE DEF w2
  <2> QED BY <1>1, <2>1, ContributionsWritten
<1> HIDE DEF w2
<1>3. /\ w3 \in Tables
      /\ w3.revs[u.belief] = Append(d.revs[u.belief],
           [rev |-> u.rev, kind |-> u.kind, used |-> u.used, time |-> u.time, late |-> u.late,
            root |-> u.root, count |-> IndependentTotal(d, u)])
      /\ \A b \in Beliefs \ {u.belief} : w3.revs[b] = d.revs[b]
      /\ w3.prov = w1.prov /\ w3.rows = w2.rows /\ w3.uses = w2.uses /\ w3.evidence = d.evidence
  <2>1. w3 = InsertRevision(w2, d, u)
    BY DEF Revised, w2
  <2>2. /\ InsertRevision(w2, d, u) \in Tables
        /\ InsertRevision(w2, d, u).revs[u.belief] = Append(w2.revs[u.belief],
             [rev |-> u.rev, kind |-> u.kind, used |-> u.used, time |-> u.time, late |-> u.late,
              root |-> u.root, count |-> IndependentTotal(d, u)])
        /\ \A b \in Beliefs \ {u.belief} : InsertRevision(w2, d, u).revs[b] = w2.revs[b]
        /\ InsertRevision(w2, d, u).prov = w2.prov /\ InsertRevision(w2, d, u).rows = w2.rows
        /\ InsertRevision(w2, d, u).uses = w2.uses /\ InsertRevision(w2, d, u).evidence = w2.evidence
    BY <1>2, RevisionWritten
  <2> HIDE DEF w3
  <2> QED BY <1>2, <2>1, <2>2
<1> HIDE DEF w3
<1>4. /\ w4 \in Tables
      /\ w4.rows[u.belief] = [head |-> u.rev, time |-> Latest(w2.rows[u.belief].time, {u.time}),
                              count |-> IndependentTotal(d, u)]
      /\ \A b \in Beliefs \ {u.belief} : w4.rows[b] = w2.rows[b]
      /\ w4.prov = w1.prov /\ w4.revs = w3.revs /\ w4.uses = w2.uses /\ w4.evidence = d.evidence
  <2>1. w4 = MoveHead(w3, d, u)
    BY DEF Complete, w3
  <2>2. /\ MoveHead(w3, d, u) \in Tables
        /\ MoveHead(w3, d, u).rows[u.belief] =
             [head |-> u.rev, time |-> Latest(w3.rows[u.belief].time, {u.time}), count |-> IndependentTotal(d, u)]
        /\ \A b \in Beliefs \ {u.belief} : MoveHead(w3, d, u).rows[b] = w3.rows[b]
        /\ MoveHead(w3, d, u).prov = w3.prov /\ MoveHead(w3, d, u).revs = w3.revs
        /\ MoveHead(w3, d, u).uses = w3.uses /\ MoveHead(w3, d, u).evidence = w3.evidence
    BY <1>3, HeadWritten
  <2> HIDE DEF w4
  <2> QED BY <1>3, <2>1, <2>2
<1> HIDE DEF w4
<1>5. Latest(w2.rows[u.belief].time, {u.time}) =
        IF d.rows[u.belief] = NoRow THEN u.time ELSE Latest(d.rows[u.belief].time, {u.time})
  <2>1. CASE d.rows[u.belief] = NoRow
    <3>1. w2.rows[u.belief].time = u.time
      BY <1>2, <2>1
    <3>2. Latest(u.time, {u.time}) = u.time
      BY <1>0, LatestOfTwo
    <3> QED BY <2>1, <3>1, <3>2
  <2>2. CASE d.rows[u.belief] # NoRow
    BY <1>2, <2>2
  <2> QED BY <2>1, <2>2
<1>6. w4.rows[u.belief] =
        [head |-> u.rev, count |-> IndependentTotal(d, u),
         time |-> IF d.rows[u.belief] = NoRow THEN u.time ELSE Latest(d.rows[u.belief].time, {u.time})]
  BY <1>4, <1>5
<1>7. w1 \in Tables /\ w2 \in Tables /\ w3 \in Tables /\ w4 \in Tables /\ w4.evidence = d.evidence
  BY <1>1, <1>2, <1>3, <1>4
<1>8. /\ w4.prov[ChainOf(u.belief)] = Latest(d.prov[ChainOf(u.belief)], u.records)
      /\ \A c \in Chains \ {ChainOf(u.belief)} : w4.prov[c] = d.prov[c]
      /\ w4.uses[u.belief] = d.uses[u.belief] \cup u.used
      /\ w4.revs[u.belief] = Append(d.revs[u.belief],
           [rev |-> u.rev, kind |-> u.kind, used |-> u.used, time |-> u.time, late |-> u.late,
            root |-> u.root, count |-> IndependentTotal(d, u)])
  BY <1>1, <1>2, <1>3, <1>4
<1>9. \A b \in Beliefs \ {u.belief} : w4.rows[b] = d.rows[b] /\ w4.uses[b] = d.uses[b] /\ w4.revs[b] = d.revs[b]
  BY <1>2, <1>3, <1>4
<1> QED BY <1>6, <1>7, <1>8, <1>9 DEF w1, w2, w3, w4

LEMMA AgreesIsWhole ==
  ASSUME db \in Tables, Agrees(db)
  PROVE  WholeCommits
<1>1. SUFFICES ASSUME NEW b \in Beliefs
               PROVE  LET revs == db.revs[b]
                          row == db.rows[b] IN
                      /\ row.head = Len(revs) - 1
                      /\ \A i \in DOMAIN revs :
                           /\ revs[i].rev = i - 1
                           /\ revs[i].root \in 1..db.prov[ChainOf(b)]
                      /\ revs # <<>> => /\ row.count = revs[Len(revs)].count
                                        /\ row.time = Max({revs[i].time : i \in DOMAIN revs})
                      /\ db.uses[b] = UNION {revs[i].used : i \in DOMAIN revs}
                      /\ db.uses[b] \subseteq db.evidence
  BY DEF WholeCommits
<1> DEFINE revs == db.revs[b]
           row == db.rows[b]
           S == {revs[i].time : i \in DOMAIN revs}
<1>2. Whole(db, b)
  BY DEF Agrees
<1>3. revs \in Seq(Revisions)
  BY DEF Tables
<1>4. revs # <<>> => row.time = Max(S)
  <2> HAVE revs # <<>>
  <2>1. \A i \in DOMAIN revs : revs[i].time \in Int
    <3>1. \A i \in DOMAIN revs : revs[i] \in Revisions
      BY <1>3
    <3>2. \A x \in Revisions : x.time \in Int
      BY DEF Revisions
    <3> QED BY <3>1, <3>2
  <2>2. S \subseteq Int
    BY <2>1
  <2>3. row.time \in S /\ \A x \in S : x <= row.time
    BY <1>2 DEF Whole
  <2> HIDE DEF S
  <2>4. Max(S) = row.time
    BY <2>2, <2>3, MaxIsGreatest
  <2> QED BY <2>4
<1> QED BY <1>2, <1>4 DEF Whole

LEMMA CountGrows ==
  ASSUME NEW uses, uses \subseteq Evidence, NEW used, used \subseteq Evidence
  PROVE  Cardinality(GroupsOf(uses \cup used))
           = Cardinality(GroupsOf(uses)) + Cardinality(GroupsOf(used) \ GroupsOf(uses))
<1> DEFINE A == GroupsOf(uses)
           B == GroupsOf(used) \ GroupsOf(uses)
<1>1. IsFiniteSet(A) /\ IsFiniteSet(B) /\ Cardinality(A) \in Nat /\ Cardinality(B) \in Nat
  <2>1. IsFiniteSet(A) /\ IsFiniteSet(GroupsOf(used))
    BY GroupsFinite
  <2>2. B \in SUBSET GroupsOf(used)
    OBVIOUS
  <2> HIDE DEF A, B
  <2>3. IsFiniteSet(B)
    BY <2>1, <2>2, FS_Subset
  <2> QED BY <2>1, <2>3, FS_CardinalityType
<1>2. GroupsOf(uses \cup used) = A \cup B
  BY DEF GroupsOf
<1>3. A \cap B = {}
  OBVIOUS
<1>4. Cardinality(A \cap B) = 0
  BY <1>3, FS_EmptySet
<1> HIDE DEF A, B
<1>5. Cardinality(A \cup B) = Cardinality(A) + Cardinality(B) - Cardinality(A \cap B)
  BY <1>1, FS_Union
<1>6. Cardinality(A \cup B) = Cardinality(A) + Cardinality(B)
  BY <1>1, <1>4, <1>5
<1> QED BY <1>2, <1>6 DEF A, B

\* A commit that was not refused leaves whole tables.
LEMMA CommitIsWhole ==
  ASSUME NEW d \in Tables, NEW u \in Updates, Bounded(u.records), Agrees(d), ~Refused(d, u), u.root >= 1
  PROVE  Agrees(Complete(d, u))
<1> DEFINE e == Complete(d, u)
           chain == ChainOf(u.belief)
           r == [rev |-> u.rev, kind |-> u.kind, used |-> u.used, time |-> u.time, late |-> u.late,
                 root |-> u.root, count |-> IndependentTotal(d, u)]
           row == d.rows[u.belief]
           t == IF row = NoRow THEN u.time ELSE Latest(row.time, {u.time})
<1>1. /\ u.belief \in Beliefs /\ u.used \subseteq Evidence /\ u.time \in Nat /\ u.root \in Nat
      /\ u.rev \in Nat /\ u.records \subseteq Nat /\ chain \in Chains
  BY DomainType DEF Updates
<1>2. /\ e \in Tables /\ e.evidence = d.evidence
      /\ e.prov[chain] = Latest(d.prov[chain], u.records) /\ \A c \in Chains \ {chain} : e.prov[c] = d.prov[c]
      /\ e.rows[u.belief] = [head |-> u.rev, count |-> IndependentTotal(d, u), time |-> t]
      /\ e.uses[u.belief] = d.uses[u.belief] \cup u.used
      /\ e.revs[u.belief] = Append(d.revs[u.belief], r)
      /\ \A b \in Beliefs \ {u.belief} : e.rows[b] = d.rows[b] /\ e.uses[b] = d.uses[b] /\ e.revs[b] = d.revs[b]
  <2>1. /\ Complete(d, u) \in Tables
        /\ Complete(d, u).evidence = d.evidence
        /\ Complete(d, u).prov[ChainOf(u.belief)] = Latest(d.prov[ChainOf(u.belief)], u.records)
        /\ \A c \in Chains \ {ChainOf(u.belief)} : Complete(d, u).prov[c] = d.prov[c]
    BY Written
  <2>2. Complete(d, u).rows[u.belief] =
          [head |-> u.rev, count |-> IndependentTotal(d, u),
           time |-> IF d.rows[u.belief] = NoRow THEN u.time ELSE Latest(d.rows[u.belief].time, {u.time})]
    BY Written
  <2>3. /\ Complete(d, u).uses[u.belief] = d.uses[u.belief] \cup u.used
        /\ Complete(d, u).revs[u.belief] = Append(d.revs[u.belief],
             [rev |-> u.rev, kind |-> u.kind, used |-> u.used, time |-> u.time, late |-> u.late,
              root |-> u.root, count |-> IndependentTotal(d, u)])
    BY Written
  <2>4. \A b \in Beliefs \ {u.belief} : /\ Complete(d, u).rows[b] = d.rows[b]
                                        /\ Complete(d, u).uses[b] = d.uses[b]
                                        /\ Complete(d, u).revs[b] = d.revs[b]
    BY Written
  <2> QED BY <2>1, <2>2, <2>3, <2>4
<1> HIDE DEF e
<1>3. /\ u.rev = row.head + 1 /\ u.used \subseteq d.evidence
      /\ u.root \in 1 .. d.prov[chain] \cup u.records
  BY DEF Refused, PredecessorMismatch, NotArchived, Dangling
<1>4. /\ row \in Rows /\ d.revs[u.belief] \in Seq(Revisions) /\ d.uses[u.belief] \subseteq Evidence
      /\ \A c \in Chains : d.prov[c] \in Nat /\ e.prov[c] \in Nat
  BY <1>1, <1>2 DEF Tables
<1>5. \A c \in Chains : d.prov[c] <= e.prov[c]
  <2>1. d.prov[chain] <= Latest(d.prov[chain], u.records)
    BY <1>1, <1>4, LatestIs
  <2>2. d.prov[chain] <= e.prov[chain]
    BY <1>2, <2>1
  <2>3. ASSUME NEW c \in Chains \ {chain} PROVE d.prov[c] <= e.prov[c]
    BY <1>2, <1>4, <2>3
  <2> QED BY <2>2, <2>3
<1>6. u.root \in 1 .. e.prov[chain]
  <2>1. \A n \in u.records : n <= Latest(d.prov[chain], u.records)
    BY <1>1, <1>4, LatestIs
  <2>2. u.root <= e.prov[chain]
    <3>1. CASE u.root \in u.records
      BY <1>2, <2>1, <3>1
    <3>2. CASE u.root \in 1 .. d.prov[chain]
      BY <1>1, <1>4, <1>5, <3>2
    <3> QED BY <1>3, <3>1, <3>2
  <2> QED BY <1>1, <1>4, <2>2
<1>7. ASSUME NEW b \in Beliefs \ {u.belief} PROVE Whole(e, b)
  <2>1. Whole(d, b) /\ ChainOf(b) \in Chains
    BY DomainType DEF Agrees
  <2>2. d.prov[ChainOf(b)] \in Nat /\ e.prov[ChainOf(b)] \in Nat /\ d.prov[ChainOf(b)] <= e.prov[ChainOf(b)]
    BY <1>4, <1>5, <2>1
  <2>3. 1 .. d.prov[ChainOf(b)] \subseteq 1 .. e.prov[ChainOf(b)]
    BY <2>2
  <2>4. e.revs[b] = d.revs[b] /\ e.rows[b] = d.rows[b] /\ e.uses[b] = d.uses[b] /\ e.evidence = d.evidence
    BY <1>2
  <2>5. \A i \in DOMAIN d.revs[b] : d.revs[b][i].root \in 1 .. e.prov[ChainOf(b)]
    BY <2>1, <2>3 DEF Whole
  <2> QED BY <2>1, <2>4, <2>5 DEF Whole
<1>8. Whole(e, u.belief)
  <2> DEFINE b == u.belief
             old == d.revs[b]
             revs == e.revs[b]
             n == Len(old)
  <2>1. Whole(d, b)
    BY <1>1 DEF Agrees
  <2>2. r \in Revisions
    BY TotalType DEF Updates, Revisions
  <2>3. /\ revs = Append(old, r) /\ old \in Seq(Revisions) /\ n \in Nat /\ DOMAIN old = 1 .. n
    BY <1>2, <1>4
  <2>4. /\ revs # <<>> /\ Len(revs) = n + 1 /\ DOMAIN revs = 1 .. (n + 1)
        /\ \A i \in 1 .. n : revs[i] = old[i]
        /\ revs[n + 1] = r
    <3> HIDE DEF r, revs, old
    <3>1. revs \in Seq(Revisions) /\ revs # <<>> /\ Len(revs) = n + 1 /\ revs[n + 1] = r
          /\ \A i \in 1 .. n : revs[i] = old[i]
      BY <2>2, <2>3, AppendProperties
    <3> QED BY <2>3, <3>1
  <2>5. /\ row.head = n - 1 /\ row.time \in Nat \cup {-1}
        /\ \A i \in 1 .. n : /\ old[i].rev = i - 1 /\ old[i].root \in 1 .. d.prov[chain]
                             /\ old[i].time <= row.time /\ old[i].time \in Nat
        /\ old # <<>> => \E i \in 1 .. n : old[i].time = row.time
        /\ old = <<>> => row.time = -1
        /\ d.uses[b] = UNION {old[i].used : i \in 1 .. n} /\ d.uses[b] \subseteq d.evidence
        /\ row.count = Cardinality(GroupsOf(d.uses[b]))
    <3>1. row.time \in Nat \cup {-1}
      BY <1>4 DEF Rows
    <3>2. \A i \in 1 .. n : old[i].time \in Nat
      <4>1. \A i \in 1 .. n : old[i] \in Revisions
        BY <2>3
      <4>2. \A x \in Revisions : x.time \in Nat
        BY DEF Revisions
      <4> QED BY <4>1, <4>2
    <3>3. /\ row.head = n - 1
          /\ \A i \in 1 .. n : /\ old[i].rev = i - 1 /\ old[i].root \in 1 .. d.prov[chain]
                               /\ old[i].time <= row.time
      BY <2>1, <2>3 DEF Whole
    <3>4. /\ old # <<>> => \E i \in 1 .. n : old[i].time = row.time
          /\ old = <<>> => row.time = -1
          /\ d.uses[b] = UNION {old[i].used : i \in 1 .. n} /\ d.uses[b] \subseteq d.evidence
          /\ row.count = Cardinality(GroupsOf(d.uses[b]))
      BY <2>1, <2>3 DEF Whole
    <3> QED BY <3>1, <3>2, <3>3, <3>4
  <2>6. /\ e.rows[b].head = u.rev /\ e.rows[b].count = IndependentTotal(d, u) /\ e.rows[b].time = t
        /\ r.rev = u.rev /\ r.root = u.root /\ r.time = u.time /\ r.used = u.used /\ r.count = IndependentTotal(d, u)
    BY <1>2
  <2>7. IndependentTotal(d, u) = Cardinality(GroupsOf(d.uses[b] \cup u.used))
    <3>1. IndependentTotal(d, u) = row.count + Cardinality(GroupsOf(u.used) \ GroupsOf(d.uses[b]))
      BY DEF IndependentTotal, GroupsOf
    <3>2. Cardinality(GroupsOf(d.uses[b] \cup u.used))
            = Cardinality(GroupsOf(d.uses[b])) + Cardinality(GroupsOf(u.used) \ GroupsOf(d.uses[b]))
      BY <1>1, <1>4, CountGrows
    <3> QED BY <2>5, <3>1, <3>2
  <2>8. t \in Nat /\ u.time <= t /\ row.time <= t /\ (t = u.time \/ (t = row.time /\ old # <<>>))
    <3>1. row = NoRow => row.time = -1 /\ t = u.time
      BY DEF NoRow
    <3>2. row # NoRow => t = IF row.time <= u.time THEN u.time ELSE row.time
      BY <1>1, <2>5, LatestOfTwo
    <3> HIDE DEF t
    <3> QED BY <1>1, <2>5, <3>1, <3>2
  <2> HIDE DEF t, r, row, old, revs, e
  <2>9. e.rows[b].head = Len(revs) - 1
    BY <1>3, <2>4, <2>5, <2>6
  <2>10. ASSUME NEW i \in DOMAIN revs
         PROVE  revs[i].rev = i - 1 /\ revs[i].root \in 1 .. e.prov[chain] /\ revs[i].time <= t
    <3>1. CASE i = n + 1
      BY <1>3, <1>6, <2>4, <2>5, <2>6, <2>8, <3>1
    <3>2. CASE i \in 1 .. n
      <4>1. revs[i].rev = i - 1 /\ revs[i].root \in 1 .. d.prov[chain] /\ revs[i].time <= row.time
            /\ revs[i].time \in Nat
        BY <2>4, <2>5, <3>2
      <4>2. d.prov[chain] \in Nat /\ e.prov[chain] \in Nat /\ d.prov[chain] <= e.prov[chain]
        BY <1>1, <1>4, <1>5
      <4> QED BY <2>5, <2>8, <4>1, <4>2
    <3> QED BY <2>3, <2>4, <3>1, <3>2
  <2>11. e.rows[b].count = revs[Len(revs)].count
    BY <2>4, <2>6
  <2>12. \E i \in DOMAIN revs : revs[i].time = t
    <3>1. CASE t = u.time
      <4>1. n + 1 \in DOMAIN revs /\ revs[n + 1].time = t
        BY <2>3, <2>4, <2>6, <3>1
      <4> QED BY <4>1
    <3>2. CASE t = row.time /\ old # <<>>
      <4>1. PICK i \in 1 .. n : old[i].time = row.time
        BY <2>5, <3>2
      <4>2. i \in DOMAIN revs /\ revs[i].time = t
        BY <2>3, <2>4, <3>2, <4>1
      <4> QED BY <4>2
    <3> QED BY <2>8, <3>1, <3>2
  <2>13. e.uses[b] = UNION {revs[i].used : i \in DOMAIN revs}
    <3>1. \A i \in DOMAIN revs : revs[i].used = IF i \in 1 .. n THEN old[i].used ELSE u.used
      BY <2>3, <2>4, <2>6
    <3>2. DOMAIN revs = 1 .. n \cup {n + 1} /\ n + 1 \notin 1 .. n
      BY <2>3, <2>4
    <3>3. UNION {revs[i].used : i \in DOMAIN revs} = (UNION {old[i].used : i \in 1 .. n}) \cup u.used
      BY <3>1, <3>2
    <3> QED BY <1>2, <2>5, <3>3
  <2>14. e.uses[b] \subseteq e.evidence
    BY <1>2, <1>3, <2>5
  <2>15. e.rows[b].count = Cardinality(GroupsOf(e.uses[b]))
    BY <1>2, <2>6, <2>7
  <2> QED BY <2>4, <2>6, <2>9, <2>10, <2>11, <2>12, <2>13, <2>14, <2>15 DEF Whole, revs
<1>9. e.prov["component"] >= 1
  <2>1. "component" \in Chains /\ d.prov["component"] >= 1
    BY DEF Agrees, Chains
  <2> QED BY <1>4, <1>5, <2>1
<1>10. \A b \in Beliefs : Whole(e, b)
  BY <1>7, <1>8
<1> QED BY <1>9, <1>10 DEF Agrees, e

LEMMA NoPending ==
  ASSUME todo = <<>>
  PROVE  Pending
BY DEF Pending

LEMMA InitStored ==
  ASSUME Init, Typed
  PROVE  Stored
<1>1. /\ db.evidence = {}
      /\ db.prov = [c \in Chains |-> IF c \in Created THEN 1 ELSE 0]
      /\ db.rows = [b \in Beliefs |-> IF b \in Created THEN [head |-> 0, time |-> 0, count |-> 0] ELSE NoRow]
      /\ db.uses = [b \in Beliefs |-> {}]
      /\ db.revs = [b \in Beliefs |-> IF b \in Created THEN <<First>> ELSE <<>>]
      /\ child.rev = [b \in Beliefs |-> IF b \in Created THEN 0 ELSE -1]
      /\ child.time = [c \in Chains |-> IF c \in Created THEN 0 ELSE -1]
      /\ child.root = [c \in Chains |-> IF c \in Created THEN 1 ELSE 0]
      /\ child.undrained = {}
      /\ tx = NoTx /\ todo = <<>>
  BY DEF Init, EmptyTables
<1>2. /\ Created \subseteq Beliefs /\ Created \subseteq Chains /\ "component" \in Created
      /\ \A b \in Created : ChainOf(b) = b
  BY DEF Created, Beliefs, Technical, Ecological, Chains, ChainOf
<1>3. GroupsOf({}) = {} /\ Cardinality({}) = 0
  BY FS_EmptySet DEF GroupsOf
<1>4. ASSUME NEW b \in Beliefs PROVE Whole(db, b)
  <2>1. CASE b \in Created
    <3>1. /\ db.revs[b] = <<First>> /\ db.rows[b] = [head |-> 0, time |-> 0, count |-> 0] /\ db.uses[b] = {}
          /\ db.prov[ChainOf(b)] = 1
      BY <1>1, <1>2, <2>1
    <3>2. Len(<<First>>) = 1 /\ DOMAIN <<First>> = {1} /\ <<First>>[1] = First /\ <<First>> # <<>>
      OBVIOUS
    <3>3. First.rev = 0 /\ First.root = 1 /\ First.time = 0 /\ First.used = {} /\ First.count = 0
      BY DEF First
    <3>4. 1 \in 1 .. 1 /\ 1 \in {1}
      OBVIOUS
    <3>5. \A i \in {1} : <<First>>[i].rev = i - 1 /\ <<First>>[i].root \in 1 .. 1 /\ <<First>>[i].time <= 0
      BY <3>2, <3>3
    <3>6. {} = UNION {<<First>>[i].used : i \in {1}}
      BY <3>2, <3>3
    <3>7. /\ Len(db.revs[b]) = 1 /\ DOMAIN db.revs[b] = {1} /\ db.revs[b] # <<>> /\ db.revs[b][1].time = 0
          /\ db.revs[b][1].count = 0
          /\ db.rows[b].head = 0 /\ db.rows[b].time = 0 /\ db.rows[b].count = 0 /\ 1 - 1 = 0
      BY <3>1, <3>2, <3>3
    <3>8. \A i \in DOMAIN db.revs[b] : /\ db.revs[b][i].rev = i - 1
                                       /\ db.revs[b][i].root \in 1 .. db.prov[ChainOf(b)]
                                       /\ db.revs[b][i].time <= db.rows[b].time
      BY <3>1, <3>5, <3>7
    <3>9. \E i \in DOMAIN db.revs[b] : db.revs[b][i].time = db.rows[b].time
      BY <3>4, <3>7
    <3>10. db.uses[b] = UNION {db.revs[b][i].used : i \in DOMAIN db.revs[b]}
      BY <3>1, <3>2, <3>6
    <3> QED BY <1>3, <3>1, <3>7, <3>8, <3>9, <3>10 DEF Whole
  <2>2. CASE b \notin Created
    <3>1. db.revs[b] = <<>> /\ db.rows[b] = NoRow /\ db.uses[b] = {}
      BY <1>1, <2>2
    <3>2. Len(<<>>) = 0 /\ DOMAIN <<>> = {} /\ 0 - 1 = -1
      OBVIOUS
    <3>3. NoRow.head = -1 /\ NoRow.time = -1 /\ NoRow.count = 0
      BY DEF NoRow
    <3> QED BY <1>3, <3>1, <3>2, <3>3 DEF Whole
  <2> QED BY <2>1, <2>2
<1>5. Agrees(db)
  <2>1. db.prov["component"] >= 1
    BY <1>1, <1>2
  <2> QED BY <1>4, <2>1 DEF Agrees
<1>6. Writing
  BY <1>1 DEF Writing
<1>7. Remembered
  <2>1. \A b \in Beliefs : db.rows[b].time <= child.time[ChainOf(b)]
    <3> TAKE b \in Beliefs
    <3>1. CASE b \in Created
      BY <1>1, <1>2, <3>1
    <3>2. CASE b \notin Created
      <4>1. db.rows[b].time = -1
        BY <1>1, <3>2 DEF NoRow
      <4>2. child.time[ChainOf(b)] \in {0, -1}
        BY <1>1, DomainType
      <4> QED BY <4>1, <4>2
    <3> QED BY <3>1, <3>2
  <2>2. \A b \in Beliefs \ Technical : child.rev[b] = db.rows[b].head /\ child.root[b] = db.prov[b]
    <3> TAKE b \in Beliefs \ Technical
    <3>1. b \in Chains
      BY DEF Beliefs, Chains
    <3> QED BY <1>1, <3>1 DEF NoRow
  <2>3. \A b \in Technical : child.rev[b] = db.rows[b].head
    <3> TAKE b \in Technical
    <3>1. b \in Beliefs
      BY DEF Beliefs
    <3> QED BY <1>1, <3>1 DEF NoRow
  <2>4. child.root["component"] = 1 /\ db.prov["component"] = 1
    BY <1>1, <1>2
  <2>5. Undrained = {}
    BY <2>4 DEF Undrained
  <2>6. ~Draining /\ tx = NoTx /\ child.undrained = {}
    BY <1>1 DEF Draining
  <2>7. db.prov["component"] <= child.root["component"]
    BY <2>4
  <2> QED BY <2>1, <2>2, <2>3, <2>5, <2>6, <2>7 DEF Remembered
<1> QED BY <1>1, <1>5, <1>6, <1>7, NoPending DEF Stored

\* A step that leaves the tables, the transaction and the children alone leaves them in agreement.
LEMMA StoreUnchanged ==
  ASSUME Stored, db' = db, tx' = tx, child' = child, failed' = failed, todo' = todo
  PROVE  Agrees(db)' /\ Writing' /\ Remembered'
BY DEF Stored, Writing, Remembered, Draining, Undrained

LEMMA Idle ==
  ASSUME Typed, Stored, tx # NoTx \/ todo # <<>>
  PROVE  /\ todo # <<>> /\ phase \in Domains \cup {"dispatch", "end"}
         /\ phase \in Domains => taken \cap Of(phase) = {}
BY DEF Typed, Working, Stored, Pending

LEMMA SenseStored ==
  ASSUME Typed, Stored, Sense
  PROVE  Stored'
<1>1. phase = "sense" /\ db' = db /\ tx' = tx /\ child' = child /\ failed' = failed /\ todo' = todo
  BY DEF Sense, store, work
<1>2. "sense" \notin Domains \cup {"dispatch", "end"}
  BY DEF Domains
<1>3. todo' = <<>>
  BY <1>1, <1>2, Idle
<1>4. Pending'
  BY <1>3 DEF Pending
<1> QED BY <1>1, <1>4, StoreUnchanged DEF Stored

LEMMA LeaveStored ==
  ASSUME Typed, Stored, NEW domain \in Domains, Leave(domain)
  PROVE  Stored'
<1>1. db' = db /\ tx' = tx /\ child' = child /\ failed' = failed /\ todo' = todo /\ todo' = <<>>
  BY DEF Leave, store
<1>2. Pending'
  BY <1>1 DEF Pending
<1> QED BY <1>1, <1>2, StoreUnchanged DEF Stored

LEMMA PublishStored ==
  ASSUME Typed, Stored, Publish
  PROVE  Stored'
<1>1. db' = db /\ tx' = tx /\ child' = child /\ failed' = failed /\ todo' = todo /\ todo' = <<>>
  BY DEF Publish, store, work
<1>2. Pending'
  BY <1>1 DEF Pending
<1> QED BY <1>1, <1>2, StoreUnchanged DEF Stored

LEMMA EndTickStored ==
  ASSUME Typed, Stored, EndTick
  PROVE  Stored'
<1>1. db' = db /\ tx' = tx /\ child' = child /\ failed' = failed /\ todo' = todo /\ todo' = <<>>
  BY DEF EndTick, store, work
<1>2. Pending'
  BY <1>1 DEF Pending
<1> QED BY <1>1, <1>2, StoreUnchanged DEF Stored

LEMMA ContextStored ==
  ASSUME Typed, Stored, todo = <<>>, "technical" \notin failed, TakeContext,
         db' = db, tx' = tx, failed' = failed, phase' \in {"dispatch", "end"}
  PROVE  Stored'
<1>1. tx = NoTx /\ ~Draining
  BY DEF Typed, Working, Draining
<1>2. /\ todo' = <<Revise("component", "CONTEXT", {}, now)>>
      /\ child'.root = [child.root EXCEPT !["component"] = child.root["component"] + 1]
      /\ child'.undrained = child.undrained \cup {child.root["component"] + 1}
      /\ child'.rev = child.rev /\ child'.time = child.time
  BY ContextStep DEF Typed, RecordsBounded
<1>3. child.root \in [Chains -> Nat] /\ "component" \in Chains /\ db.prov["component"] \in Nat
  BY DEF Typed, TypeOK, Memories, Tables, Chains
<1>4. \A b \in Beliefs \ Technical : child'.root[b] = child.root[b]
  <2> TAKE b \in Beliefs \ Technical
  <2>1. b # "component" /\ b \in Chains
    BY DEF Beliefs, Technical, Chains
  <2> QED BY <1>2, <1>3, <2>1
<1>5. /\ db.prov["component"] <= child'.root["component"]
      /\ child'.undrained = Undrained'
  <2>1. /\ child'.root["component"] = child.root["component"] + 1 /\ child.root["component"] \in Nat
        /\ db.prov["component"] <= child.root["component"]
    BY <1>2, <1>3 DEF Stored, Remembered
  <2>2. child.undrained = (db.prov["component"] + 1) .. child.root["component"]
    BY <1>1 DEF Stored, Remembered, Undrained
  <2>3. (db.prov["component"] + 1) .. (child.root["component"] + 1)
          = ((db.prov["component"] + 1) .. child.root["component"]) \cup {child.root["component"] + 1}
    BY <1>3, <2>1
  <2> QED BY <1>2, <1>3, <2>1, <2>2, <2>3 DEF Undrained
<1>6. Remembered'
  BY <1>1, <1>2, <1>4, <1>5 DEF Stored, Remembered, Draining
<1>7. Pending'
  <2> DEFINE r == Revise("component", "CONTEXT", {}, now)
  <2>1. todo' = <<r>> /\ DOMAIN todo' = {1} /\ todo'[1] = r
    BY <1>2
  <2>2. r.belief = "component" /\ r.kind = "CONTEXT" /\ r.used = {}
    BY DEF Revise
  <2>3. DomainOf("component") = "technical"
    BY DomainFacts DEF Technical
  <2>4. phase' \notin Domains /\ phase' \in {"dispatch", "end"}
    BY DEF Domains
  <2> HIDE DEF r
  <2> QED BY <2>1, <2>2, <2>3, <2>4 DEF Pending
<1>8. Writing'
  BY <1>1 DEF Writing
<1> QED BY <1>6, <1>7, <1>8 DEF Stored

LEMMA DispatchStored ==
  ASSUME Typed, Stored, Dispatch
  PROVE  Stored'
<1>1. /\ todo = <<>> /\ phase' \in {"dispatch", "end"} /\ db' = db /\ tx' = tx /\ failed' = failed
      /\ ("technical" \notin failed /\ TakeContext) \/ (child' = child /\ todo' = todo)
  BY DEF Dispatch, store
<1>2. CASE "technical" \notin failed /\ TakeContext
  BY <1>1, <1>2, ContextStored
<1>3. CASE child' = child /\ todo' = todo
  <2>1. Pending'
    BY <1>1, <1>3 DEF Pending
  <2> QED BY <1>1, <1>3, <2>1, StoreUnchanged DEF Stored
<1> QED BY <1>1, <1>2, <1>3

LEMMA DecideStored ==
  ASSUME Typed, Stored, Decide
  PROVE  Stored'
<1>1. /\ todo = <<>> /\ phase' \in {"dispatch", "end"} /\ db' = db /\ tx' = tx /\ failed' = failed
      /\ ("technical" \notin failed /\ TakeContext) \/ (child' = child /\ todo' = todo)
  BY DEF Decide, store
<1>2. CASE "technical" \notin failed /\ TakeContext
  BY <1>1, <1>2, ContextStored
<1>3. CASE child' = child /\ todo' = todo
  <2>1. Pending'
    BY <1>1, <1>3 DEF Pending
  <2> QED BY <1>1, <1>3, <2>1, StoreUnchanged DEF Stored
<1> QED BY <1>1, <1>2, <1>3

LEMMA RememberFields ==
  ASSUME NEW c \in Memories, NEW domain, NEW used
  PROVE  LET d == Remember(c, domain, used)
         IN  /\ d.rev = c.rev /\ d.time = c.time
             /\ domain # "technical" => d = c
             /\ domain = "technical" =>
                  /\ d.root = [c.root EXCEPT !["component"] = c.root["component"] + 1]
                  /\ d.undrained = c.undrained \cup {c.root["component"] + 1}
<1>1. CASE domain # "technical"
  BY <1>1 DEF Remember
<1>2. CASE domain = "technical"
  BY <1>2 DEF Memories, Remember
<1> QED BY <1>1, <1>2

LEMMA IngestStored ==
  ASSUME Typed, Stored, NEW domain \in Domains, Ingest(domain)
  PROVE  Stored'
<1> DEFINE used == {Encoded(o) : o \in taken \cap Of(domain)}
<1>1. /\ phase = domain /\ domain \notin failed /\ taken \cap Of(domain) # {}
      /\ db' = PutEvidence(db, used) /\ child' = Remember(child, domain, used)
      /\ \E plan \in Plans(domain, used) : todo' = plan
      /\ taken' = taken \ Of(domain) /\ phase' = phase /\ tx' = tx /\ failed' = failed
  BY DEF Ingest
<1>2. /\ used \subseteq Evidence /\ used # {}
      /\ \A e \in used : e.obs \in taken \cap Of(domain) /\ TimeOf[e.obs] <= now
  BY <1>1, ArchivedType
<1> HIDE DEF used
<1>3. todo = <<>> /\ tx = NoTx /\ ~Draining
  BY <1>1, Idle DEF Draining
<1>4. TypeOK /\ db \in Tables /\ child \in Memories
  BY DEF Typed, TypeOK
<1>5. /\ db'.evidence = db.evidence \cup used /\ db'.prov = db.prov /\ db'.rows = db.rows
      /\ db'.uses = db.uses /\ db'.revs = db.revs
  BY <1>1, <1>4 DEF PutEvidence, Tables
<1>6. Agrees(db)'
  <2>1. ASSUME NEW b \in Beliefs PROVE Whole(db', b)
    <3>1. Whole(db, b)
      BY DEF Stored, Agrees
    <3> QED BY <1>5, <3>1 DEF Whole
  <2>2. db'.prov["component"] >= 1
    BY <1>5 DEF Stored, Agrees
  <2> QED BY <2>1, <2>2 DEF Agrees
<1>7. Writing'
  BY <1>1, <1>3 DEF Writing
<1>8. Remembered'
  <2> DEFINE kept == Remember(child, domain, used)
  <2>0. /\ kept.rev = child.rev /\ kept.time = child.time
        /\ domain # "technical" => kept = child
        /\ domain = "technical" =>
             /\ kept.root = [child.root EXCEPT !["component"] = child.root["component"] + 1]
             /\ kept.undrained = child.undrained \cup {child.root["component"] + 1}
    BY <1>4, RememberFields
  <2>9. child' = kept
    BY <1>1
  <2> HIDE DEF kept
  <2>1. child'.rev = child.rev /\ child'.time = child.time
    BY <2>0, <2>9
  <2>2. ~Draining' /\ tx' = NoTx
    BY <1>1, <1>3 DEF Draining
  <2>3. CASE domain # "technical"
    <3>1. child' = child
      BY <2>0, <2>9, <2>3
    <3> QED BY <1>1, <1>3, <1>5, <2>2, <3>1 DEF Stored, Remembered, Undrained
  <2>4. CASE domain = "technical"
    <3>1. /\ child'.root = [child.root EXCEPT !["component"] = child.root["component"] + 1]
          /\ child'.undrained = child.undrained \cup {child.root["component"] + 1}
      BY <2>0, <2>9, <2>4
    <3>2. child.root \in [Chains -> Nat] /\ "component" \in Chains /\ db.prov["component"] \in Nat
      BY <1>4 DEF Memories, Tables, Chains
    <3>3. \A b \in Beliefs \ Technical : child'.root[b] = child.root[b]
      <4> TAKE b \in Beliefs \ Technical
      <4>1. b # "component" /\ b \in Chains
        BY DEF Beliefs, Technical, Chains
      <4> QED BY <3>1, <3>2, <4>1
    <3>4. "technical" \notin failed
      BY <1>1, <2>4
    <3>5. /\ child'.root["component"] = child.root["component"] + 1 /\ child.root["component"] \in Nat
          /\ db.prov["component"] <= child.root["component"]
      BY <3>1, <3>2, <3>4 DEF Stored, Remembered
    <3>6. child.undrained = (db.prov["component"] + 1) .. child.root["component"]
      BY <1>3, <3>4 DEF Stored, Remembered, Undrained
    <3>7. (db.prov["component"] + 1) .. (child.root["component"] + 1)
            = ((db.prov["component"] + 1) .. child.root["component"]) \cup {child.root["component"] + 1}
      BY <3>2, <3>5
    <3>8. child'.undrained = Undrained' /\ db'.prov["component"] <= child'.root["component"]
      BY <1>5, <3>1, <3>2, <3>5, <3>6, <3>7 DEF Undrained
    <3> QED BY <1>1, <1>3, <1>5, <2>1, <2>2, <3>3, <3>8 DEF Stored, Remembered
  <2> QED BY <2>3, <2>4
<1>9. Pending'
  <2>1. SoundPlan(todo', domain, used)
    BY <1>1, <1>2, <1>4, PlansAreSound
  <2>2. used \cap db.evidence = {}
    BY <1>2 DEF Typed, Admitted
  <2>3. ASSUME NEW i \in DOMAIN todo'
        PROVE  /\ DomainOf(todo'[i].belief) = domain /\ todo'[i].belief \in Beliefs
               /\ todo'[i].used \subseteq used /\ todo'[i].kind # "CONTEXT"
               /\ (todo'[i].kind = "DIRECT" <=> todo'[i].used # {})
    BY <2>1 DEF SoundPlan, Sound, Planned
  <2>4. ASSUME NEW i \in DOMAIN todo'
        PROVE  todo'[i].used \cap db'.uses[todo'[i].belief] = {}
    <3>1. db.uses[todo'[i].belief] \subseteq db.evidence
      BY <2>3 DEF Stored, Agrees, Whole
    <3> QED BY <1>5, <2>2, <2>3, <3>1
  <2>5. \A i, j \in DOMAIN todo' : i # j => todo'[i].belief # todo'[j].belief
    BY <2>1 DEF SoundPlan
  <2>6. phase' \in Domains /\ taken' \cap Of(phase') = {}
    BY <1>1
  <2>7. \A i \in DOMAIN todo' :
          /\ DomainOf(todo'[i].belief) = phase' /\ DomainOf(todo'[i].belief) \notin failed'
          /\ todo'[i].used \subseteq db'.evidence /\ todo'[i].kind # "CONTEXT"
          /\ (todo'[i].kind = "DIRECT" <=> todo'[i].used # {})
    BY <1>1, <1>5, <2>3
  <2> QED BY <2>4, <2>5, <2>6, <2>7 DEF Pending
<1> QED BY <1>6, <1>7, <1>8, <1>9 DEF Stored

LEMMA RaiseStored ==
  ASSUME Typed, Stored, Raise
  PROVE  Stored'
<1>1. /\ tx.at > 0 /\ tx' = NoTx /\ todo' = <<>> /\ db' = db /\ child' = child
      /\ failed' = failed \cup {DomainOf(tx.update.belief)}
  BY DEF Raise
<1>2. tx # NoTx /\ tx.update.belief \in Beliefs
  BY <1>1, TxFacts DEF Typed, TypeOK, Transactions, Updates
<1>3. Agrees(db)' /\ Writing' /\ Pending'
  BY <1>1 DEF Stored, Writing, Pending
<1>4. ~Draining'
  BY <1>1 DEF Draining
<1>5. "technical" \notin failed' => "technical" \notin failed /\ ~Draining
  BY <1>1, DomainFacts DEF Draining
<1>6. Remembered'
  BY <1>1, <1>4, <1>5 DEF Stored, Remembered, Undrained
<1> QED BY <1>3, <1>6 DEF Stored

LEMMA ExecuteStored ==
  ASSUME Typed, Stored, Execute
  PROVE  Stored'
<1> DEFINE u == tx.update
<1>1. TypeOK
  BY DEF Typed
<1>2. /\ tx \in Transactions /\ tx # NoTx /\ tx.at \in 1 .. 4
      /\ tx' = [at |-> tx.at + 1, update |-> u, copy |-> Write(tx.at, tx.copy, db, u)]
      /\ db' = db /\ child' = child /\ failed' = failed /\ todo' = todo /\ phase' = phase /\ taken' = taken
  BY <1>1, ExecuteStep
<1>3. tx'.at = tx.at + 1 /\ tx'.update = u /\ tx'.copy = Write(tx.at, tx.copy, db, u)
  BY <1>2
<1>4. tx' # NoTx
  BY <1>2, <1>3 DEF NoTx
<1>5. /\ u.belief = todo[1].belief /\ u.kind = todo[1].kind /\ u.used = todo[1].used
      /\ ~Refused(db, u) /\ u.root >= 1
  BY <1>2 DEF Stored, Writing
<1>6. /\ tx'.at = 2 => tx'.copy = Provenanced(db, u)
      /\ tx'.at = 3 => tx'.copy = Contributed(db, u)
      /\ tx'.at = 4 => tx'.copy = Revised(db, u)
      /\ tx'.at = 5 => tx'.copy = Complete(db, u)
  <2>1. CASE tx.at = 1
    <3>1. tx.copy = db
      BY <1>2, <2>1 DEF Stored, Writing
    <3> QED BY <1>3, <2>1, <3>1, WriteIs DEF Provenanced
  <2>2. CASE tx.at = 2
    <3>1. tx.copy = Provenanced(db, u)
      BY <1>2, <2>2 DEF Stored, Writing
    <3> QED BY <1>3, <2>2, <3>1, WriteIs DEF Contributed
  <2>3. CASE tx.at = 3
    <3>1. tx.copy = Contributed(db, u)
      BY <1>2, <2>3 DEF Stored, Writing
    <3> QED BY <1>3, <2>3, <3>1, WriteIs DEF Revised
  <2>4. CASE tx.at = 4
    <3>1. tx.copy = Revised(db, u)
      BY <1>2, <2>4 DEF Stored, Writing
    <3> QED BY <1>3, <2>4, <3>1, WriteIs DEF Complete
  <2> QED BY <1>2, <2>1, <2>2, <2>3, <2>4
<1>7. tx'.at # 1
  BY <1>2, <1>3
<1>8. Writing'
  BY <1>2, <1>3, <1>5, <1>6, <1>7 DEF Writing
<1>9. Draining' = Draining
  BY <1>2, <1>3, <1>4 DEF Draining
<1>10. Remembered'
  <2>1. Undrained' = Undrained
    BY <1>2 DEF Undrained
  <2> QED BY <1>2, <1>3, <1>4, <1>9, <2>1 DEF Stored, Remembered
<1>11. Agrees(db)' /\ Pending'
  BY <1>2 DEF Stored, Pending
<1> QED BY <1>8, <1>10, <1>11 DEF Stored

\* What a child in service hands to the repository is not refused.
LEMMA Acceptable ==
  ASSUME Typed, Stored, Begin
  PROVE  LET u == UpdateOf(todo[1]) IN ~Refused(db, u) /\ u.root >= 1
<1> DEFINE r == todo[1]
           b == r.belief
           u == UpdateOf(r)
<1>1. TypeOK /\ child \in Memories /\ db \in Tables /\ todo # <<>> /\ tx = NoTx /\ ~Draining
  BY DEF Typed, TypeOK, Begin, Draining
<1>2. r \in Planned /\ b \in Beliefs /\ r.time \in Nat /\ 1 \in DOMAIN todo
  BY <1>1, HeadOfTodo DEF Planned, TypeOK
<1>3. /\ DomainOf(b) \notin failed /\ r.used \subseteq db.evidence /\ r.used \cap db.uses[b] = {}
  BY <1>2 DEF Stored, Pending
<1>4. /\ u.belief = b /\ u.used = r.used /\ u.time = r.time /\ u.late = IsLate(r) /\ u.rev = child.rev[b] + 1
      /\ b \in Technical => u.root = child.root["component"] /\ u.records = child.undrained
      /\ b \notin Technical => u.root = child.root[b] + 1 /\ u.records = {child.root[b] + 1}
  BY <1>2, UpdateType
<1> HIDE DEF u
<1>5. b \in Technical => "technical" \notin failed
  BY <1>3, DomainFacts
<1>6. ~PredecessorMismatch(db, u)
  <2>1. child.rev[b] = db.rows[b].head
    BY <1>1, <1>2, <1>5 DEF Stored, Remembered
  <2> QED BY <1>4, <2>1 DEF PredecessorMismatch
<1>7. ~StaleUpdate(db, u)
  <2>1. db.rows[b].time <= child.time[ChainOf(b)]
    BY <1>2 DEF Stored, Remembered
  <2>2. db.rows[b].time \in Int /\ child.time[ChainOf(b)] \in Int
    BY <1>1, <1>2, DomainType DEF Tables, Rows, Memories
  <2>3. ~u.late => child.time[ChainOf(b)] <= u.time
    <3>1. ~u.late => ~(r.time < child.time[ChainOf(b)])
      BY <1>4, Zenon DEF IsLate
    <3> QED BY <1>2, <1>4, <2>2, <3>1
  <2> QED BY <1>2, <1>4, <2>1, <2>2, <2>3 DEF StaleUpdate
<1>8. ~DuplicateEvidence(db, u) /\ ~NotArchived(db, u)
  BY <1>3, <1>4 DEF DuplicateEvidence, NotArchived
<1>9. ~Dangling(db, u) /\ u.root >= 1
  <2>1. db.prov[ChainOf(b)] \in Nat /\ db.prov["component"] >= 1
    BY <1>1, <1>2, DomainType DEF Tables, Stored, Agrees
  <2>2. CASE b \in Technical
    <3> DEFINE p == db.prov["component"]
               n == child.root["component"]
    <3>1. ChainOf(b) = "component"
      BY <2>2 DEF ChainOf
    <3>2. p \in Nat /\ n \in Nat /\ p >= 1 /\ p <= n /\ child.undrained = (p + 1) .. n
      BY <1>1, <1>5, <2>1, <2>2, <3>1 DEF Stored, Remembered, Memories, Undrained, Chains
    <3>3. u.root = n /\ u.records = (p + 1) .. n
      BY <1>4, <2>2, <3>2
    <3> HIDE DEF p, n
    <3>4. 1 .. p \cup u.records = 1 .. n
      BY <3>2, <3>3
    <3>5. u.root \in 1 .. n /\ u.root >= 1
      BY <3>2, <3>3
    <3>6. \A x \in u.records : x - 1 \in 1 .. n
      BY <3>2, <3>3
    <3> QED BY <1>4, <3>1, <3>4, <3>5, <3>6 DEF Dangling, p
  <2>3. CASE b \notin Technical
    <3> DEFINE p == db.prov[b]
    <3>1. ChainOf(b) = b
      BY <2>3 DEF ChainOf
    <3>2. child.root[b] = p
      BY <1>2, <2>3 DEF Stored, Remembered
    <3>3. p \in Nat
      BY <2>1, <3>1
    <3>4. u.root = p + 1 /\ u.records = {p + 1}
      BY <1>4, <2>3, <3>2
    <3> HIDE DEF p
    <3>5. u.root >= 1 /\ \A x \in u.records : x > 1 => x - 1 \in 1 .. p
      BY <3>3, <3>4
    <3> QED BY <1>4, <3>1, <3>4, <3>5 DEF Dangling, p
  <2> QED BY <2>2, <2>3
<1> QED BY <1>6, <1>7, <1>8, <1>9 DEF Refused, u

LEMMA BeginStored ==
  ASSUME Typed, Stored, Begin
  PROVE  Stored'
<1> DEFINE r == todo[1]
           b == r.belief
           u == UpdateOf(r)
<1>1. TypeOK /\ child \in Memories /\ db \in Tables /\ todo # <<>> /\ tx = NoTx /\ ~Draining
  BY DEF Typed, TypeOK, Begin, Draining
<1>2. r \in Planned /\ b \in Beliefs /\ 1 \in DOMAIN todo /\ r = Head(todo)
  BY <1>1, HeadOfTodo DEF Planned, TypeOK
<1>3. /\ tx' = [at |-> 1, update |-> u, copy |-> db]
      /\ child' = IF b \in Technical
                  THEN [child EXCEPT !.rev = [child.rev EXCEPT ![b] = child.rev[b] + 1], !.undrained = {}] ELSE child
      /\ db' = db /\ failed' = failed /\ todo' = todo /\ phase' = phase /\ taken' = taken
  BY <1>2 DEF Begin, admission
<1>4. tx'.at = 1 /\ tx'.update = u /\ tx'.copy = db /\ tx' # NoTx
  BY <1>3 DEF NoTx
<1>5. /\ u.belief = b /\ u.kind = r.kind /\ u.used = r.used
      /\ b \in Technical => u.root = child.root["component"] /\ u.records = child.undrained
      /\ b \notin Technical => u.root = child.root[b] + 1 /\ u.records = {child.root[b] + 1}
  BY <1>2, UpdateType
<1>6. ~Refused(db, u) /\ u.root >= 1
  BY Acceptable
<1> HIDE DEF u
<1>7. Writing'
  BY <1>3, <1>4, <1>5, <1>6 DEF Writing
<1>8. Remembered'
  <2>1. CASE b \in Technical
    <3>1. /\ child'.rev = [child.rev EXCEPT ![b] = child.rev[b] + 1] /\ child'.undrained = {}
          /\ child'.time = child.time /\ child'.root = child.root
      BY <1>1, <1>3, <2>1 DEF Memories
    <3>2. child.rev \in [Beliefs -> Nat \cup {-1}]
      BY <1>1 DEF Memories
    <3>3. Draining' /\ tx'.update.belief = b
      BY <1>4, <1>5, <2>1 DEF Draining
    <3>4. \A c \in Beliefs \ Technical : child'.rev[c] = child.rev[c]
      BY <2>1, <3>1, <3>2
    <3>5. "technical" \notin failed =>
            /\ \A c \in Technical :
                 child'.rev[c] = IF tx'.update.belief = c THEN db.rows[c].head + 1 ELSE db.rows[c].head
            /\ db.prov["component"] <= child.root["component"]
            /\ u.root = child.root["component"] /\ u.records = Undrained
      <4> HAVE "technical" \notin failed
      <4>1. ASSUME NEW c \in Technical
            PROVE child'.rev[c] = IF tx'.update.belief = c THEN db.rows[c].head + 1 ELSE db.rows[c].head
        <5>1. c \in Beliefs /\ child.rev[c] = db.rows[c].head
          BY <1>1 DEF Stored, Remembered, Beliefs
        <5> QED BY <1>2, <3>1, <3>2, <3>3, <5>1
      <4> QED BY <1>1, <1>5, <2>1, <4>1 DEF Stored, Remembered
    <3>6. Undrained' = Undrained
      BY <1>3, <3>1 DEF Undrained
    <3> QED BY <1>3, <1>4, <3>1, <3>3, <3>4, <3>5, <3>6 DEF Stored, Remembered
  <2>2. CASE b \notin Technical
    <3>1. child' = child /\ ~Draining'
      BY <1>3, <1>4, <1>5, <2>2 DEF Draining
    <3>2. child.root[b] = db.prov[b]
      BY <1>2, <2>2 DEF Stored, Remembered
    <3>3. tx'.update.root = db.prov[tx'.update.belief] + 1 /\ tx'.update.records = {db.prov[tx'.update.belief] + 1}
      BY <1>4, <1>5, <2>2, <3>2
    <3>4. Undrained' = Undrained
      BY <1>3, <3>1 DEF Undrained
    <3> QED BY <1>1, <1>3, <3>1, <3>3, <3>4 DEF Stored, Remembered
  <2> QED BY <2>1, <2>2
<1>9. Agrees(db)' /\ Pending'
  BY <1>3 DEF Stored, Pending
<1> QED BY <1>7, <1>8, <1>9 DEF Stored

LEMMA CommitStored ==
  ASSUME Typed, Stored, Commit
  PROVE  Stored'
<1> DEFINE u == tx.update
           b == u.belief
           chain == ChainOf(b)
<1>1. TypeOK /\ child \in Memories /\ db \in Tables /\ todo \in Seq(Planned) /\ todo # <<>>
  BY CommitStep DEF Typed, TypeOK, Working
<1>2. /\ tx \in Transactions /\ tx # NoTx /\ tx.at = 5 /\ u \in Updates /\ b \in Beliefs
      /\ db' = tx.copy /\ tx' = NoTx /\ todo' = Tail(todo) /\ child' \in Memories
      /\ child'.rev = [child.rev EXCEPT ![b] = u.rev]
      /\ child'.time = [child.time EXCEPT ![chain] = Latest(child.time[chain], {u.time})]
      /\ child'.root = [child.root EXCEPT ![chain] = u.root]
      /\ child'.undrained = child.undrained
      /\ failed' = failed /\ phase' = phase /\ taken' = taken
  BY <1>1, CommitStep
<1>3. chain \in Chains /\ Bounded(u.records) /\ u.time \in Nat /\ u.rev \in Nat
  BY <1>2, DomainType DEF Typed, RecordsBounded, Updates
<1>4. /\ b = todo[1].belief /\ ~Refused(db, u) /\ u.root >= 1 /\ tx.copy = Complete(db, u)
  BY <1>2 DEF Stored, Writing
<1>5. /\ db'.evidence = db.evidence
      /\ db'.prov[chain] = Latest(db.prov[chain], u.records)
      /\ \A c \in Chains \ {chain} : db'.prov[c] = db.prov[c]
      /\ db'.rows[b].head = u.rev
      /\ db'.rows[b].time = IF db.rows[b] = NoRow THEN u.time ELSE Latest(db.rows[b].time, {u.time})
      /\ \A c \in Beliefs \ {b} : db'.rows[c] = db.rows[c] /\ db'.uses[c] = db.uses[c]
      /\ db' \in Tables
  <2> HIDE DEF u
  <2>1. /\ Complete(db, u).evidence = db.evidence
        /\ Complete(db, u).prov[ChainOf(u.belief)] = Latest(db.prov[ChainOf(u.belief)], u.records)
        /\ \A c \in Chains \ {ChainOf(u.belief)} : Complete(db, u).prov[c] = db.prov[c]
        /\ Complete(db, u).rows[u.belief] =
             [head |-> u.rev, count |-> IndependentTotal(db, u),
              time |-> IF db.rows[u.belief] = NoRow THEN u.time ELSE Latest(db.rows[u.belief].time, {u.time})]
        /\ \A c \in Beliefs \ {u.belief} : /\ Complete(db, u).rows[c] = db.rows[c]
                                           /\ Complete(db, u).uses[c] = db.uses[c]
        /\ Complete(db, u) \in Tables
    <3>1. db \in Tables /\ u \in Updates /\ Bounded(u.records)
      BY <1>1, <1>2, <1>3
    <3> QED BY <3>1, Written
  <2>2. db' = Complete(db, u)
    BY <1>2, <1>4
  <2> QED BY <2>1, <2>2
<1>6. u.rev = db.rows[b].head + 1
  BY <1>4 DEF Refused, PredecessorMismatch
<1>7. Agrees(db)'
  <2> HIDE DEF u
  <2>1. Agrees(Complete(db, u))
    BY <1>1, <1>2, <1>3, <1>4, CommitIsWhole DEF Stored
  <2>2. db' = Complete(db, u)
    BY <1>2, <1>4
  <2> QED BY <2>1, <2>2
<1>8. Writing' /\ ~Draining'
  BY <1>2 DEF Writing, Draining
<1> HIDE DEF u
<1>9. \A c \in Beliefs : db'.rows[c].time <= child'.time[ChainOf(c)]
  <2> TAKE c \in Beliefs
  <2>1. /\ db.rows[c].time <= child.time[ChainOf(c)] /\ ChainOf(c) \in Chains
        /\ db.rows[c].time \in Int /\ child.time[ChainOf(c)] \in Int /\ child.time[chain] \in Int
        /\ child.time \in [Chains -> Nat \cup {-1}] /\ db.rows[b].time \in Int
    <3>1. db.rows[c].time <= child.time[ChainOf(c)]
      BY DEF Stored, Remembered
    <3>2. ChainOf(c) \in Chains /\ db.rows[c] \in Rows /\ db.rows[b] \in Rows
      BY <1>1, <1>2, DomainType DEF Tables
    <3>3. db.rows[c].time \in Int /\ db.rows[b].time \in Int
      BY <3>2 DEF Rows
    <3>4. child.time \in [Chains -> Nat \cup {-1}]
      BY <1>1 DEF Memories
    <3>5. \A x \in Chains : child.time[x] \in Int
      BY <3>4
    <3> QED BY <1>3, <3>1, <3>2, <3>3, <3>4, <3>5
  <2>2. /\ Latest(child.time[chain], {u.time}) = IF child.time[chain] <= u.time THEN u.time ELSE child.time[chain]
        /\ Latest(db.rows[b].time, {u.time}) = IF db.rows[b].time <= u.time THEN u.time ELSE db.rows[b].time
    BY <1>3, <2>1, LatestOfTwo
  <2>3. CASE c = b
    <3>1. child'.time[ChainOf(c)] = Latest(child.time[chain], {u.time})
      BY <1>2, <2>1, <2>3
    <3>2. db'.rows[c].time \in {u.time, Latest(db.rows[b].time, {u.time})}
      BY <1>5, <2>3
    <3> QED BY <1>3, <2>1, <2>2, <2>3, <3>1, <3>2
  <2>4. CASE c # b /\ ChainOf(c) = chain
    <3>1. child'.time[ChainOf(c)] = Latest(child.time[chain], {u.time}) /\ db'.rows[c].time = db.rows[c].time
      BY <1>2, <1>5, <2>1, <2>4
    <3> QED BY <1>3, <2>1, <2>2, <2>4, <3>1
  <2>5. CASE c # b /\ ChainOf(c) # chain
    <3>1. child'.time[ChainOf(c)] = child.time[ChainOf(c)] /\ db'.rows[c].time = db.rows[c].time
      BY <1>2, <1>5, <2>1, <2>5
    <3> QED BY <2>1, <3>1
  <2> QED BY <2>3, <2>4, <2>5
<1>10. \A c \in Beliefs \ Technical : child'.rev[c] = db'.rows[c].head /\ child'.root[c] = db'.prov[c]
  <2> TAKE c \in Beliefs \ Technical
  <2>1. /\ child.rev[c] = db.rows[c].head /\ child.root[c] = db.prov[c] /\ ChainOf(c) = c /\ c \in Chains
        /\ child.rev \in [Beliefs -> Nat \cup {-1}] /\ child.root \in [Chains -> Nat]
    BY <1>1 DEF Stored, Remembered, ChainOf, Memories, Chains, Beliefs
  <2>2. CASE c = b
    <3>1. ~Draining /\ chain = c
      BY <2>1, <2>2 DEF Draining, u
    <3>2. u.root = db.prov[c] + 1 /\ u.records = {db.prov[c] + 1}
      BY <1>2, <2>2, <3>1 DEF Stored, Remembered, u
    <3>3. db.prov[c] \in Nat
      BY <1>1, <2>1 DEF Tables
    <3>4. Latest(db.prov[c], {db.prov[c] + 1}) = db.prov[c] + 1
      BY <3>3, LatestOfTwo
    <3>5. child'.rev[c] = u.rev /\ child'.root[c] = u.root
      BY <1>2, <2>1, <2>2, <3>1
    <3> QED BY <1>5, <2>2, <3>1, <3>2, <3>4, <3>5
  <2>3. CASE c # b
    <3>1. c # chain
      BY <2>1, <2>3 DEF ChainOf, Technical
    <3> QED BY <1>2, <1>5, <2>1, <2>3, <3>1
  <2> QED BY <2>2, <2>3
<1>11. "technical" \notin failed =>
         /\ \A c \in Technical : child'.rev[c] = db'.rows[c].head
         /\ db'.prov["component"] <= child'.root["component"]
         /\ child'.undrained = Undrained'
  <2> HAVE "technical" \notin failed
  <2>1. /\ child.rev \in [Beliefs -> Nat \cup {-1}] /\ child.root \in [Chains -> Nat] /\ "component" \in Chains
        /\ db.prov["component"] \in Nat /\ db.prov["component"] <= child.root["component"]
        /\ child.root["component"] \in Nat
    BY <1>1 DEF Stored, Remembered, Memories, Chains, Tables
  <2>2. ASSUME NEW c \in Technical PROVE child'.rev[c] = db'.rows[c].head
    <3>1. c \in Beliefs
      BY DEF Beliefs
    <3>2. CASE c = b
      BY <1>2, <1>5, <2>1, <3>1, <3>2
    <3>3. CASE c # b
      <4>1. child.rev[c] = db.rows[c].head
        BY <3>3 DEF Stored, Remembered, u
      <4> QED BY <1>2, <1>5, <2>1, <3>1, <3>3, <4>1
    <3> QED BY <3>2, <3>3
  <2>3. CASE b \in Technical
    <3> DEFINE p == db.prov["component"]
               n == child.root["component"]
    <3>1. Draining /\ chain = "component"
      BY <1>2, <2>3 DEF Draining, ChainOf, u
    <3>2. u.root = n /\ u.records = (p + 1) .. n /\ child.undrained = {}
      BY <3>1 DEF Stored, Remembered, Undrained, u
    <3>3. Latest(p, u.records) \in {p} \cup u.records /\ p <= Latest(p, u.records)
          /\ \A x \in u.records : x <= Latest(p, u.records)
      BY <1>3, <2>1, LatestIs
    <3>4. db'.prov["component"] = Latest(p, u.records) /\ child'.root["component"] = n
      BY <1>2, <1>5, <2>1, <3>1, <3>2
    <3> HIDE DEF p, n
    <3>5. p \in Nat /\ n \in Nat /\ p <= n
      BY <2>1 DEF p, n
    <3>6. Latest(p, u.records) = n
      <4> DEFINE l == Latest(p, u.records)
      <4>1. l \in {p} \cup ((p + 1) .. n) /\ p <= l /\ \A x \in (p + 1) .. n : x <= l
        BY <3>2, <3>3
      <4> HIDE DEF l
      <4>2. l \in Int /\ l <= n
        BY <3>5, <4>1
      <4>3. p < n => n \in (p + 1) .. n
        BY <3>5
      <4>4. n <= l
        BY <3>5, <4>1, <4>2, <4>3
      <4>5. l = n
        BY <3>5, <4>2, <4>4
      <4> QED BY <4>5 DEF l
    <3>7. (n + 1) .. n = {}
      BY <3>5
    <3>8. Undrained' = {}
      BY <3>4, <3>6, <3>7 DEF Undrained
    <3> QED BY <1>2, <2>2, <3>2, <3>4, <3>5, <3>6, <3>8
  <2>4. CASE b \notin Technical
    <3>1. ~Draining /\ chain # "component"
      BY <2>4 DEF Draining, ChainOf, Technical, u
    <3>2. child'.root["component"] = child.root["component"] /\ db'.prov["component"] = db.prov["component"]
      BY <1>2, <1>5, <2>1, <3>1
    <3>3. Undrained' = Undrained
      BY <3>2 DEF Undrained
    <3>4. child.undrained = Undrained
      BY <3>1 DEF Stored, Remembered
    <3> QED BY <1>2, <2>1, <2>2, <3>2, <3>3, <3>4
  <2> QED BY <2>3, <2>4
<1>12. Remembered'
  BY <1>2, <1>8, <1>9, <1>10, <1>11 DEF Remembered
<1>13. Pending'
  <2>1. /\ todo' = Tail(todo) /\ DOMAIN todo' = 1 .. (Len(todo) - 1) /\ DOMAIN todo = 1 .. Len(todo)
        /\ Len(todo) \in Nat /\ \A i \in DOMAIN todo' : todo'[i] = todo[i + 1]
    BY <1>1, <1>2
  <2>2. \A i \in DOMAIN todo' : i + 1 \in DOMAIN todo /\ i + 1 # 1 /\ 1 \in DOMAIN todo
    BY <2>1
  <2>3. \A i, j \in DOMAIN todo' : i # j => i + 1 # j + 1
    BY <2>1
  <2>4. ASSUME NEW i \in DOMAIN todo'
        PROVE  /\ todo'[i].used \subseteq db'.evidence /\ todo'[i].used \cap db'.uses[todo'[i].belief] = {}
    <3>4. \A x, y \in DOMAIN todo : x # y => todo[x].belief # todo[y].belief
      BY DEF Stored, Pending
    <3>5. i + 1 \in DOMAIN todo /\ 1 \in DOMAIN todo /\ i + 1 # 1 /\ todo'[i] = todo[i + 1]
      BY <2>1, <2>2
    <3>6. todo[i + 1].belief # todo[1].belief
      BY <3>4, <3>5
    <3>1. i + 1 \in DOMAIN todo /\ todo'[i] = todo[i + 1] /\ todo[i + 1].belief # b
      BY <1>4, <3>5, <3>6
    <3>2. todo[i + 1].belief \in Beliefs
      <4>1. todo[i + 1] \in Planned
        BY <1>1, <3>1
      <4> QED BY <4>1 DEF Planned
    <3>3. todo[i + 1].used \subseteq db.evidence /\ todo[i + 1].used \cap db.uses[todo[i + 1].belief] = {}
      BY <3>1 DEF Stored, Pending
    <3> QED BY <1>5, <3>1, <3>2, <3>3
  <2>5. \A i, j \in DOMAIN todo' : i # j => todo'[i].belief # todo'[j].belief
    BY <2>1, <2>2, <2>3 DEF Stored, Pending
  <2>6. phase \in Domains \cup {"dispatch", "end"} /\ (phase \in Domains => taken \cap Of(phase) = {})
    BY <1>1 DEF Stored, Pending
  <2>7. ASSUME NEW i \in DOMAIN todo'
        PROVE  /\ DomainOf(todo'[i].belief) \notin failed /\ (todo'[i].kind = "DIRECT" <=> todo'[i].used # {})
               /\ IF phase \in Domains THEN DomainOf(todo'[i].belief) = phase /\ todo'[i].kind # "CONTEXT"
                  ELSE todo'[i].belief = "component" /\ todo'[i].kind = "CONTEXT"
    <3>1. i + 1 \in DOMAIN todo /\ todo'[i] = todo[i + 1]
      BY <2>1, <2>2
    <3>2. \A x \in DOMAIN todo :
            /\ DomainOf(todo[x].belief) \notin failed /\ (todo[x].kind = "DIRECT" <=> todo[x].used # {})
            /\ IF phase \in Domains THEN DomainOf(todo[x].belief) = phase /\ todo[x].kind # "CONTEXT"
               ELSE todo[x].belief = "component" /\ todo[x].kind = "CONTEXT"
      BY DEF Stored, Pending
    <3> QED BY <3>1, <3>2
  <2>8. \A i \in DOMAIN todo' :
          /\ DomainOf(todo'[i].belief) \notin failed' /\ (todo'[i].kind = "DIRECT" <=> todo'[i].used # {})
          /\ IF phase' \in Domains THEN DomainOf(todo'[i].belief) = phase' /\ todo'[i].kind # "CONTEXT"
             ELSE todo'[i].belief = "component" /\ todo'[i].kind = "CONTEXT"
    BY <1>2, <2>7
  <2>9. phase' \in Domains \cup {"dispatch", "end"} /\ (phase' \in Domains => taken' \cap Of(phase') = {})
    BY <1>2, <2>6
  <2>10. \A i \in DOMAIN todo' :
           /\ DomainOf(todo'[i].belief) \notin failed'
           /\ todo'[i].used \subseteq db'.evidence /\ todo'[i].used \cap db'.uses[todo'[i].belief] = {}
           /\ todo'[i].kind = "DIRECT" <=> todo'[i].used # {}
           /\ IF phase' \in Domains THEN DomainOf(todo'[i].belief) = phase' /\ todo'[i].kind # "CONTEXT"
              ELSE todo'[i].belief = "component" /\ todo'[i].kind = "CONTEXT"
    BY <2>4, <2>8, Zenon
  <2> QED BY <2>5, <2>9, <2>10, Zenon DEF Pending
<1> QED BY <1>7, <1>8, <1>12, <1>13 DEF Stored

LEMMA StutterStored ==
  ASSUME Stored, UNCHANGED vars
  PROVE  Stored'
<1>1. db' = db /\ tx' = tx /\ child' = child /\ failed' = failed /\ todo' = todo /\ phase' = phase /\ taken' = taken
  BY DEF vars, store, work, admission
<1>2. Pending'
  BY <1>1 DEF Stored, Pending
<1> QED BY <1>1, <1>2, StoreUnchanged DEF Stored

LEMMA StoredInductive ==
  ASSUME Typed, Stored, [Next]_vars
  PROVE  Stored'
BY SenseStored, IngestStored, LeaveStored, BeginStored, ExecuteStored, CommitStored, RaiseStored, PublishStored,
   DispatchStored, DecideStored, EndTickStored, StutterStored DEF Next

LEMMA PlaneInductive == Spec => [](Typed /\ Stored)
<1>1. Init => Typed /\ Stored
  BY InitTyped, InitStored
<1>2. Typed /\ Stored /\ [Next]_vars => (Typed /\ Stored)'
  BY TypedInductive, StoredInductive
<1> QED BY <1>1, <1>2, PTL DEF Spec

\* commit_update and its transaction (CC-03): in every state, with a fault between any two writes and whatever
\* was delivered, the committed tables are whole.
THEOREM CommitsAreWhole == Spec => []WholeCommits
<1>1. Typed /\ Stored => WholeCommits
  BY AgreesIsWhole DEF Typed, TypeOK, Stored
<1> QED BY <1>1, PlaneInductive, PTL

\* The children and the checks of commit_update: what a child remembers always agrees with the tables, so that
\* no commit of the runtime is refused, and a module is only ever lost to a database fault.
THEOREM NothingRefused == Spec => []NeverRefused
<1>1. Typed /\ Stored => NeverRefused
  <2> SUFFICES ASSUME Typed, Stored, tx.at = 1 PROVE ~Refused(db, tx.update)
    BY DEF NeverRefused
  <2>1. tx # NoTx
    BY DEF NoTx
  <2> QED BY <2>1 DEF Stored, Writing
<1> QED BY <1>1, PlaneInductive, PTL

-----------------------------------------------------------------------------
(***************************************************************************)
(* The plane implements the belief log: Init maps to Init, a commit to the *)
(* growth of one log, and every other step to a stutter.                   *)
(***************************************************************************)
LEMMA CommitFollows ==
  ASSUME Typed, Stored, Commit
  PROVE  Promise!Next
<1> DEFINE u == tx.update
           b == u.belief
           r == [rev |-> u.rev, kind |-> u.kind, used |-> u.used, time |-> u.time, late |-> u.late,
                 root |-> u.root, count |-> IndependentTotal(db, u)]
           old == db.revs[b]
<1>1. TypeOK /\ db \in Tables /\ todo \in Seq(Planned) /\ todo # <<>>
  BY CommitStep DEF Typed, TypeOK, Working
<1>2. /\ tx # NoTx /\ tx.at = 5 /\ u \in Updates /\ b \in Beliefs /\ db' = tx.copy
  BY <1>1, CommitStep
<1>3. Bounded(u.records) /\ u.used \subseteq Evidence
  BY <1>2 DEF Typed, RecordsBounded, Updates
<1>4. /\ b = todo[1].belief /\ u.kind = todo[1].kind /\ u.used = todo[1].used
      /\ ~Refused(db, u) /\ tx.copy = Complete(db, u)
  BY <1>2 DEF Stored, Writing
<1>5. 1 \in DOMAIN todo
  BY <1>1
<1>6. u.used # {} <=> u.kind = "DIRECT"
  <2>1. todo[1].kind = "DIRECT" <=> todo[1].used # {}
    BY <1>5 DEF Stored, Pending
  <2> QED BY <1>4, <2>1
<1>7. /\ u.rev = db.rows[b].head + 1 /\ u.used \cap db.uses[b] = {}
  BY <1>4 DEF Refused, PredecessorMismatch, DuplicateEvidence
<1>8. Whole(db, b)
  BY <1>2 DEF Stored, Agrees
<1>9. /\ old \in Seq(Revisions) /\ db.uses[b] \subseteq Evidence /\ db.rows[b] \in Rows
  BY <1>1, <1>2 DEF Tables
<1>10. r \in Revisions
  BY <1>1, <1>2, TotalType DEF Updates, Revisions
<1>11. /\ db'.revs[b] = Append(old, r) /\ \A c \in Beliefs \ {b} : db'.revs[c] = db.revs[c]
  <2> HIDE DEF u
  <2>1. db \in Tables /\ u \in Updates /\ Bounded(u.records)
    BY <1>1, <1>2, <1>3
  <2>2. /\ Complete(db, u).revs[u.belief] = Append(db.revs[u.belief],
             [rev |-> u.rev, kind |-> u.kind, used |-> u.used, time |-> u.time, late |-> u.late,
              root |-> u.root, count |-> IndependentTotal(db, u)])
        /\ \A c \in Beliefs \ {u.belief} : Complete(db, u).revs[c] = db.revs[c]
    BY <2>1, Written
  <2>3. db' = Complete(db, u)
    BY <1>2, <1>4
  <2> QED BY <2>2, <2>3
<1>12. IndependentTotal(db, u) = Cardinality(GroupsOf(u.used \cup db.uses[b]))
  <2>1. IndependentTotal(db, u) = db.rows[b].count + Cardinality(GroupsOf(u.used) \ GroupsOf(db.uses[b]))
    BY DEF IndependentTotal, GroupsOf
  <2>2. Cardinality(GroupsOf(db.uses[b] \cup u.used))
          = Cardinality(GroupsOf(db.uses[b])) + Cardinality(GroupsOf(u.used) \ GroupsOf(db.uses[b]))
    BY <1>3, <1>9, CountGrows
  <2>3. db.rows[b].count = Cardinality(GroupsOf(db.uses[b])) /\ u.used \cup db.uses[b] = db.uses[b] \cup u.used
    BY <1>8 DEF Whole
  <2> QED BY <2>1, <2>2, <2>3
<1>13. r.rev = u.rev /\ r.kind = u.kind /\ r.used = u.used /\ r.count = IndependentTotal(db, u)
  OBVIOUS
<1> HIDE DEF u, r, old
<1>14. /\ Append(old, r) \in Seq(Revisions) /\ Len(Append(old, r)) = Len(old) + 1
       /\ \A i \in 1 .. Len(old) : Append(old, r)[i] = old[i]
       /\ Append(old, r)[Len(old) + 1] = r /\ Len(old) \in Nat
  BY <1>9, <1>10, AppendProperties
<1>15. SubSeq(Append(old, r), 1, Len(old)) = old
  <2> DEFINE s == SubSeq(Append(old, r), 1, Len(old))
  <2>1. s = [i \in 1 .. Len(old) |-> Append(old, r)[i]]
    BY <1>14
  <2>2. old = [i \in 1 .. Len(old) |-> old[i]]
    BY <1>9
  <2> HIDE DEF s
  <2>3. s = old
    BY <1>14, <2>1, <2>2
  <2> QED BY <2>3 DEF s
<1>16. Promise!UsedIn(old) = db.uses[b]
  BY <1>8 DEF Whole, Promise!UsedIn, old
<1>17. Promise!Follows(r, old)
  <2>1. r.rev = Len(old)
    <3>1. db.rows[b].head = Len(old) - 1
      BY <1>8 DEF Whole, old
    <3>2. u.rev = (Len(old) - 1) + 1
      BY <1>7, <3>1
    <3> QED BY <1>13, <1>14, <3>2
  <2>2. \A e, f \in Evidence : e.obs = f.obs => e = f
    BY DEF Evidence
  <2>3. \A e, f \in r.used \cup Promise!UsedIn(old) : e.obs = f.obs => e = f
    BY <1>3, <1>9, <1>13, <1>16, <2>2
  <2>4. r.count = Cardinality({Group(e) : e \in r.used \cup Promise!UsedIn(old)})
    BY <1>12, <1>13, <1>16 DEF GroupsOf
  <2>5. r.used \cap Promise!UsedIn(old) = {} /\ (r.used # {} <=> r.kind = "DIRECT")
    BY <1>6, <1>7, <1>13, <1>16
  <2>6. \A S : Promise!Cardinality(S) = Cardinality(S)
    BY DEF Cardinality, Promise!Cardinality
  <2>7. r.count = Promise!Cardinality({Group(e) : e \in r.used \cup Promise!UsedIn(old)})
    BY <2>4, <2>6
  <2> QED BY <2>1, <2>3, <2>5, <2>7 DEF Promise!Follows
<1>18. Promise!Grow(b)
  BY <1>11, <1>14, <1>15, <1>17 DEF Promise!Grow, old
<1> QED BY <1>2, <1>18 DEF Promise!Next

LEMMA OtherStepsKeepLogs ==
  ASSUME Typed, [Next]_vars, ~Commit
  PROVE  UNCHANGED db.revs
<1>1. ASSUME NEW domain \in Domains, Ingest(domain) PROVE db'.revs = db.revs
  BY <1>1 DEF Ingest, PutEvidence, Typed, TypeOK, Tables
<1>2. CASE \A domain \in Domains : ~Ingest(domain)
  BY <1>2 DEF Next, Sense, Leave, Begin, Execute, Raise, Publish, Dispatch, Decide, EndTick, vars, store
<1> QED BY <1>1, <1>2

\* The plane implements the belief log of CC-01 to CC-03: a step of the runtime either adds one whole revision
\* to one belief, with evidence that is new to it and a count in which a shared capture counts once, or leaves
\* every log as it is.
THEOREM RefinesBeliefLog == Spec => ImplementsBeliefLog
<1>1. Init => Promise!Init
  <2> SUFFICES ASSUME Init, NEW b \in DOMAIN db.revs PROVE Len(db.revs[b]) <= 1
    BY DEF Promise!Init
  <2>1. db.revs = [c \in Beliefs |-> IF c \in Created THEN <<First>> ELSE <<>>]
    BY DEF Init, EmptyTables
  <2>2. db.revs[b] = <<First>> \/ db.revs[b] = <<>>
    BY <2>1
  <2>3. Len(<<First>>) = 1 /\ Len(<<>>) = 0
    OBVIOUS
  <2>4. Len(db.revs[b]) \in {0, 1}
    BY <2>2, <2>3
  <2>5. \A n \in {0, 1} : n <= 1
    OBVIOUS
  <2> QED BY <2>4, <2>5, Zenon
<1>2. Typed /\ Stored /\ [Next]_vars => [Promise!Next]_(db.revs)
  BY CommitFollows, OtherStepsKeepLogs
<1> QED BY <1>1, <1>2, PlaneInductive, PTL DEF Spec, ImplementsBeliefLog, Promise!Spec
=============================================================================
