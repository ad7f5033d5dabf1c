------------------------ MODULE DecisionUnitProofs ------------------------
(***************************************************************************)
(* Proofs about the decision unit: for every set of critical requirements, *)
(* every number of other requirements, consequence, window and limit of    *)
(* attempts, and whatever beliefs and cycles may say.                      *)
(***************************************************************************)
EXTENDS DecisionUnit, FiniteSetTheorems, FunctionTheorems, SequenceTheorems, WellFoundedInduction, TLAPS

-----------------------------------------------------------------------------
(***************************************************************************)
(* The order of the integers: what the maximum of a set is                 *)
(* (FiniteSetsExt!Max).                                                    *)
(***************************************************************************)
\* A set of naturals that has an element has a least one.
LEMMA LeastElement ==
  ASSUME NEW T, T \subseteq Nat, T # {}
  PROVE  \E x \in T : \A y \in T : x <= y
<1> DEFINE R == OpToRel(<, Nat)
<1>1. IsWellFoundedOn(R, Nat)
  BY NatLessThanWellFounded
<1>2. \A x, y \in Nat : y < x => <<y, x>> \in R
  BY DEF OpToRel
<1> HIDE DEF R
<1>3. PICK x \in T : \A y \in T : ~(<<y, x>> \in R)
  BY <1>1, WFMin
<1>4. ASSUME NEW y \in T PROVE x <= y
  <2>1. ~(y < x)
    BY <1>2, <1>3
  <2> QED BY <2>1
<1> QED BY <1>4

Bounded(S) == S \subseteq Int /\ \E B \in Int : \A x \in S : x <= B

\* A set of integers that has an element and a bound has a maximum.
LEMMA MaxOfBounded ==
  ASSUME NEW S, S # {}, Bounded(S)
  PROVE  Max(S) \in S /\ \A x \in S : x <= Max(S)
<1>0. S \subseteq Int
  BY DEF Bounded
<1> PICK B \in Int : \A x \in S : x <= B
  BY DEF Bounded
<1> DEFINE T == {B - x : x \in S}
<1>1. T \subseteq Nat /\ T # {}
  <2>1. ASSUME NEW x \in S PROVE B - x \in Nat
    <3>1. x \in Int /\ x <= B
      BY <1>0
    <3> QED BY <3>1
  <2> QED BY <2>1
<1> HIDE DEF T
<1>2. PICK t \in T : \A u \in T : t <= u
  BY <1>1, LeastElement
<1>3. PICK x \in S : t = B - x
  BY <1>2 DEF T
<1>4. ASSUME NEW y \in S PROVE x >= y
  <2>1. B - y \in T
    BY DEF T
  <2>2. B - x <= B - y
    BY <1>2, <1>3, <2>1
  <2> QED BY <1>0, <2>2
<1>5. \E z \in S : \A y \in S : z >= y
  BY <1>4
<1>6. Max(S) \in S /\ \A y \in S : Max(S) >= y
  BY <1>5 DEF Max
<1> QED BY <1>6

-----------------------------------------------------------------------------
\* A request is about one belief, in the history as on its way to the routing.
RequestsOne ==
  /\ \A i \in 1 .. Window :
       history[i].kind = "REQUEST_INFORMATION" => \E r \in Requirements : history[i].about = {r}
  /\ decision.kind = "REQUEST_INFORMATION" => \E r \in Requirements : decision.about = {r}
  /\ decision.cause = "CALIBRATION" => decision.kind = "REQUEST_INFORMATION"

\* The last n decisions are reports that are queued, no requirement in two of them.
Reporting(n) ==
  /\ \A i \in Window - n + 1 .. Window :
       history[i].kind = "STORE_AND_FORWARD" /\ history[i].about # {}
  /\ \A i, j \in Window - n + 1 .. Window : i # j => history[i].about \cap history[j].about = {}

\* Up to the retreat every cycle that had a reason for it reported something new.
ReportsThenRetreats ==
  /\ held => decision = NoAction
  /\ decision.kind \in {"REQUEST_INFORMATION", "REVISIT_REGION"} => retreatFor = 0
  /\ \/ (held \/ decision.kind \in Retreats) /\ retreatFor - 1 <= Cardinality(Requirements)
     \/ retreatFor <= Cardinality(Requirements) /\ Reporting(retreatFor)

DecisionInvariant ==
  /\ TypeOK
  /\ RequestsOne
-----------------------------------------------------------------------------
(***************************************************************************)
(* The powers of two: the recursive definition has a solution.             *)
(***************************************************************************)
PowersUpTo(n, g) == g \in [0 .. n -> Nat] /\ g[0] = 1 /\ \A i \in 1 .. n : g[i] = 2 * g[i - 1]

LEMMA PowersExist == \A n \in Nat : \E g : PowersUpTo(n, g)
<1> DEFINE T == {n \in Nat : ~ \E g : PowersUpTo(n, g)}
<1>1. SUFFICES ASSUME T # {} PROVE FALSE
  OBVIOUS
<1>2. PICK n \in T : \A m \in T : n <= m
  <2>1. T \subseteq Nat
    OBVIOUS
  <2> HIDE DEF T
  <2> QED BY <1>1, <2>1, LeastElement
<1>3. CASE n = 0
  <2>1. PowersUpTo(0, [i \in 0 .. 0 |-> 1])
    BY DEF PowersUpTo
  <2> QED BY <1>3, <2>1
<1>4. CASE n # 0
  <2>1. n \in Nat /\ n - 1 \in Nat /\ n - 1 \notin T
    BY <1>2, <1>4
  <2>2. PICK g : PowersUpTo(n - 1, g)
    BY <2>1
  <2> DEFINE h == [i \in 0 .. n |-> IF i = n THEN 2 * g[n - 1] ELSE g[i]]
  <2>3. h \in [0 .. n -> Nat]
    BY <2>1, <2>2 DEF PowersUpTo
  <2>4. h[0] = 1
    BY <1>4, <2>1, <2>2 DEF PowersUpTo
  <2>5. ASSUME NEW i \in 1 .. n PROVE h[i] = 2 * h[i - 1]
    <3>1. i \in 0 .. n /\ i - 1 \in 0 .. n /\ i - 1 # n /\ (i # n => i \in 1 .. n - 1)
      BY <2>1
    <3>2. h[i - 1] = g[i - 1] /\ (i = n => h[i] = 2 * g[n - 1]) /\ (i # n => h[i] = g[i])
      BY <3>1
    <3>3. \A k \in 1 .. n - 1 : g[k] = 2 * g[k - 1]
      BY <2>2 DEF PowersUpTo
    <3> HIDE DEF h
    <3> QED BY <3>1, <3>2, <3>3
  <2>6. PowersUpTo(n, h)
    BY <2>3, <2>4, <2>5 DEF PowersUpTo
  <2> QED BY <1>2, <2>6
<1> QED BY <1>3, <1>4

LEMMA PowersUnique ==
  ASSUME NEW m \in Nat, NEW n \in Nat, NEW g, NEW h, PowersUpTo(m, g), PowersUpTo(n, h)
  PROVE  \A i \in 0 .. m : i <= n => g[i] = h[i]
<1> DEFINE T == {i \in 0 .. m : i <= n /\ g[i] # h[i]}
<1>1. SUFFICES ASSUME T # {} PROVE FALSE
  OBVIOUS
<1>2. PICK i \in T : \A j \in T : i <= j
  <2>1. T \subseteq Nat
    OBVIOUS
  <2> HIDE DEF T
  <2> QED BY <1>1, <2>1, LeastElement
<1>3. i # 0
  BY <1>2 DEF PowersUpTo
<1>4. i - 1 \in 0 .. m /\ i - 1 <= n /\ i - 1 \notin T
  BY <1>2, <1>3
<1>5. g[i - 1] = h[i - 1]
  BY <1>4
<1>6. g[i] = 2 * g[i - 1] /\ h[i] = 2 * h[i - 1]
  BY <1>2, <1>3, <1>4 DEF PowersUpTo
<1> QED BY <1>2, <1>5, <1>6

LEMMA PowerDef == Power = [n \in Nat |-> IF n = 0 THEN 1 ELSE 2 * Power[n - 1]]
<1> DEFINE G(n) == CHOOSE g : PowersUpTo(n, g)
           F == [n \in Nat |-> G(n)[n]]
<1>1. ASSUME NEW n \in Nat PROVE PowersUpTo(n, G(n))
  BY PowersExist
<1>2. ASSUME NEW n \in Nat PROVE F[n] = IF n = 0 THEN 1 ELSE 2 * F[n - 1]
  <2>1. CASE n = 0
    BY <1>1, <2>1 DEF PowersUpTo
  <2>2. CASE n # 0
    <3>1. n - 1 \in Nat /\ n - 1 \in 0 .. n - 1 /\ n - 1 <= n /\ n \in 1 .. n
      BY <2>2
    <3>2. PowersUpTo(n - 1, G(n - 1)) /\ PowersUpTo(n, G(n))
      BY <1>1, <3>1
    <3> HIDE DEF G
    <3>3. G(n - 1)[n - 1] = G(n)[n - 1]
      BY <3>1, <3>2, PowersUnique
    <3>4. G(n)[n] = 2 * G(n)[n - 1]
      BY <3>1, <3>2 DEF PowersUpTo
    <3> QED BY <2>2, <3>1, <3>3, <3>4
  <2> QED BY <2>1, <2>2
<1>3. F = [n \in Nat |-> F[n]]
  OBVIOUS
<1> HIDE DEF F
<1>4. [n \in Nat |-> F[n]] = [n \in Nat |-> IF n = 0 THEN 1 ELSE 2 * F[n - 1]]
  BY <1>2
<1>5. F = [n \in Nat |-> IF n = 0 THEN 1 ELSE 2 * F[n - 1]]
  BY <1>3, <1>4
<1> QED BY <1>5 DEF Power

LEMMA PowerStep == /\ Power[0] = 1
                   /\ \A n \in Nat : Power[n + 1] = 2 * Power[n]
<1>1. \A n \in Nat : Power[n] = IF n = 0 THEN 1 ELSE 2 * Power[n - 1]
  BY PowerDef
<1>2. ASSUME NEW n \in Nat PROVE Power[n + 1] = 2 * Power[n]
  <2>1. n + 1 \in Nat /\ n + 1 # 0 /\ (n + 1) - 1 = n
    OBVIOUS
  <2> QED BY <1>1, <2>1
<1> QED BY <1>1, <1>2

\* Every power is one at least, and four at least from the second on.
LEMMA PowerBounds ==
  \A n \in Nat : Power[n] \in Nat \ {0} /\ (n >= 2 => Power[n] >= 4)
<1> DEFINE Grown(n) == Power[n] \in Nat \ {0} /\ (n >= 1 => Power[n] >= 2) /\ (n >= 2 => Power[n] >= 4)
           T == {n \in Nat : ~Grown(n)}
<1>1. SUFFICES ASSUME T # {} PROVE FALSE
  OBVIOUS
<1>2. PICK n \in T : \A m \in T : n <= m
  <2>1. T \subseteq Nat
    OBVIOUS
  <2> HIDE DEF T
  <2> QED BY <1>1, <2>1, LeastElement
<1>3. n # 0
  BY <1>2, PowerStep
<1>4. n - 1 \in Nat /\ Grown(n - 1) /\ Power[n] = 2 * Power[n - 1]
  <2>1. n \in Nat /\ n - 1 \in Nat /\ n - 1 \notin T /\ (n - 1) + 1 = n
    BY <1>2, <1>3
  <2> QED BY <2>1, PowerStep
<1>5. Grown(n)
  BY <1>2, <1>4
<1> QED BY <1>2, <1>5
-----------------------------------------------------------------------------
(***************************************************************************)
(* The operators of a decision: their types and bounds.                    *)
(***************************************************************************)
LEMMA DivisionBounds ==
  /\ \A x \in Int, d \in Nat \ {0} : x \div d \in Int
  /\ \A x \in Nat, d \in Nat \ {0} : x \div d \in Nat /\ x \div d <= x
  /\ \A x \in Nat, d \in Nat : d >= 4 => 4 * (x \div d) <= x
  /\ \A x \in Int, d \in Nat \ {0}, u \in Int : x <= d * u => x \div d <= u
  OBVIOUS

\* A value only decays.
LEMMA DecayedBounds ==
  ASSUME NEW v \in Nat, NEW n \in Nat
  PROVE  /\ Decayed(v, n) \in Nat /\ Decayed(v, n) <= v
         /\ Decayed(v, 0) = v
         /\ n >= 2 => 4 * Decayed(v, n) <= v
<1>1. Power[n] \in Nat \ {0} /\ (n >= 2 => Power[n] >= 4) /\ Power[0] = 1
  BY PowerBounds, PowerStep
<1>2. v \div 1 = v
  OBVIOUS
<1> QED BY <1>1, <1>2, DivisionBounds DEF Decayed

LEMMA WindowFacts ==
  ASSUME TypeOK PROVE DOMAIN history = 1 .. Window /\ IsFiniteSet(DOMAIN history) /\ Window \in Nat \ {0}
<1>1. Window \in Nat \ {0}
  BY DecisionAssumption
<1>2. DOMAIN history = 1 .. Window
  BY DEF TypeOK
<1> QED BY <1>1, <1>2, FS_Interval

LEMMA TriesType ==
  ASSUME TypeOK, NEW kinds, NEW about
  PROVE  Tries(kinds, about) \in Nat
<1> DEFINE S == {i \in DOMAIN history :
                   /\ history[i].kind \in kinds
                   /\ history[i].about \cap about # {} \/ (about = {} /\ history[i].about = {})}
<1>1. S \in SUBSET DOMAIN history
  OBVIOUS
<1>2. Tries(kinds, about) = Cardinality(S)
  BY DEF Tries
<1> HIDE DEF S
<1> QED BY <1>1, <1>2, WindowFacts, FS_Subset, FS_CardinalityType

\* What was not tried has no attempt in the window.
LEMMA Untried ==
  ASSUME TypeOK, NEW kinds, NEW about, about # {}, Tries(kinds, about) = 0
  PROVE  \A i \in 1 .. Window : history[i].kind \in kinds => history[i].about \cap about = {}
<1> DEFINE S == {i \in DOMAIN history :
                   /\ history[i].kind \in kinds
                   /\ history[i].about \cap about # {} \/ (about = {} /\ history[i].about = {})}
<1>1. S \in SUBSET DOMAIN history /\ Cardinality(S) = 0
  BY DEF Tries
<1>2. S = {}
  <2> HIDE DEF S
  <2> QED BY <1>1, WindowFacts, FS_Subset, FS_EmptySet
<1> QED BY <1>2, WindowFacts

LEMMA OpenCount ==
  ASSUME NEW ctx PROVE Cardinality(Open(ctx)) \in Nat
<1>1. Open(ctx) \in SUBSET Requirements
  BY DEF Open
<1> QED BY <1>1, DecisionAssumption, FS_Subset, FS_CardinalityType

LEMMA BeliefTyped ==
  ASSUME TypeOK, NEW r \in Requirements
  PROVE  belief[r] \in Beliefs
<1>1. Missing \in Beliefs
  BY DEF Missing, Beliefs, Channels
<1> QED BY <1>1, DecisionAssumption DEF TypeOK

LEMMA ExposureBounds ==
  ASSUME TypeOK, NEW ctx, NEW r \in Requirements
  PROVE  Exposure(ctx, r) \in 0 .. 100
<1> DEFINE S == {belief[r].level} \cup (IF Floored(r) THEN {UncalibratedFloor} ELSE {})
                \cup (IF belief[r].conflict THEN {ConflictLevel} ELSE {})
<1>1. belief[r].level \in 0 .. 100
  BY BeliefTyped DEF Beliefs
<1>2. S \subseteq 0 .. 100 /\ S # {}
  BY <1>1 DEF UncalibratedFloor, ConflictLevel
<1>3. Exposure(ctx, r) = 100 \/ Exposure(ctx, r) = Max(S)
  BY DEF Exposure
<1> HIDE DEF S
<1>4. Max(S) \in S
  <2>1. Bounded(S)
    BY <1>2 DEF Bounded
  <2> QED BY <1>2, <2>1, MaxOfBounded
<1>5. Max(S) \in 0 .. 100
  BY <1>2, <1>4
<1> QED BY <1>3, <1>5

\* The risk of continuing is that of every open requirement at least.
LEMMA RiskCovers ==
  ASSUME TypeOK, NEW ctx
  PROVE  /\ ContinueRisk(ctx) \in Nat
         /\ \A r \in Open(ctx) : Consequence * Exposure(ctx, r) <= ContinueRisk(ctx)
<1> DEFINE S == {200} \cup {Consequence * Exposure(ctx, r) : r \in Open(ctx)}
                \cup (IF ctx.blocked THEN {9000} ELSE {})
<1>1. ASSUME NEW r \in Open(ctx)
      PROVE  Consequence * Exposure(ctx, r) \in Nat /\ Consequence * Exposure(ctx, r) <= 10000
  <2>1. Exposure(ctx, r) \in 0 .. 100
    BY ExposureBounds DEF Open
  <2>2. \A c \in 80 .. 100, e \in 0 .. 100 : c * e \in Nat /\ c * e <= 10000
    OBVIOUS
  <2> QED BY <2>1, <2>2, DecisionAssumption
<1>0. \A r \in Open(ctx) : Consequence * Exposure(ctx, r) \in S
  OBVIOUS
<1>2. S # {}
  OBVIOUS
<1>3. S \subseteq Nat
  BY <1>1
<1>4. \A x \in S : x <= 10000
  BY <1>1
<1>5. ContinueRisk(ctx) = Max(S)
  BY DEF ContinueRisk
<1> HIDE DEF S
<1>6. Bounded(S)
  <2>1. S \subseteq Int
    BY <1>3
  <2>2. \E bound \in Int : \A x \in S : x <= bound
    <3> WITNESS 10000 \in Int
    <3> QED BY <1>4
  <2> QED BY <2>1, <2>2 DEF Bounded
<1>7. Max(S) \in S
  BY <1>2, <1>6, MaxOfBounded
<1>8. \A x \in S : x <= Max(S)
  BY <1>2, <1>6, MaxOfBounded
<1>9. ContinueRisk(ctx) \in Nat
  BY <1>3, <1>5, <1>7
<1>10. \A r \in Open(ctx) : Consequence * Exposure(ctx, r) <= ContinueRisk(ctx)
  BY <1>0, <1>5, <1>8, Zenon
<1> QED BY <1>9, <1>10

LEMMA RiskType ==
  ASSUME TypeOK, NEW ctx PROVE ContinueRisk(ctx) \in Nat
  BY RiskCovers
-----------------------------------------------------------------------------
(***************************************************************************)
(* The choice: a decision is worth as much as any candidate that is        *)
(* accepted.                                                               *)
(***************************************************************************)
KindSet == {Kinds[i] : i \in DOMAIN Kinds}

LEMMA KindsAre ==
  /\ DOMAIN Kinds = 1 .. 11 /\ Len(Kinds) = 11
  /\ KindSet = {"CONTINUE_MISSION", "QUERY_BELIEF", "REQUEST_INFORMATION", "REPLAN", "REVISIT_REGION",
                "WAIT", "TRANSMIT_INFORMATION", "STORE_AND_FORWARD", "ESCALATE_TO_OPERATOR",
                "RETURN_TO_SAFE_STATE", "ABORT_MISSION"}
  BY DEF KindSet, Kinds

LEMMA OrderBounds == \A kind \in KindSet : Order[kind] \in 1 .. 11
<1> SUFFICES ASSUME NEW kind \in KindSet PROVE Order[kind] \in 1 .. 11
  OBVIOUS
<1>1. \E i \in DOMAIN Kinds : Kinds[i] = kind
  BY DEF KindSet
<1>2. Order[kind] = CHOOSE i \in DOMAIN Kinds : Kinds[i] = kind
  BY DEF Order, KindSet
<1> QED BY <1>1, <1>2, KindsAre

\* A critical belief's uncertainty is of a kind the values know of.
LEMMA CausesTyped ==
  ASSUME TypeOK, NEW ctx, NEW r \in Requirements, NEW c \in Causes(ctx, r)
  PROVE  c \in Channels
  BY DEF Causes

LEMMA RequestFacts ==
  ASSUME TypeOK, NEW ctx, NEW r \in Requirements, NEW a \in Requests(ctx, r)
  PROVE  /\ a = Action(a.kind, a.about, a.cause)
         /\ a.kind = "REQUEST_INFORMATION" /\ a.about = {r}
         /\ a.cause \in DOMAIN Resolvability /\ Resolvability[a.cause] \in 50 .. 80
<1>1. PICK c \in Channels :
        a = Action("REQUEST_INFORMATION", {r},
                   IF c = "EPISTEMIC" /\ CalibrationOnly(r) THEN "CALIBRATION" ELSE c)
  BY CausesTyped DEF Requests, Askable
<1>2. /\ a = Action(a.kind, a.about, a.cause)
      /\ a.kind = "REQUEST_INFORMATION" /\ a.about = {r} /\ a.cause \in Channels \cup {"CALIBRATION"}
  BY <1>1 DEF Action
<1>3. \A x \in Channels \cup {"CALIBRATION"} :
        x \in DOMAIN Resolvability /\ Resolvability[x] \in 50 .. 80
  BY DEF Channels, Resolvability
<1> QED BY <1>2, <1>3

LEMMA RepairFacts ==
  ASSUME TypeOK, NEW ctx, NEW r \in Requirements, NEW a \in Repairs(ctx, r)
  PROVE  /\ a = Action(a.kind, a.about, a.cause)
         /\ a.kind \in {"QUERY_BELIEF", "REVISIT_REGION"} /\ a.about \subseteq Requirements
         /\ a.cause = "NONE"
<1>1. PICK kind \in {"QUERY_BELIEF", "REVISIT_REGION"} : a = Action(kind, Target(r), "NONE")
  BY DEF Repairs
<1> QED BY <1>1 DEF Action, Target

PlainKinds == {"CONTINUE_MISSION", "WAIT", "ESCALATE_TO_OPERATOR", "RETURN_TO_SAFE_STATE", "ABORT_MISSION",
               "REPLAN"}

LEMMA CandidateFacts ==
  ASSUME TypeOK, NEW ctx \in Findings, NEW a \in Candidates(ctx)
  PROVE  /\ a = Action(a.kind, a.about, a.cause)
         /\ a.kind \in KindSet /\ a.about \subseteq Requirements
         /\ a.cause \in DOMAIN Resolvability \cup {"NONE"}
         /\ a.kind = "REQUEST_INFORMATION" =>
              /\ \E r \in Requirements : a.about = {r}
              /\ a.cause \in DOMAIN Resolvability /\ Resolvability[a.cause] \in 50 .. 80
         /\ a.kind \in Reports => a.about # {}
         /\ a.cause = "CALIBRATION" => a.kind = "REQUEST_INFORMATION"
<1>1. \/ \E kind \in PlainKinds : a = Action(kind, {}, "NONE")
      \/ \E kind \in Reports : \E about \in {ctx.pending} \ {{}} : a = Action(kind, about, "NONE")
      \/ \E r \in Open(ctx) : a \in Requests(ctx, r) \cup Repairs(ctx, r)
  BY DEF Candidates, PlainKinds, Reports
<1>2. CASE \E kind \in PlainKinds : a = Action(kind, {}, "NONE")
  BY <1>2, KindsAre DEF PlainKinds, Action, Reports
<1>3. CASE \E kind \in Reports : \E about \in {ctx.pending} \ {{}} : a = Action(kind, about, "NONE")
  BY <1>3, KindsAre DEF Reports, Action, Findings
<1>4. CASE \E r \in Open(ctx) : a \in Requests(ctx, r) \cup Repairs(ctx, r)
  <2>1. PICK r \in Requirements : a \in Requests(ctx, r) \/ a \in Repairs(ctx, r)
    BY <1>4 DEF Open
  <2>2. CASE a \in Requests(ctx, r)
    BY <2>2, RequestFacts, KindsAre DEF Reports
  <2>3. CASE a \in Repairs(ctx, r)
    BY <2>3, RepairFacts, KindsAre DEF Reports
  <2> QED BY <2>1, <2>2, <2>3
<1> QED BY <1>1, <1>2, <1>3, <1>4
LEMMA ValueOfKind ==
  ASSUME NEW ctx, NEW a
  PROVE  /\ a.kind = "CONTINUE_MISSION" => Value(ctx, a) = ContinueValue(ctx)
         /\ a.kind = "QUERY_BELIEF" => Value(ctx, a) = QueryValue(a)
         /\ a.kind = "REQUEST_INFORMATION" => Value(ctx, a) = RequestValue(a)
         /\ a.kind = "REPLAN" => Value(ctx, a) = ReplanValue(ctx)
         /\ a.kind = "REVISIT_REGION" => Value(ctx, a) = RevisitValue(a)
         /\ a.kind = "WAIT" => Value(ctx, a) = WaitValue(ctx)
         /\ a.kind \in Reports => Value(ctx, a) = ReportValue(ctx, a)
         /\ a.kind = "ESCALATE_TO_OPERATOR" => Value(ctx, a) = EscalationValue(ctx)
         /\ a.kind \in Retreats => Value(ctx, a) = RetreatValue(ctx, a)
  BY Zenon DEF Value, Reports, Retreats
LEMMA ContinueBound ==
  ASSUME TypeOK, NEW ctx
  PROVE  ContinueValue(ctx) \in Int /\ ContinueValue(ctx) <= 2000000
<1>1. Total \in Nat \ {0} /\ Consequence \in Nat
  BY DecisionAssumption, SMT
<1> DEFINE debt == Cardinality(Open(ctx)) * (1000000 + Consequence * 10000)
<1>2. debt \in Nat
  <2>1. \A n \in Nat, c \in Nat : n * (1000000 + c * 10000) \in Nat
    BY SMT
  <2> QED BY <1>1, <2>1, OpenCount, SMT
<1>3. MissionValue(ctx) = (Total * 1000000 - debt) \div Total
  BY SMT DEF MissionValue, Unit, Percent
<1> HIDE DEF debt
<1>4. Total * 1000000 - debt \in Int /\ Total * 1000000 - debt <= Total * 1000000
  BY <1>1, <1>2, SMT
<1>5. \A x \in Int, d \in Nat \ {0} : x <= d * 1000000 => x \div d \in Int /\ x \div d <= 1000000
  BY SMT
<1>6. MissionValue(ctx) \in Int /\ MissionValue(ctx) <= 1000000
  BY <1>1, <1>3, <1>4, <1>5, SMT
<1> QED BY <1>6, RiskType, SMT DEF ContinueValue

LEMMA EscalationBound ==
  ASSUME TypeOK, NEW ctx
  PROVE  /\ EscalationValue(ctx) \in Int /\ EscalationValue(ctx) <= 520000
         /\ (\A r \in Open(ctx) : ~DeadEnd(r)) => EscalationValue(ctx) = -130000
<1>1. OperatorValue(ctx) \in {10, 35}
  BY SMT DEF OperatorValue
<1>2. \A c \in 80 .. 100, p \in {10, 35} : c * (p + 30) * 100 \in Nat /\ c * (p + 30) * 100 <= 650000
  <2>1. \A c \in 80 .. 100 : /\ c * (10 + 30) * 100 \in Nat /\ c * (10 + 30) * 100 <= 650000
                            /\ c * (35 + 30) * 100 \in Nat /\ c * (35 + 30) * 100 <= 650000
    BY SMT
  <2> QED BY <2>1, SMT
<1> DEFINE gain == Consequence * (OperatorValue(ctx) + 30) * 100
<1>3. gain \in Nat /\ gain <= 650000
  BY <1>1, <1>2, DecisionAssumption, SMT
<1>4. EscalationValue(ctx) = (IF \E r \in Open(ctx) : DeadEnd(r) THEN gain ELSE 0) - 130000
  BY SMT DEF EscalationValue
<1> HIDE DEF gain
<1> QED BY <1>3, <1>4, SMT

LEMMA WaitBound ==
  ASSUME NEW ctx
  PROVE  /\ WaitValue(ctx) \in Int /\ WaitValue(ctx) >= -40000 /\ WaitValue(ctx) <= 960000
         /\ unavailable # {} /\ ~MustRetreat(ctx) => WaitValue(ctx) = 960000
         /\ MustRetreat(ctx) => WaitValue(ctx) = -40000
  BY SMT DEF WaitValue, Unit

LEMMA RequestBound ==
  ASSUME TypeOK, NEW ctx \in Findings, NEW a \in Candidates(ctx), a.kind = "REQUEST_INFORMATION"
  PROVE  RequestValue(a) \in Int /\ RequestValue(a) <= 600000
<1>1. Tries({"REQUEST_INFORMATION"}, a.about) \in Nat
  BY TriesType
<1>2. Resolvability[a.cause] \in 50 .. 80 /\ Consequence \in 80 .. 100
  BY CandidateFacts, DecisionAssumption
<1>3. \A c \in 80 .. 100, p \in 50 .. 80 : c * p * 100 \in Nat /\ c * p * 100 <= 800000
  BY SMT
<1> DEFINE v == Consequence * Resolvability[a.cause] * 100
           n == Tries({"REQUEST_INFORMATION"}, a.about)
<1>4. v \in Nat /\ v <= 800000 /\ n \in Nat
  BY <1>1, <1>2, <1>3, SMT
<1>5. RequestValue(a) = Decayed(v, n) - 200000
  BY SMT DEF RequestValue
<1> HIDE DEF v, n
<1>6. Decayed(v, n) \in Nat /\ Decayed(v, n) <= v
  BY <1>4, DecayedBounds, SMT
<1> QED BY <1>4, <1>5, <1>6, SMT

LEMMA RepairBounds ==
  ASSUME TypeOK, NEW a
  PROVE  /\ QueryValue(a) \in Int /\ QueryValue(a) <= 493000
         /\ RevisitValue(a) \in Int /\ RevisitValue(a) <= 465000
<1>1. Consequence \in 80 .. 100
  BY DecisionAssumption, SMT
<1>2. \A n \in Nat : 2 * n \in Nat
  BY SMT
<1>3. 2 * Tries({"QUERY_BELIEF"}, a.about) \in Nat /\ 2 * Tries({"REVISIT_REGION"}, a.about) \in Nat
  BY <1>2, TriesType
<1>4. \A c \in 80 .. 100 : c * 5000 \in Nat /\ c * 5000 <= 500000 /\ c * 7000 \in Nat /\ c * 7000 <= 700000
  BY SMT
<1> DEFINE q == Consequence * 5000
           v == Consequence * 7000
           m == 2 * Tries({"QUERY_BELIEF"}, a.about)
           n == 2 * Tries({"REVISIT_REGION"}, a.about)
<1>5. q \in Nat /\ q <= 500000 /\ v \in Nat /\ v <= 700000 /\ m \in Nat /\ n \in Nat
  BY <1>1, <1>3, <1>4, SMT
<1>6. QueryValue(a) = Decayed(q, m) - 7000 /\ RevisitValue(a) = Decayed(v, n) - 235000
  BY SMT DEF QueryValue, RevisitValue
<1> DEFINE x == Decayed(q, m)
           y == Decayed(v, n)
<1> HIDE DEF q, v, m, n
<1>7. /\ x \in Nat /\ x <= q
      /\ y \in Nat /\ y <= v
  <2>1. q \in Nat /\ v \in Nat /\ m \in Nat /\ n \in Nat
    BY <1>5, SMT
  <2>2. x \in Nat /\ x <= q
    BY <2>1, DecayedBounds, SMT
  <2>3. y \in Nat /\ y <= v
    BY <2>1, DecayedBounds, SMT
  <2> QED BY <2>2, <2>3
<1>8. QueryValue(a) = x - 7000 /\ RevisitValue(a) = y - 235000
  BY <1>6
<1> HIDE DEF x, y
<1>9. x \in Nat /\ x <= 500000 /\ y \in Nat /\ y <= 700000
  BY <1>5, <1>7, SMT
<1>10. QueryValue(a) \in Int /\ QueryValue(a) <= 493000
  BY <1>8, <1>9, SMT
<1>11. RevisitValue(a) \in Int /\ RevisitValue(a) <= 465000
  BY <1>8, <1>9, SMT
<1> QED BY <1>10, <1>11, SMT

\* A second report of the same is worth less than the retreat.
LEMMA ReportBound ==
  ASSUME TypeOK, NEW ctx, NEW a
  PROVE  /\ ReportValue(ctx, a) \in Int /\ ReportValue(ctx, a) <= 1299000
         /\ Reported(a.about) # 0 => ReportValue(ctx, a) <= 549000
<1>1. Reported(a.about) \in Nat
  BY TriesType DEF Reported
<1>2. Consequence * 10000 \in Nat /\ Consequence * 10000 <= 1000000
  BY DecisionAssumption, SMT
<1> DEFINE v == Consequence * 10000
           n == 2 * Reported(a.about)
           d == Decayed(v, n)
<1>3. v \in Nat /\ v <= 1000000 /\ n \in Nat /\ (Reported(a.about) # 0 => n >= 2)
  BY <1>1, <1>2, SMT
<1>4. d \in Nat /\ d <= v /\ (n >= 2 => 4 * d <= v)
  <2> HIDE DEF v, n
  <2> QED BY <1>3, DecayedBounds, SMT
<1>5. ReportValue(ctx, a) = (IF ctx.blocked THEN 0 ELSE 300000) + d
                            - (IF a.kind = "STORE_AND_FORWARD" THEN 1000 ELSE 70000)
  BY SMT DEF ReportValue, Percent
<1> HIDE DEF v, n, d
<1> QED BY <1>3, <1>4, <1>5, SMT

LEMMA RetreatBound ==
  ASSUME NEW ctx, NEW a
  PROVE  /\ RetreatValue(ctx, a) \in Int /\ RetreatValue(ctx, a) <= 705000
         /\ MustRetreat(ctx) /\ a.kind = "RETURN_TO_SAFE_STATE" => RetreatValue(ctx, a) = 705000
  BY SMT DEF RetreatValue, Unit

LEMMA ReplanBound == ASSUME NEW ctx PROVE ReplanValue(ctx) \in Int /\ ReplanValue(ctx) <= 965000
  BY SMT DEF ReplanValue, Unit

LEMMA ValueBound ==
  ASSUME TypeOK, NEW ctx \in Findings, NEW a \in Candidates(ctx)
  PROVE  Value(ctx, a) \in Int /\ Value(ctx, a) <= 2 * Unit
<1> DEFINE v == Value(ctx, a)
<1> SUFFICES v \in Int /\ v <= 2000000
  BY SMT DEF Unit
<1>1. a.kind \in KindSet
  BY CandidateFacts
<1>2. CASE a.kind = "CONTINUE_MISSION"
  BY <1>2, ValueOfKind, ContinueBound, SMT
<1>3. CASE a.kind \in {"QUERY_BELIEF", "REVISIT_REGION"}
  BY <1>3, ValueOfKind, RepairBounds, SMT
<1>4. CASE a.kind = "REQUEST_INFORMATION"
  BY <1>4, ValueOfKind, RequestBound, SMT
<1>5. CASE a.kind \in Reports
  BY <1>5, ValueOfKind, ReportBound, SMT
<1>6. CASE a.kind \in {"WAIT", "ESCALATE_TO_OPERATOR", "REPLAN"}
  BY <1>6, ValueOfKind, WaitBound, EscalationBound, ReplanBound, SMT
<1>7. CASE a.kind \in Retreats
  BY <1>7, ValueOfKind, RetreatBound, SMT
<1> QED BY <1>1, <1>2, <1>3, <1>4, <1>5, <1>6, <1>7, KindsAre, SMT DEF Reports, Retreats
\* The rank orders by value first.
LEMMA RankArithmetic ==
  /\ \A v, m \in Int, i \in 1 .. 11 :
       11 * v - i \in Int /\ 11 * m \in Int /\ (v <= m => 11 * v - i <= 11 * m)
  /\ \A v, w \in Int, i, j \in 1 .. 11 : 11 * v - i <= 11 * w - j => v <= w
  BY SMT

LEMMA ChosenIsBest ==
  ASSUME TypeOK, NEW ctx \in Findings, NEW a \in Chosen(ctx)
  PROVE  /\ a \in Candidates(ctx) /\ Accepted(ctx, a)
         /\ \A c \in Candidates(ctx) : Accepted(ctx, c) => Value(ctx, c) <= Value(ctx, a)
<1> DEFINE accepted == {c \in Candidates(ctx) : Accepted(ctx, c)}
           Rank(c) == Len(Kinds) * Value(ctx, c) - Order[c.kind]
           ranked == {[rank |-> Rank(c), action |-> c] : c \in accepted}
           ranks == {x.rank : x \in ranked}
<1>1. PICK x \in ranked : x.rank = Max(ranks) /\ a = x.action
  BY DEF Chosen
<1>2. PICK b \in accepted : x = [rank |-> Rank(b), action |-> b]
  BY <1>1
<1>3. a = b /\ Max(ranks) = Rank(a)
  BY <1>1, <1>2
<1>4. ASSUME NEW c \in accepted PROVE Rank(c) \in ranks
  <2> DEFINE y == [rank |-> Rank(c), action |-> c]
  <2>1. y \in ranked
    OBVIOUS
  <2>2. y.rank = Rank(c)
    BY Zenon
  <2> HIDE DEF y, ranked, Rank
  <2> QED BY <2>1, <2>2
<1>5. \A y \in ranks : \E c \in accepted : y = Rank(c)
  OBVIOUS
<1> DEFINE top == 2 * Unit
<1>0. top \in Int
  BY DEF Unit
<1> HIDE DEF top
<1>6. \A c \in accepted : /\ Value(ctx, c) \in Int /\ Value(ctx, c) <= top
                          /\ Order[c.kind] \in 1 .. 11
  BY ValueBound, CandidateFacts, OrderBounds DEF top
<1>7. \A c \in accepted : Rank(c) = 11 * Value(ctx, c) - Order[c.kind]
  BY KindsAre
<1> HIDE DEF Rank, ranked, ranks
<1>8. 11 * top \in Int /\ \A c \in accepted : Rank(c) \in Int /\ Rank(c) <= 11 * top
  BY <1>0, <1>6, <1>7, RankArithmetic
<1>9. Bounded(ranks)
  <2>1. ranks \subseteq Int
    BY <1>5, <1>8
  <2>2. \E bound \in Int : \A y \in ranks : y <= bound
    BY <1>5, <1>8
  <2> QED BY <2>1, <2>2 DEF Bounded
<1>10. \A y \in ranks : y <= Max(ranks)
  <2>1. ranks # {}
    BY <1>2, <1>4
  <2> QED BY <1>9, <2>1, MaxOfBounded
<1>11. ASSUME NEW c \in accepted PROVE Value(ctx, c) <= Value(ctx, a)
  <2>1. Rank(c) <= Rank(a)
    BY <1>3, <1>4, <1>10
  <2>2. a \in accepted
    BY <1>2, <1>3
  <2> HIDE DEF accepted
  <2> QED BY <1>6, <1>7, <2>1, <2>2, RankArithmetic
<1> QED BY <1>2, <1>3, <1>11
-----------------------------------------------------------------------------
(***************************************************************************)
(* What a decision can be.                                                 *)
(***************************************************************************)
LEMMA StandingCandidates ==
  ASSUME NEW ctx, NEW kind \in {"CONTINUE_MISSION", "WAIT", "ESCALATE_TO_OPERATOR", "RETURN_TO_SAFE_STATE"}
  PROVE  Action(kind, {}, "NONE") \in Candidates(ctx) /\ Action(kind, {}, "NONE").kind = kind
  BY DEF Candidates, Action

\* Holding and retreating are accepted whatever is the matter.
LEMMA HoldingAccepted ==
  ASSUME NEW ctx, NEW a, a.kind \in {"WAIT", "RETURN_TO_SAFE_STATE"}
  PROVE  Accepted(ctx, a)
  BY DEF Accepted, AlwaysPermitted, Retreats, MotionActions

LEMMA NoEscalationBefore ==
  ASSUME TypeOK, NEW ctx \in Findings, \A r \in Open(ctx) : ~DeadEnd(r), NEW a \in Chosen(ctx)
  PROVE  a.kind # "ESCALATE_TO_OPERATOR"
<1> DEFINE wait == Action("WAIT", {}, "NONE")
<1>1. wait \in Candidates(ctx) /\ wait.kind = "WAIT"
  BY StandingCandidates
<1> HIDE DEF wait
<1>2. Value(ctx, wait) <= Value(ctx, a)
  BY <1>1, HoldingAccepted, ChosenIsBest
<1>3. Value(ctx, wait) = WaitValue(ctx) /\ WaitValue(ctx) \in Int /\ WaitValue(ctx) >= -40000
  BY <1>1, ValueOfKind, WaitBound, SMT
<1>4. SUFFICES ASSUME a.kind = "ESCALATE_TO_OPERATOR" PROVE FALSE
  OBVIOUS
<1>5. Value(ctx, a) = -130000
  BY <1>4, ValueOfKind, EscalationBound, SMT
<1> QED BY <1>2, <1>3, <1>5, SMT

LEMMA NoViewOfUnavailable ==
  ASSUME TypeOK, NEW ctx \in Findings, unavailable # {}, NEW a \in Chosen(ctx)
  PROVE  a.kind \notin {"REQUEST_INFORMATION", "REVISIT_REGION"}
<1>1. a \in Candidates(ctx) /\ Accepted(ctx, a)
  BY ChosenIsBest
<1>2. SUFFICES ASSUME a.kind \in {"REQUEST_INFORMATION", "REVISIT_REGION"} PROVE FALSE
  OBVIOUS
<1>3. ~MustRetreat(ctx)
  BY <1>1, <1>2 DEF Accepted, AlwaysPermitted, Retreats, MustRetreat
<1> DEFINE wait == Action("WAIT", {}, "NONE")
<1>4. wait \in Candidates(ctx) /\ wait.kind = "WAIT"
  BY StandingCandidates
<1> HIDE DEF wait
<1>5. Value(ctx, wait) <= Value(ctx, a)
  BY <1>4, HoldingAccepted, ChosenIsBest
<1>6. Value(ctx, wait) = 960000
  BY <1>3, <1>4, ValueOfKind, WaitBound, SMT
<1>7. Value(ctx, a) \in Int /\ Value(ctx, a) <= 600000
  <2>1. CASE a.kind = "REQUEST_INFORMATION"
    BY <1>1, <2>1, ValueOfKind, RequestBound, SMT
  <2>2. CASE a.kind = "REVISIT_REGION"
    <3>1. Value(ctx, a) \in Int /\ Value(ctx, a) <= 465000
      BY <2>2, ValueOfKind, RepairBounds, SMT
    <3> QED BY <3>1, SMT
  <2> QED BY <1>2, <2>1, <2>2
<1> QED BY <1>5, <1>6, <1>7, SMT

\* With a reason to retreat only something new is reported before.
LEMMA RetreatsOrReports ==
  ASSUME TypeOK, NEW ctx \in Findings, MustRetreat(ctx), NEW a \in Chosen(ctx)
  PROVE  \/ a.kind \in Retreats
         \/ a.kind = "STORE_AND_FORWARD" /\ a.about # {} /\ Reported(a.about) = 0
<1>1. a \in Candidates(ctx) /\ Accepted(ctx, a)
  BY ChosenIsBest
<1>2. a.kind \in AlwaysPermitted \cup Retreats
  BY <1>1 DEF Accepted, MustRetreat
<1> DEFINE home == Action("RETURN_TO_SAFE_STATE", {}, "NONE")
<1>3. home \in Candidates(ctx) /\ home.kind = "RETURN_TO_SAFE_STATE" /\ home.kind \in Retreats
  BY StandingCandidates DEF Retreats
<1> HIDE DEF home
<1>4. Value(ctx, home) <= Value(ctx, a)
  BY <1>3, HoldingAccepted, ChosenIsBest
<1>5. Value(ctx, home) = 705000
  BY <1>3, ValueOfKind, RetreatBound, SMT
<1>6. a.kind # "WAIT"
  <2>1. SUFFICES ASSUME a.kind = "WAIT" PROVE FALSE
    OBVIOUS
  <2>2. Value(ctx, a) = -40000
    BY <2>1, ValueOfKind, WaitBound, SMT
  <2> QED BY <1>4, <1>5, <2>2, SMT
<1>7. a.kind # "ESCALATE_TO_OPERATOR"
  <2>1. SUFFICES ASSUME a.kind = "ESCALATE_TO_OPERATOR" PROVE FALSE
    OBVIOUS
  <2>2. Value(ctx, a) \in Int /\ Value(ctx, a) <= 520000
    BY <2>1, ValueOfKind, EscalationBound, SMT
  <2> QED BY <1>4, <1>5, <2>2, SMT
<1>8. CASE a.kind = "STORE_AND_FORWARD"
  <2>1. a.kind \in Reports
    BY <1>8 DEF Reports
  <2>2. a.about # {}
    BY <1>1, <2>1, CandidateFacts
  <2>3. Reported(a.about) = 0
    <3>1. SUFFICES ASSUME Reported(a.about) # 0 PROVE FALSE
      OBVIOUS
    <3>2. Value(ctx, a) \in Int /\ Value(ctx, a) <= 549000
      BY <2>1, <3>1, ValueOfKind, ReportBound, SMT
    <3> QED BY <1>4, <1>5, <3>2, SMT
  <2> QED BY <1>8, <2>2, <2>3
<1> QED BY <1>2, <1>6, <1>7, <1>8 DEF AlwaysPermitted
-----------------------------------------------------------------------------
(***************************************************************************)
(* The invariant.                                                          *)
(***************************************************************************)
Attempts == [kind : Counted \cup {"OTHER"}, about : SUBSET Requirements, answered : BOOLEAN]

\* A decision moves the window by one.
LEMMA ShiftedWindow ==
  ASSUME TypeOK, NEW e \in Attempts
  PROVE  /\ Append(Tail(history), e) \in [1 .. Window -> Attempts]
         /\ Append(Tail(history), e)[Window] = e
         /\ \A i \in 1 .. Window - 1 : Append(Tail(history), e)[i] = history[i + 1]
<1>1. Window \in Nat \ {0} /\ history \in [1 .. Window -> Attempts]
  BY DecisionAssumption DEF TypeOK, Attempts
<1>2. history \in Seq(Attempts) /\ Len(history) = Window /\ history # << >>
  BY <1>1
<1>3. /\ Tail(history) \in Seq(Attempts) /\ Len(Tail(history)) = Window - 1
      /\ \A i \in 1 .. Window - 1 : Tail(history)[i] = history[i + 1]
  BY <1>1, <1>2, HeadTailProperties
<1> DEFINE t == Tail(history)
<1> HIDE DEF t
<1>4. t \in Seq(Attempts) /\ Len(t) = Window - 1
  BY <1>3 DEF t
<1>5. /\ Append(t, e) \in Seq(Attempts) /\ Len(Append(t, e)) = Window
      /\ \A i \in 1 .. Window - 1 : Append(t, e)[i] = t[i]
      /\ Append(t, e)[Window] = e
  BY <1>1, <1>4, AppendProperties
<1>6. Append(t, e) \in [1 .. Window -> Attempts]
  BY <1>5, LenProperties
<1> QED BY <1>3, <1>5, <1>6 DEF t

LEMMA EntryFacts ==
  ASSUME NEW a, a.kind \in KindSet, a.about \subseteq Requirements
  PROVE  /\ Entry(a) \in Attempts /\ Entry(a).answered = FALSE
         /\ Entry(a).kind = "REQUEST_INFORMATION" => a.kind = "REQUEST_INFORMATION" /\ Entry(a).about = a.about
         /\ a.kind = "STORE_AND_FORWARD" => Entry(a).kind = a.kind /\ Entry(a).about = a.about
  BY DEF Entry, Attempts, Attempt, NoAttempt, Counted, Reports

LEMMA DecideFacts ==
  ASSUME TypeOK, NEW ctx \in Contexts, Decide(ctx)
  PROVE  /\ ctx \in Findings /\ decision' \in Chosen(ctx)
         /\ decision'.kind \in KindSet /\ decision'.about \subseteq Requirements
         /\ decision'.kind = "REQUEST_INFORMATION" => \E r \in Requirements : decision'.about = {r}
         /\ decision'.cause = "CALIBRATION" => decision'.kind = "REQUEST_INFORMATION"
         /\ decision' \in [kind : KindSet, about : SUBSET Requirements,
                          cause : DOMAIN Resolvability \cup {"NONE"}]
<1>1. ctx \in Findings /\ decision' \in Chosen(ctx)
  BY DecisionAssumption DEF Decide
<1>2. decision' \in Candidates(ctx)
  BY <1>1, ChosenIsBest
<1> QED BY <1>1, <1>2, CandidateFacts DEF Action

LEMMA MarkedFacts ==
  ASSUME TypeOK
  PROVE  /\ Marked \in [1 .. Window -> Attempts] /\ Marked[Window] = NoAttempt
         /\ \A i \in 1 .. Window : i # Window => Marked[i] = history[i]
<1>1. Window \in 1 .. Window /\ history \in [1 .. Window -> Attempts]
  BY DecisionAssumption DEF TypeOK, Attempts
<1>2. NoAttempt \in Attempts
  BY DEF NoAttempt, Attempt, Attempts
<1> QED BY <1>1, <1>2 DEF Marked

LEMMA MarkedKeeps ==
  ASSUME TypeOK, NEW i \in 1 .. Window
  PROVE  Marked[i] = history[i] \/ Marked[i].kind = "OTHER"
<1>1. NoAttempt.kind = "OTHER"
  BY DEF NoAttempt, Attempt
<1> QED BY <1>1, MarkedFacts

LEMMA RevisedFacts ==
  ASSUME TypeOK, NEW q \in Requirements, NEW grade \in Grades, Revise(q, grade)
  PROVE  /\ history' \in [1 .. Window -> Attempts]
         /\ \A i \in 1 .. Window :
              /\ history'[i].kind = history[i].kind /\ history'[i].about = history[i].about
              /\ history'[i].answered =>
                   history[i].answered \/ (history[i].kind = "REQUEST_INFORMATION" /\ q \in history[i].about)
<1>1. history \in [1 .. Window -> Attempts] /\ DOMAIN history = 1 .. Window
  BY DEF TypeOK, Attempts
<1>2. ASSUME NEW i \in 1 .. Window
      PROVE  /\ history'[i] \in Attempts
             /\ history'[i].kind = history[i].kind /\ history'[i].about = history[i].about
             /\ history'[i].answered =>
                  history[i].answered \/ (history[i].kind = "REQUEST_INFORMATION" /\ q \in history[i].about)
  <2> DEFINE now == history[i].answered \/ (history[i].kind = "REQUEST_INFORMATION" /\ q \in history[i].about)
  <2>1. history'[i] = [history[i] EXCEPT !.answered = now]
    BY <1>1 DEF Revise
  <2>2. now \in BOOLEAN
    OBVIOUS
  <2>3. history[i] \in Attempts
    BY <1>1
  <2>4. now => history[i].answered \/ (history[i].kind = "REQUEST_INFORMATION" /\ q \in history[i].about)
    OBVIOUS
  <2> HIDE DEF now
  <2> QED BY <2>1, <2>2, <2>3, <2>4 DEF Attempts
<1>3. history' = [i \in 1 .. Window |-> history'[i]]
  BY <1>1 DEF Revise
<1> QED BY <1>2, <1>3

LEMMA NotedFacts ==
  ASSUME TypeOK
  PROVE  /\ Noted \in [Requirements -> {"NEVER", "OPEN", "ANSWERED"}]
         /\ \A r \in Requirements : Noted[r] \in {"OPEN", asked[r]}
  BY DEF Noted, TypeOK
Decisions ==
  [kind : KindSet \cup {"NONE"}, about : SUBSET Requirements, cause : DOMAIN Resolvability \cup {"NONE"}]

LEMMA NothingDecided == NoAction \in Decisions /\ NoAction.kind = "NONE" /\ NoAction.cause = "NONE"
  BY DEF NoAction, Action, Decisions

LEMMA InvariantInit == Init => DecisionInvariant
<1> SUFFICES ASSUME Init PROVE DecisionInvariant
  OBVIOUS
<1>1. NoAttempt \in Attempts /\ NoAttempt.kind = "OTHER"
  BY DEF NoAttempt, Attempt, Attempts
<1>2. TypeOK
  BY <1>1, NothingDecided DEF Init, TypeOK, Attempts, Decisions, KindSet
<1>3. RequestsOne
  BY <1>1, NothingDecided DEF Init, RequestsOne
<1> QED BY <1>2, <1>3 DEF DecisionInvariant

\* What routing leaves alone, and what it does to the history.
LEMMA RoutingFacts ==
  ASSUME TypeOK,
         Defer \/ Drop \/ Revisit \/ Gate \/ Refuse \/ NoPlan \/ Inline \/ Postpone \/ Launch \/ Other
  PROVE  /\ decision # NoAction /\ decision' = NoAction
         /\ UNCHANGED <<belief, surveying, retreatFor>>
         /\ history' \in {history, Marked}
         /\ decision.kind \in {"REQUEST_INFORMATION", "REVISIT_REGION"} \/ history' = history
         /\ asked' \in {asked, Noted}
         /\ reached' \subseteq Requirements /\ unavailable' \subseteq reached'
         /\ goal' \in Requirements \cup {"REVISIT", "NONE"}
         /\ held' = held \/ held' = (decision.kind \in Retreats)
         /\ RequestsOne /\ decision.kind \in Retreats => held' = TRUE
<1> USE DEF Routed, runtimeVars, historyVars
<1>1. decision.about \subseteq Requirements /\ reached \subseteq Requirements /\ unavailable \subseteq reached
      /\ goal \in Requirements \cup {"REVISIT", "NONE"}
  BY DEF TypeOK
<1>2. CASE Defer
  BY <1>1, <1>2 DEF Defer, IsRequest, Retreats
<1>3. CASE Drop
  <2>1. RequestsOne => decision.kind = "REQUEST_INFORMATION"
    BY <1>3 DEF Drop, Calibration, RequestsOne
  <2> QED BY <1>1, <1>3, <2>1 DEF Drop, Retreats
<1>4. CASE Revisit
  BY <1>1, <1>4 DEF Revisit, Retreats
<1>5. CASE Gate
  BY <1>1, <1>5 DEF Gate, Inspecting, IsRequest, Retreats
<1>6. CASE Refuse
  BY <1>1, <1>6 DEF Refuse, Inspecting, IsRequest, Retreats
<1>7. CASE NoPlan
  BY <1>1, <1>7 DEF NoPlan, Inspecting, IsRequest, Retreats
<1>8. CASE Inline
  BY <1>1, <1>8 DEF Inline, Inspecting, IsRequest, Retreats
<1>9. CASE Postpone
  BY <1>1, <1>9 DEF Postpone, Inspecting, IsRequest, Retreats
<1>10. CASE Launch
  BY <1>1, <1>10 DEF Launch, Inspecting, IsRequest, Retreats
<1>11. CASE Other
  BY <1>1, <1>11 DEF Other
<1> QED BY <1>2, <1>3, <1>4, <1>5, <1>6, <1>7, <1>8, <1>9, <1>10, <1>11

Routing ==
  Defer \/ Drop \/ Revisit \/ Gate \/ Refuse \/ NoPlan \/ Inline \/ Postpone \/ Launch \/ Other

LEMMA InvariantStep == DecisionInvariant /\ [Next]_vars => DecisionInvariant'
<1> SUFFICES ASSUME DecisionInvariant, [Next]_vars PROVE DecisionInvariant'
  OBVIOUS
<1>1. TypeOK /\ RequestsOne
  BY DEF DecisionInvariant
<1>2. ASSUME NEW q \in Requirements, NEW grade \in Grades, Revise(q, grade) PROVE DecisionInvariant'
  <2>1. TypeOK'
    BY <1>1, <1>2, RevisedFacts DEF TypeOK, Revise, runtimeVars, Attempts
  <2>2. decision' = decision
    BY <1>2 DEF Revise
  <2>3. \A i \in 1 .. Window : history'[i].kind = history[i].kind /\ history'[i].about = history[i].about
    BY <1>1, <1>2, RevisedFacts
  <2>4. RequestsOne'
    BY <1>1, <2>2, <2>3 DEF RequestsOne
  <2> QED BY <2>1, <2>4 DEF DecisionInvariant
<1>3. CASE GoalEnds
  BY <1>1, <1>3 DEF GoalEnds, DecisionInvariant, TypeOK, RequestsOne, historyVars
<1>4. CASE SurveyEnds
  BY <1>1, <1>4 DEF SurveyEnds, DecisionInvariant, TypeOK, RequestsOne, historyVars, runtimeVars
<1>5. ASSUME NEW ctx \in Contexts, Decide(ctx) PROVE DecisionInvariant'
  <2> DEFINE e == Entry(decision')
  <2>1. e \in Attempts /\ (e.kind = "REQUEST_INFORMATION" => \E r \in Requirements : e.about = {r})
    BY <1>1, <1>5, DecideFacts, EntryFacts
  <2>2. history' = Append(Tail(history), e)
    BY <1>5 DEF Decide
  <2>3. decision' \in Decisions
    BY <1>1, <1>5, DecideFacts DEF Decisions
  <2> HIDE DEF e
  <2>4. /\ history' \in [1 .. Window -> Attempts] /\ history'[Window] = e
        /\ \A i \in 1 .. Window - 1 : history'[i] = history[i + 1]
    BY <1>1, <2>1, <2>2, ShiftedWindow
  <2>5. retreatFor' \in Nat
    BY <1>1, <1>5 DEF Decide, TypeOK
  <2>6. TypeOK'
    BY <1>1, <1>5, <2>3, <2>4, <2>5 DEF TypeOK, Decide, runtimeVars, Attempts, Decisions, KindSet
  <2>7. \A i \in 1 .. Window :
          history'[i].kind = "REQUEST_INFORMATION" => \E r \in Requirements : history'[i].about = {r}
    <3>1. Window \in Nat \ {0}
      BY DecisionAssumption
    <3>2. \A i \in 1 .. Window : i = Window \/ (i \in 1 .. Window - 1 /\ i + 1 \in 1 .. Window)
      BY <3>1
    <3> QED BY <1>1, <2>1, <2>4, <3>2 DEF RequestsOne
  <2>8. RequestsOne'
    BY <1>1, <1>5, <2>7, DecideFacts DEF RequestsOne
  <2> QED BY <2>6, <2>8 DEF DecisionInvariant
<1>6. CASE Routing
  <2>1. /\ decision' = NoAction /\ UNCHANGED <<belief, surveying, retreatFor>>
        /\ history' \in {history, Marked} /\ asked' \in {asked, Noted}
        /\ reached' \subseteq Requirements /\ unavailable' \subseteq reached'
        /\ goal' \in Requirements \cup {"REVISIT", "NONE"}
        /\ held' = held \/ held' = (decision.kind \in Retreats)
    BY <1>1, <1>6, RoutingFacts DEF Routing
  <2>2. held' \in BOOLEAN
    <3>1. held \in BOOLEAN
      BY <1>1 DEF TypeOK
    <3>2. (decision.kind \in Retreats) \in BOOLEAN
      OBVIOUS
    <3> QED BY <2>1, <3>1, <3>2, Zenon
  <2>3. history' \in [1 .. Window -> Attempts]
    BY <1>1, <2>1, MarkedFacts DEF TypeOK, Attempts
  <2>4. asked' \in [Requirements -> {"NEVER", "OPEN", "ANSWERED"}]
    BY <1>1, <2>1, NotedFacts DEF TypeOK
  <2>5. TypeOK'
    BY <1>1, <2>1, <2>2, <2>3, <2>4, NothingDecided DEF TypeOK, Attempts, Decisions, KindSet
  <2>6. \A i \in 1 .. Window : history'[i] = history[i] \/ history'[i].kind = "OTHER"
    BY <1>1, <2>1, MarkedKeeps
  <2>7. RequestsOne'
    BY <1>1, <2>1, <2>6, NothingDecided DEF RequestsOne
  <2> QED BY <2>5, <2>7 DEF DecisionInvariant
<1>7. CASE UNCHANGED vars
  BY <1>1, <1>7 DEF vars, DecisionInvariant, TypeOK, RequestsOne, historyVars, runtimeVars
<1> QED BY <1>2, <1>3, <1>4, <1>5, <1>6, <1>7 DEF Next, Routing

\* Every reachable state of the decision unit satisfies the inductive invariant.
THEOREM DecisionInductive == Spec => []DecisionInvariant
<1>1. Init => DecisionInvariant
  BY InvariantInit
<1>2. DecisionInvariant /\ [Next]_vars => DecisionInvariant'
  BY InvariantStep
<1> QED BY <1>1, <1>2, PTL DEF Spec-----------------------------------------------------------------------------
(***************************************************************************)
(* What a step may decide.                                                 *)
(***************************************************************************)
LEMMA OnlyDecideDecides ==
  ASSUME TypeOK, [Next]_vars, decision' # decision, decision'.kind # "NONE"
  PROVE  \E ctx \in Contexts : Decide(ctx)
<1>1. CASE Routing
  BY <1>1, RoutingFacts, NothingDecided DEF Routing
<1>2. CASE UNCHANGED vars
  BY <1>2 DEF vars
<1>3. CASE \E r \in Requirements, grade \in Grades : Revise(r, grade)
  BY <1>3 DEF Revise
<1>4. CASE GoalEnds \/ SurveyEnds
  BY <1>4 DEF GoalEnds, SurveyEnds
<1> QED BY <1>1, <1>2, <1>3, <1>4 DEF Next, Routing

\* Whatever was asked and answered before: the operator is not called while every open critical
\* requirement has an autonomous path, for every consequence and every window (EGDC.decide).
THEOREM OperatorIsLast == Spec => EscalationIsLastResort
<1>1. DecisionInvariant /\ [Next]_vars =>
        [Takes({"ESCALATE_TO_OPERATOR"}) =>
           \A ctx \in Contexts : (\A r \in Open(ctx) : ~DeadEnd(r)) => ~Decide(ctx)]_vars
  <2> SUFFICES ASSUME DecisionInvariant, Takes({"ESCALATE_TO_OPERATOR"}), NEW ctx \in Contexts,
                      \A r \in Open(ctx) : ~DeadEnd(r), Decide(ctx)
               PROVE  FALSE
    OBVIOUS
  <2>1. TypeOK
    BY DEF DecisionInvariant
  <2>2. ctx \in Findings /\ decision' \in Chosen(ctx)
    BY <2>1, DecideFacts
  <2>3. decision'.kind # "ESCALATE_TO_OPERATOR"
    BY <2>1, <2>2, NoEscalationBefore
  <2> QED BY <2>3 DEF Takes
<1> QED BY <1>1, DecisionInductive, PTL DEF Spec, EscalationIsLastResort

\* While anything is reported as not obtainable EGDC waits or retreats, whatever it could ask for.
THEOREM UnavailableNeverAsked == Spec => UnavailableNotAsked
<1>1. DecisionInvariant /\ [Next]_vars =>
        [Takes({"REQUEST_INFORMATION", "REVISIT_REGION"}) => unavailable = {}]_vars
  <2> SUFFICES ASSUME DecisionInvariant, [Next]_vars, Takes({"REQUEST_INFORMATION", "REVISIT_REGION"}),
                      unavailable # {}
               PROVE  FALSE
    OBVIOUS
  <2>1. TypeOK
    BY DEF DecisionInvariant
  <2>2. PICK ctx \in Contexts : Decide(ctx)
    BY <2>1, OnlyDecideDecides DEF Takes
  <2>3. ctx \in Findings /\ decision' \in Chosen(ctx)
    BY <2>1, <2>2, DecideFacts
  <2>4. decision'.kind \notin {"REQUEST_INFORMATION", "REVISIT_REGION"}
    BY <2>1, <2>3, NoViewOfUnavailable
  <2> QED BY <2>4 DEF Takes
<1> QED BY <1>1, DecisionInductive, PTL DEF Spec, UnavailableNotAsked

LEMMA AnsweredFacts ==
  ASSUME TypeOK, NEW r
  PROVE  \A i : i \in AnsweredRequests(r) <=>
                /\ i \in 1 .. Window /\ history[i].kind = "REQUEST_INFORMATION"
                /\ r \in history[i].about /\ history[i].answered
  BY WindowFacts DEF AnsweredRequests

\* The confirmation of a belief comes with a newer revision of that belief and with nothing else: no
\* decision, no routing and no revision of another belief confirms it (_confirmed_after_request).
THEOREM GapsCloseByRevision == Spec => GapClosesByRevision
<1>1. DecisionInvariant /\ DecisionInvariant' /\ [Next]_vars =>
        [\A r \in Requirements :
           Confirmed(r)' /\ ~Confirmed(r) => \E grade \in Grades : Revise(r, grade)]_vars
  <2> SUFFICES ASSUME DecisionInvariant, DecisionInvariant', [Next]_vars, NEW r \in Requirements,
                      Confirmed(r)', ~Confirmed(r)
               PROVE  \E grade \in Grades : Revise(r, grade)
    OBVIOUS
  <2>1. TypeOK /\ RequestsOne /\ TypeOK'
    BY DEF DecisionInvariant
  <2> DEFINE Answers(h, i) ==
        /\ i \in 1 .. Window /\ h[i].kind = "REQUEST_INFORMATION"
        /\ r \in h[i].about /\ h[i].answered
  <2>2. (AnsweredRequests(r) # {}) <=> \E i : Answers(history, i)
    BY <2>1, AnsweredFacts
  <2>3. AnsweredRequests(r)' # {} => \E i : Answers(history', i)
    BY <2>1, WindowFacts DEF AnsweredRequests, TypeOK
  <2>4. ~(/\ belief'[r] = belief[r]
          /\ asked'[r] = asked[r] \/ asked'[r] = "OPEN"
          /\ \A i : Answers(history', i) => \E j : Answers(history, j))
    BY <2>2, <2>3 DEF Confirmed
  <2>5. ASSUME NEW q \in Requirements, NEW grade \in Grades, Revise(q, grade), q # r PROVE FALSE
    <3>1. belief'[r] = belief[r] /\ asked'[r] = asked[r]
      BY <2>1, <2>5 DEF Revise, TypeOK
    <3>2. ASSUME NEW i, Answers(history', i) PROVE Answers(history, i)
      <4>1. /\ history'[i].kind = history[i].kind /\ history'[i].about = history[i].about
            /\ history'[i].answered =>
                 history[i].answered \/ (history[i].kind = "REQUEST_INFORMATION" /\ q \in history[i].about)
        BY <2>1, <2>5, <3>2, RevisedFacts
      <4>2. q \notin history[i].about
        BY <2>1, <2>5, <3>2, <4>1 DEF RequestsOne
      <4> QED BY <3>2, <4>1, <4>2
    <3> QED BY <2>4, <3>1, <3>2
  <2>6. ASSUME NEW ctx \in Contexts, Decide(ctx) PROVE FALSE
    <3> DEFINE e == Entry(decision')
    <3>1. e \in Attempts /\ e.answered = FALSE /\ history' = Append(Tail(history), e)
      BY <2>1, <2>6, DecideFacts, EntryFacts DEF Decide
    <3> HIDE DEF e
    <3>2. /\ history'[Window] = e
          /\ \A i \in 1 .. Window - 1 : history'[i] = history[i + 1]
      BY <2>1, <3>1, ShiftedWindow
    <3>3. Window \in Nat \ {0}
      BY DecisionAssumption
    <3>4. ASSUME NEW i, Answers(history', i) PROVE Answers(history, i + 1)
      <4>1. i # Window
        BY <3>1, <3>2, <3>4
      <4>2. i \in 1 .. Window - 1 /\ i + 1 \in 1 .. Window
        BY <3>3, <3>4, <4>1
      <4>3. history'[i] = history[i + 1]
        BY <3>2, <4>2
      <4> QED BY <3>4, <4>2, <4>3
    <3> QED BY <2>4, <2>6, <3>4 DEF Decide
  <2>7. CASE Routing
    <3>1. belief' = belief /\ history' \in {history, Marked} /\ asked' \in {asked, Noted}
      BY <2>1, <2>7, RoutingFacts DEF Routing
    <3>2. asked'[r] = asked[r] \/ asked'[r] = "OPEN"
      BY <2>1, <3>1, NotedFacts
    <3>3. ASSUME NEW i, Answers(history', i) PROVE Answers(history, i)
      <4>1. history'[i] = history[i] \/ history'[i].kind = "OTHER"
        BY <2>1, <3>1, <3>3, MarkedKeeps
      <4> QED BY <3>3, <4>1
    <3> QED BY <2>4, <3>1, <3>2, <3>3
  <2>8. CASE GoalEnds \/ SurveyEnds \/ UNCHANGED vars
    BY <2>4, <2>8 DEF GoalEnds, SurveyEnds, vars, historyVars
  <2> QED BY <2>5, <2>6, <2>7, <2>8 DEF Next, Routing
<1> QED BY <1>1, DecisionInductive, PTL DEF Spec, GapClosesByRevision-----------------------------------------------------------------------------
(***************************************************************************)
(* The retreat. The proof counts the requirements that were reported on    *)
(* the way; it needs a window that holds a report of each of them.         *)
(***************************************************************************)
LEMMA DisjointBound ==
  ASSUME NEW n \in Nat, NEW f, \A i \in 1 .. n : f[i] \subseteq Requirements /\ f[i] # {},
         \A i, j \in 1 .. n : i # j => f[i] \cap f[j] = {}
  PROVE  n <= Cardinality(Requirements)
<1> DEFINE g == [i \in 1 .. n |-> CHOOSE r \in Requirements : r \in f[i]]
<1>1. ASSUME NEW i \in 1 .. n PROVE g[i] \in Requirements /\ g[i] \in f[i]
  <2>1. \E r \in Requirements : r \in f[i]
    OBVIOUS
  <2> QED BY <2>1
<1>2. ASSUME NEW i \in 1 .. n, NEW j \in 1 .. n, g[i] = g[j] PROVE i = j
  BY <1>1, <1>2
<1>3. g \in [1 .. n -> Requirements]
  <2>1. \A i \in 1 .. n : (CHOOSE r \in Requirements : r \in f[i]) \in Requirements
    BY <1>1
  <2> QED BY <2>1
<1> HIDE DEF g
<1>4. g \in Injection(1 .. n, Requirements)
  BY <1>2, <1>3 DEF Injection, IsInjective
<1>5. IsFiniteSet(Requirements)
  BY DecisionAssumption
<1>6. Cardinality(1 .. n) <= Cardinality(Requirements)
  BY <1>4, <1>5, FS_Injection
<1>7. Cardinality(1 .. n) = n
  BY FS_Interval
<1> QED BY <1>6, <1>7

LEMMA NoReports == Window \in Nat => Reporting(0)
  BY DEF Reporting
LEMMA ReportedNext ==
  ASSUME DecisionInvariant, NEW ctx \in Contexts, Decide(ctx), decision'.kind = "STORE_AND_FORWARD",
         decision'.about # {}, Reported(decision'.about) = 0,
         Cardinality(Requirements) <= Window, retreatFor <= Cardinality(Requirements), Reporting(retreatFor),
         retreatFor' = retreatFor + 1
  PROVE  retreatFor' <= Cardinality(Requirements) /\ Reporting(retreatFor)'
<1> DEFINE e == Entry(decision')
           about == decision'.about
           n == retreatFor
           h == history'
           f == [i \in 1 .. n + 1 |-> IF i = n + 1 THEN about ELSE history[Window - n + i].about]
<1>1. TypeOK /\ Window \in Nat \ {0} /\ n \in Nat /\ Cardinality(Requirements) \in Nat
  BY DecisionAssumption, FS_CardinalityType DEF DecisionInvariant, TypeOK
<1>2. /\ e \in Attempts /\ e.kind = "STORE_AND_FORWARD" /\ e.about = about
      /\ about \subseteq Requirements /\ about # {}
  BY <1>1, DecideFacts, EntryFacts
<1>3. h = Append(Tail(history), e)
  BY DEF Decide
<1>4. \A i \in 1 .. Window : history[i].kind = "STORE_AND_FORWARD" => history[i].about \cap about = {}
  <2>1. Tries(Reports, about) = 0
    BY DEF Reported
  <2> HIDE DEF about
  <2> QED BY <1>1, <1>2, <2>1, Untried DEF Reports
<1> HIDE DEF e, about, h
<1>5. h[Window] = e /\ \A i \in 1 .. Window - 1 : h[i] = history[i + 1]
  BY <1>1, <1>2, <1>3, ShiftedWindow
<1>6. n <= Window
  BY <1>1
<1>7. ASSUME NEW i \in Window - n + 1 .. Window
      PROVE  /\ i \in 1 .. Window /\ history[i].kind = "STORE_AND_FORWARD" /\ history[i].about # {}
             /\ history[i].about \subseteq Requirements /\ history[i].about \cap about = {}
  <2>1. i \in 1 .. Window
    BY <1>1, <1>6
  <2> QED BY <1>1, <1>4, <2>1 DEF Reporting, TypeOK
<1>8. \A i, j \in Window - n + 1 .. Window : i # j => history[i].about \cap history[j].about = {}
  BY DEF Reporting
<1>9. n + 1 <= Cardinality(Requirements)
  <2>1. \A i \in 1 .. n : Window - n + i \in Window - n + 1 .. Window
    BY <1>1
  <2>2. \A i \in 1 .. n + 1 : f[i] \subseteq Requirements /\ f[i] # {}
    BY <1>1, <1>2, <1>7, <2>1
  <2>3. ASSUME NEW i \in 1 .. n + 1, NEW j \in 1 .. n + 1, i # j PROVE f[i] \cap f[j] = {}
    <3>1. CASE i = n + 1
      <4>1. f[i] = about /\ f[j] = history[Window - n + j].about /\ j \in 1 .. n
        BY <1>1, <2>3, <3>1
      <4> QED BY <1>7, <2>1, <4>1
    <3>2. CASE j = n + 1
      <4>1. f[j] = about /\ f[i] = history[Window - n + i].about /\ i \in 1 .. n
        BY <1>1, <2>3, <3>2
      <4> QED BY <1>7, <2>1, <4>1
    <3>3. CASE i # n + 1 /\ j # n + 1
      <4>1. /\ i \in 1 .. n /\ j \in 1 .. n /\ Window - n + i # Window - n + j
            /\ f[i] = history[Window - n + i].about /\ f[j] = history[Window - n + j].about
        BY <1>1, <2>3, <3>3
      <4> QED BY <1>8, <2>1, <4>1
    <3> QED BY <3>1, <3>2, <3>3
  <2>4. n + 1 \in Nat
    BY <1>1
  <2> HIDE DEF f
  <2> QED BY <2>2, <2>3, <2>4, DisjointBound
<1>10. ASSUME NEW i \in Window - (n + 1) + 1 .. Window
       PROVE  \/ i = Window /\ h[i] = e
              \/ i # Window /\ i + 1 \in Window - n + 1 .. Window /\ h[i] = history[i + 1]
  <2>1. i = Window \/ (i \in 1 .. Window - 1 /\ i + 1 \in Window - n + 1 .. Window)
    BY <1>1, <1>9
  <2> QED BY <1>1, <1>5, <2>1
<1>11. \A i \in Window - (n + 1) + 1 .. Window : h[i].kind = "STORE_AND_FORWARD" /\ h[i].about # {}
  BY <1>2, <1>7, <1>10
<1>12. ASSUME NEW i \in Window - (n + 1) + 1 .. Window, NEW j \in Window - (n + 1) + 1 .. Window, i # j
       PROVE  h[i].about \cap h[j].about = {}
  <2>1. CASE i = Window
    BY <1>2, <1>7, <1>10, <1>12, <2>1
  <2>2. CASE j = Window
    BY <1>2, <1>7, <1>10, <1>12, <2>2
  <2>3. CASE i # Window /\ j # Window
    <3>1. /\ h[i] = history[i + 1] /\ i + 1 \in Window - n + 1 .. Window
          /\ h[j] = history[j + 1] /\ j + 1 \in Window - n + 1 .. Window
      BY <1>10, <2>3
    <3>2. i + 1 # j + 1
      BY <1>1, <1>12
    <3> QED BY <1>8, <3>1, <3>2
  <2> QED BY <2>1, <2>2, <2>3
<1> QED BY <1>9, <1>11, <1>12 DEF h, Reporting

LEMMA ReportingKept ==
  ASSUME Reporting(retreatFor), retreatFor' = retreatFor, retreatFor \in Nat,
         retreatFor <= Window, Window \in Nat,
         \A i \in 1 .. Window : history'[i].kind = history[i].kind /\ history'[i].about = history[i].about
  PROVE  Reporting(retreatFor)'
<1>1. \A i \in Window - retreatFor + 1 .. Window : i \in 1 .. Window
  OBVIOUS
<1> QED BY <1>1 DEF Reporting
LEMMA RetreatInit == Init => ReportsThenRetreats
<1> SUFFICES ASSUME Init PROVE ReportsThenRetreats
  OBVIOUS
<1>1. Cardinality(Requirements) \in Nat /\ Window \in Nat
  BY DecisionAssumption, FS_CardinalityType
<1>2. held = FALSE /\ retreatFor = 0 /\ decision = NoAction
  BY DEF Init
<1> QED BY <1>1, <1>2, NoReports, NothingDecided DEF ReportsThenRetreats

LEMMA RetreatStep ==
  ASSUME Cardinality(Requirements) <= Window, DecisionInvariant, ReportsThenRetreats, [Next]_vars
  PROVE  ReportsThenRetreats'
<1>1. /\ TypeOK /\ RequestsOne /\ Window \in Nat /\ retreatFor \in Nat
      /\ Cardinality(Requirements) \in Nat /\ held \in BOOLEAN
  BY DecisionAssumption, FS_CardinalityType DEF DecisionInvariant, TypeOK
<1>2. ASSUME UNCHANGED <<held, decision, retreatFor>>,
             \A i \in 1 .. Window : history'[i].kind = history[i].kind /\ history'[i].about = history[i].about
      PROVE  ReportsThenRetreats'
  <2>1. retreatFor <= Cardinality(Requirements) /\ Reporting(retreatFor) => Reporting(retreatFor)'
    <3>1. retreatFor <= Cardinality(Requirements) => retreatFor <= Window
      BY <1>1
    <3> QED BY <1>1, <1>2, <3>1, ReportingKept
  <2> QED BY <1>2, <2>1 DEF ReportsThenRetreats
<1>3. ASSUME NEW q \in Requirements, NEW grade \in Grades, Revise(q, grade) PROVE ReportsThenRetreats'
  BY <1>1, <1>2, <1>3, RevisedFacts DEF Revise, runtimeVars
<1>4. CASE GoalEnds \/ SurveyEnds \/ UNCHANGED vars
  BY <1>2, <1>4 DEF GoalEnds, SurveyEnds, vars, historyVars, runtimeVars
<1>5. ASSUME NEW ctx \in Contexts, Decide(ctx) PROVE ReportsThenRetreats'
  <2>1. decision = NoAction /\ held = FALSE /\ held' = FALSE
    BY <1>1, <1>5 DEF Decide, runtimeVars
  <2>2. retreatFor <= Cardinality(Requirements) /\ Reporting(retreatFor)
    BY <2>1, NothingDecided DEF ReportsThenRetreats, Retreats
  <2>3. ctx \in Findings /\ decision' \in Chosen(ctx)
    BY <1>1, <1>5, DecideFacts
  <2>4. CASE ~MustRetreat(ctx)
    <3>1. retreatFor' = 0
      BY <1>5, <2>4 DEF Decide
    <3>2. Reporting(retreatFor)'
      BY <1>1, <3>1 DEF Reporting
    <3> QED BY <1>1, <2>1, <3>1, <3>2 DEF ReportsThenRetreats
  <2>5. CASE MustRetreat(ctx)
    <3>1. retreatFor' = retreatFor + 1
      BY <1>5, <2>5 DEF Decide
    <3>2. CASE decision'.kind \in Retreats
      BY <1>1, <2>1, <2>2, <3>1, <3>2 DEF ReportsThenRetreats, Retreats
    <3>3. CASE /\ decision'.kind = "STORE_AND_FORWARD" /\ decision'.about # {}
               /\ Reported(decision'.about) = 0
      <4>1. retreatFor' <= Cardinality(Requirements) /\ Reporting(retreatFor)'
        BY <1>5, <2>2, <3>1, <3>3, ReportedNext
      <4> QED BY <2>1, <3>3, <4>1 DEF ReportsThenRetreats
    <3> QED BY <1>1, <2>3, <2>5, <3>2, <3>3, RetreatsOrReports
  <2> QED BY <2>4, <2>5
<1>6. CASE Routing
  <2>1. /\ decision # NoAction /\ decision' = NoAction /\ retreatFor' = retreatFor
        /\ decision.kind \in {"REQUEST_INFORMATION", "REVISIT_REGION"} \/ history' = history
        /\ held' = held \/ held' = (decision.kind \in Retreats)
        /\ decision.kind \in Retreats => held' = TRUE
    BY <1>1, <1>6, RoutingFacts DEF Routing
  <2>2. held = FALSE
    <3>1. ~held
      BY <2>1 DEF ReportsThenRetreats
    <3> QED BY <1>1, <3>1
  <2>3. CASE decision.kind \in Retreats
    <3>1. retreatFor' - 1 <= Cardinality(Requirements)
      <4>1. CASE retreatFor - 1 <= Cardinality(Requirements)
        BY <2>1, <4>1
      <4>2. CASE retreatFor <= Cardinality(Requirements)
        BY <1>1, <2>1, <4>2
      <4> QED BY <4>1, <4>2 DEF ReportsThenRetreats
    <3>2. held' /\ decision'.kind \notin {"REQUEST_INFORMATION", "REVISIT_REGION"}
      BY <2>1, <2>3, NothingDecided
    <3> QED BY <2>1, <3>1, <3>2 DEF ReportsThenRetreats
  <2>4. CASE decision.kind \notin Retreats
    <3>1. retreatFor <= Cardinality(Requirements) /\ Reporting(retreatFor)
      BY <2>2, <2>4 DEF ReportsThenRetreats
    <3>2. Reporting(retreatFor)'
      <4>1. CASE history' = history
        BY <2>1, <3>1, <4>1 DEF Reporting
      <4>2. CASE decision.kind \in {"REQUEST_INFORMATION", "REVISIT_REGION"}
        <5>1. retreatFor' = 0
          BY <2>1, <4>2 DEF ReportsThenRetreats
        <5> QED BY <1>1, <5>1 DEF Reporting
      <4> QED BY <2>1, <4>1, <4>2
    <3> QED BY <2>1, <3>1, <3>2, NothingDecided DEF ReportsThenRetreats
  <2> QED BY <2>3, <2>4
<1> QED BY <1>3, <1>4, <1>5, <1>6 DEF Next, Routing

\* A reason to retreat makes the vehicle hold after at most one report per critical requirement, in
\* every window that can hold a report of each; in a shorter one a report could be forgotten and made
\* again, and the vehicle might report forever.
THEOREM RetreatAlwaysBounded ==
  ASSUME Cardinality(Requirements) <= Window
  PROVE  Spec => []RetreatIsBounded
<1>1. Init => ReportsThenRetreats
  BY RetreatInit
<1>2. DecisionInvariant /\ ReportsThenRetreats /\ [Next]_vars => ReportsThenRetreats'
  BY RetreatStep
<1>3. DecisionInvariant /\ ReportsThenRetreats => RetreatIsBounded
  <2>1. retreatFor \in Nat /\ Cardinality(Requirements) \in Nat <=> retreatFor \in Nat
    BY DecisionAssumption, FS_CardinalityType
  <2> QED BY <2>1 DEF DecisionInvariant, TypeOK, ReportsThenRetreats, RetreatIsBounded
<1> QED BY <1>1, <1>2, <1>3, DecisionInductive, PTL DEF Spec
-----------------------------------------------------------------------------
(***************************************************************************)
(* Asking before continuing.                                               *)
(***************************************************************************)
\* As decision/config.py sets the thresholds: an uncertainty that counts is this large at least.
ThresholdsHold == \A grade \in Grades : grade.cause # "NONE" => grade.level >= 40

\* The debt of one open critical requirement, with the risk it is, outweighs what a request costs.
DebtOutweighsRequest == Total * (1180 - 11 * Consequence) < 10 * (100 + Consequence)

LEMMA StrictDivision ==
  /\ \A x \in Int, d \in Nat \ {0} : x \div d \in Int
  /\ \A x \in Int, d \in Nat \ {0}, u \in Int : x < d * u => x \div d < u
<1>1. \A x \in Int, d \in Nat \ {0} : x \div d \in Int
  BY SMT
<1>2. ASSUME NEW x \in Int, NEW d \in Nat \ {0}, NEW u \in Int, x < d * u
      PROVE  x \div d < u
  <2>1. x \div d \in Int /\ d * (x \div d) <= x
    BY SMT
  <2>2. \A q \in Int : d * q < d * u => q < u
    BY SMT
  <2> QED BY <1>2, <2>1, <2>2, SMT
<1> QED BY <1>1, <1>2

\* What can be asked about is uncertain enough to be a risk.
LEMMA AskableExposed ==
  ASSUME TypeOK, ThresholdsHold, NEW ctx, NEW r \in Requirements, Askable(ctx, r) # {}
  PROVE  Exposure(ctx, r) >= 40
<1> DEFINE S == {belief[r].level} \cup (IF Floored(r) THEN {UncalibratedFloor} ELSE {})
                \cup (IF belief[r].conflict THEN {ConflictLevel} ELSE {})
<1>1. SUFFICES ASSUME ~Unreliable(ctx, r) PROVE Exposure(ctx, r) >= 40
  BY DEF Exposure
<1>2. PICK c \in Channels : c = belief[r].cause \/ Floored(r) \/ belief[r].conflict \/ r \in ctx.disputed
  BY DEF Askable, Causes
<1>3. belief[r].seen /\ r \notin ctx.disputed
  BY <1>1 DEF Unreliable, Unretrieved
<1>4. belief[r] \in Grades
  BY <1>3 DEF TypeOK, Missing
<1>5. belief[r].cause # "NONE" => belief[r].level >= 40
  BY <1>4 DEF ThresholdsHold
<1>6. \E x \in S : x >= 40
  <2>1. CASE c = belief[r].cause
    BY <1>5, <2>1 DEF Channels
  <2>2. CASE Floored(r)
    BY <2>2 DEF UncalibratedFloor
  <2>3. CASE belief[r].conflict
    BY <2>3 DEF ConflictLevel
  <2> QED BY <1>2, <1>3, <2>1, <2>2, <2>3
<1>7. belief[r].level \in 0 .. 100
  BY BeliefTyped DEF Beliefs
<1>8. \A x \in S : x \in Int /\ x <= 100
  BY <1>7 DEF UncalibratedFloor, ConflictLevel
<1>9. Exposure(ctx, r) = Max(S)
  BY <1>1 DEF Exposure
<1> HIDE DEF S
<1>10. Bounded(S)
  <2>1. S \subseteq Int
    BY <1>8
  <2>2. \E bound \in Int : \A x \in S : x <= bound
    <3> WITNESS 100 \in Int
    <3> QED BY <1>8
  <2> QED BY <2>1, <2>2 DEF Bounded
<1>11. Max(S) \in S /\ \A x \in S : x <= Max(S)
  BY <1>6, <1>10, MaxOfBounded
<1>12. PICK x \in S : x >= 40
  BY <1>6
<1>13. x \in S /\ Max(S) \in S
  BY <1>11, <1>12, Zenon
<1>14. x <= Max(S)
  BY <1>11, <1>12, Zenon
<1>15. x \in Int /\ Max(S) \in Int
  BY <1>8, <1>13
<1> QED BY <1>9, <1>12, <1>14, <1>15

LEMMA DebtBound ==
  ASSUME TypeOK, DebtOutweighsRequest, NEW ctx, Open(ctx) # {}
  PROVE  MissionValue(ctx) \in Int /\ MissionValue(ctx) < 11000 * Consequence - 180000
<1>1. Total \in Nat \ {0} /\ Consequence \in 80 .. 100
  BY DecisionAssumption, SMT
<1>2. Cardinality(Open(ctx)) \in Nat /\ Cardinality(Open(ctx)) >= 1
  <2>1. IsFiniteSet(Open(ctx))
    BY DecisionAssumption, FS_Subset DEF Open
  <2> QED BY <2>1, OpenCount, FS_EmptySet
<1> DEFINE n == Cardinality(Open(ctx))
           owed == 1000000 + Consequence * 10000
           debt == n * owed
           u == 11000 * Consequence - 180000
<1>3. MissionValue(ctx) = (Total * 1000000 - debt) \div Total
  BY SMT DEF MissionValue, Unit, Percent
<1>4. owed \in Nat /\ u \in Int
  BY <1>1, SMT
<1>5. Total * (1000000 - u) < owed
  <2>1. 1000 * (Total * (1180 - 11 * Consequence)) < 1000 * (10 * (100 + Consequence))
    BY <1>1, SMT DEF DebtOutweighsRequest
  <2>2. /\ 1000 * (Total * (1180 - 11 * Consequence)) = Total * (1000000 - u)
        /\ 1000 * (10 * (100 + Consequence)) = owed
    BY <1>1, SMT
  <2> QED BY <2>1, <2>2
<1> HIDE DEF owed, u, n
<1>6. debt \in Nat /\ owed <= debt
  <2>1. n \in Nat /\ n >= 1
    BY <1>2 DEF n
  <2>2. \A a \in Nat, b \in Nat : a >= 1 => a * b \in Nat /\ b <= a * b
    BY SMT
  <2> QED BY <1>4, <2>1, <2>2
<1> HIDE DEF debt
<1>7. Total * (1000000 - u) = Total * 1000000 - Total * u /\ Total * u \in Int
  BY <1>1, <1>4, SMT
<1>8. Total * 1000000 - debt \in Int /\ Total * 1000000 - debt < Total * u
  BY <1>1, <1>5, <1>6, <1>7, <1>4, SMT
<1>9. (Total * 1000000 - debt) \div Total \in Int /\ (Total * 1000000 - debt) \div Total < u
  BY <1>1, <1>4, <1>8, StrictDivision, SMT
<1> QED BY <1>3, <1>9 DEF u

\* What the first request about anything is worth at least.
FreshWorth == 5000 * Consequence - 200000

LEMMA FreshRequestWorth ==
  ASSUME TypeOK, NEW a, a.cause \in DOMAIN Resolvability, Resolvability[a.cause] \in 50 .. 80,
         Tries({"REQUEST_INFORMATION"}, a.about) = 0
  PROVE  RequestValue(a) \in Int /\ RequestValue(a) >= FreshWorth
<1> DEFINE v == Consequence * Resolvability[a.cause] * 100
<1>1. v \in Nat /\ v >= 5000 * Consequence /\ Consequence \in Nat
  <2>1. \A c \in 80 .. 100, p \in 50 .. 80 : c * p * 100 \in Nat /\ c * p * 100 >= 5000 * c
    BY SMT
  <2> QED BY <2>1, DecisionAssumption, SMT
<1>2. RequestValue(a) = Decayed(v, 0) - 200000
  BY SMT DEF RequestValue
<1> HIDE DEF v
<1>3. Decayed(v, 0) = v
  BY <1>1, DecayedBounds, SMT
<1> QED BY <1>1, <1>2, <1>3, SMT DEF FreshWorth

LEMMA ContinuingIsWorthLess ==
  ASSUME TypeOK, ThresholdsHold, DebtOutweighsRequest, NEW ctx, NEW r \in Open(ctx),
         Askable(ctx, r) # {}
  PROVE  ContinueValue(ctx) \in Int /\ ContinueValue(ctx) < FreshWorth
<1>1. MissionValue(ctx) \in Int /\ MissionValue(ctx) < 11000 * Consequence - 180000
  BY DebtBound, SMT
<1>2. ContinueRisk(ctx) \in Nat /\ ContinueRisk(ctx) >= 40 * Consequence
  <2>1. Exposure(ctx, r) >= 40 /\ Exposure(ctx, r) \in 0 .. 100
    BY AskableExposed, ExposureBounds DEF Open
  <2>2. \A c \in 80 .. 100, e \in 0 .. 100 : e >= 40 => c * e >= 40 * c /\ c * e \in Nat
    BY SMT
  <2>3. Consequence * Exposure(ctx, r) >= 40 * Consequence /\ Consequence * Exposure(ctx, r) \in Nat
    BY <2>1, <2>2, DecisionAssumption
  <2> QED BY <2>3, RiskType, RiskCovers, DecisionAssumption
<1>3. Consequence \in Nat
  BY DecisionAssumption
<1> QED BY <1>1, <1>2, <1>3, SMT DEF ContinueValue, FreshWorth

LEMMA AsksBeforeContinuing ==
  ASSUME TypeOK, ThresholdsHold, DebtOutweighsRequest, NEW ctx \in Findings, NEW a \in Chosen(ctx),
         NEW r \in Open(ctx), Askable(ctx, r) # {}, Tries({"REQUEST_INFORMATION"}, {r}) = 0
  PROVE  a.kind # "CONTINUE_MISSION"
<1>1. SUFFICES ASSUME a.kind = "CONTINUE_MISSION" PROVE FALSE
  OBVIOUS
<1>2. r \in Requirements
  BY DEF Open
<1>3. PICK q : q \in Requests(ctx, r)
  <2>1. PICK c : c \in Askable(ctx, r)
    OBVIOUS
  <2> DEFINE sought == Action("REQUEST_INFORMATION", {r},
                              IF c = "EPISTEMIC" /\ CalibrationOnly(r) THEN "CALIBRATION" ELSE c)
  <2>2. sought \in Requests(ctx, r)
    BY <2>1 DEF Requests
  <2> HIDE DEF sought
  <2> QED BY <2>2
<1>4. /\ q.kind = "REQUEST_INFORMATION" /\ q.about = {r}
      /\ q.cause \in DOMAIN Resolvability /\ Resolvability[q.cause] \in 50 .. 80
  BY <1>2, <1>3, RequestFacts
<1>5. q \in Candidates(ctx)
  BY <1>3 DEF Candidates
<1>6. Accepted(ctx, q)
  <2>1. Accepted(ctx, a)
    BY ChosenIsBest
  <2>2. ctx.health = "OK" /\ ctx.motion
    BY <1>1, <2>1 DEF Accepted, AlwaysPermitted, Retreats, MotionActions
  <2> QED BY <1>4, <2>2 DEF Accepted
<1>7. Value(ctx, q) <= Value(ctx, a)
  BY <1>5, <1>6, ChosenIsBest
<1>8. Value(ctx, q) = RequestValue(q) /\ Value(ctx, a) = ContinueValue(ctx)
  BY <1>1, <1>4, ValueOfKind
<1>9. RequestValue(q) \in Int /\ RequestValue(q) >= FreshWorth
  <2>1. Tries({"REQUEST_INFORMATION"}, q.about) = 0
    BY <1>4
  <2> QED BY <1>4, <2>1, FreshRequestWorth, Zenon
<1>10. ContinueValue(ctx) \in Int /\ ContinueValue(ctx) < FreshWorth
  BY ContinuingIsWorthLess
<1>11. FreshWorth \in Int
  BY DecisionAssumption, SMT DEF FreshWorth
<1> QED BY <1>7, <1>8, <1>9, <1>10, <1>11

\* The mission is not continued past an open critical requirement that could be asked about and was
\* not asked about in the window, where the mission has few enough requirements for one of them to
\* weigh: the debt is shared by all of them (ConsequenceEstimator), a request costs the same.
THEOREM OpenAlwaysAskedFirst ==
  ASSUME ThresholdsHold, DebtOutweighsRequest
  PROVE  Spec => OpenIsAskedFirst
<1>1. DecisionInvariant /\ [Next]_vars =>
        [Takes({"CONTINUE_MISSION"}) =>
           \A ctx \in Contexts :
             (\E r \in Open(ctx) : Askable(ctx, r) # {} /\ Tries({"REQUEST_INFORMATION"}, {r}) = 0)
               => ~Decide(ctx)]_vars
  <2> SUFFICES ASSUME DecisionInvariant, Takes({"CONTINUE_MISSION"}), NEW ctx \in Contexts,
                      NEW r \in Open(ctx), Askable(ctx, r) # {},
                      Tries({"REQUEST_INFORMATION"}, {r}) = 0, Decide(ctx)
               PROVE  FALSE
    OBVIOUS
  <2>1. TypeOK
    BY DEF DecisionInvariant
  <2>2. ctx \in Findings /\ decision' \in Chosen(ctx)
    BY <2>1, DecideFacts
  <2>3. decision'.kind # "CONTINUE_MISSION"
    BY <2>1, <2>2, AsksBeforeContinuing
  <2> QED BY <2>3 DEF Takes
<1> QED BY <1>1, DecisionInductive, PTL DEF Spec, OpenIsAskedFirst
=============================================================================
