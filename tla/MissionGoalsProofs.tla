------------------------ MODULE MissionGoalsProofs ------------------------
(***************************************************************************)
(* Proofs about the goals of a mission: for all needs and poses, all three *)
(* limits on plans and views, every timeout and dwell and every setting of *)
(* the view execution protocol.                                            *)
(***************************************************************************)
EXTENDS MissionGoals, SequenceTheorems, TLAPS

Records == [target : Targets, outcome : Outcomes, flown : BOOLEAN]

\* An inspection has a target, and no other goal has one.
TargetInspected == active.purpose = "INSPECT" <=> active.target # NoTarget

\* The ledger has at most one record that is not reconciled, and then no open one.
OneRecord == Len(closed) <= 1 /\ (closed # <<>> => view = NoView)

\* A held mission does not decide, and a decision starts from a reconciled ledger.
DecidesReconciled ==
  /\ stage \in {"FINISH", "RECONCILE", "ROUTE"} => ~held
  /\ stage = "ROUTE" => closed = <<>>

\* Who has arrived has been seen at the pose, unless navigation failed in between; then nothing
\* is decided about the view any more.
ArrivedIsReached ==
  active.purpose = "INSPECT" /\ status \in {"ARRIVED", "COMPLETE"} =>
    view.reached \/ (navFailed /\ (stage = "SUPERVISE" \/ held))

\* The plan that the reconciliation may give back.
Owed(k) == IF \E i \in DOMAIN closed : closed[i].target.need = k THEN 1 ELSE 0

\* What is reported as unavailable is so after the refunds that are due, and no view of it runs.
ExhaustedForGood(k) ==
  \/ planAttempts[k] - Owed(k) >= Min({MaxPlansPerNeed, InformationLimit})
  \/ (ViewExecution /\ viewAttempts[k] >= MaxViewAttempts)

UnavailableStays ==
  /\ \A b \in unavailable : \E k \in Needs : b \in k /\ ExhaustedForGood(k)
  /\ view # NoView => unavailable \cap view.target.need = {}

\* The half of the invariant about goal, view and ledger, and the whole.
GoalPart ==
  /\ GoalTypeOK
  /\ TargetInspected
  /\ ViewMatchesGoal
  /\ OneRecord
  /\ DecidesReconciled
  /\ ArrivedIsReached
  /\ OutcomesAreEarned
  /\ SafeHoldKept

GoalInvariant ==
  /\ TypeOK
  /\ GoalPart
  /\ AttemptsBounded
  /\ UnavailableStays
-----------------------------------------------------------------------------
(***************************************************************************)
(* The operators the model is built from.                                  *)
(***************************************************************************)
LEMMA MinOfTwo ==
  ASSUME NEW a \in Int, NEW b \in Int
  PROVE  Min({a, b}) = IF a <= b THEN a ELSE b
<1>1. \E x \in {a, b} : \A y \in {a, b} : x <= y
  OBVIOUS
<1>2. Min({a, b}) \in {a, b} /\ \A y \in {a, b} : Min({a, b}) <= y
  BY <1>1 DEF Min
<1> QED BY <1>2

LEMMA PlanLimit ==
  /\ Min({MaxPlansPerNeed, InformationLimit}) \in Nat \ {0}
  /\ Min({MaxPlansPerNeed, InformationLimit}) <= MaxPlansPerNeed
<1>1. MaxPlansPerNeed \in Int /\ InformationLimit \in Int
  BY GoalAssumption
<1> QED BY <1>1, MinOfTwo, GoalAssumption

LEMMA NoTargetIsNone == NoTarget \notin Targets
BY GoalAssumption DEF NoTarget, Targets

\* What closing a view appends to a ledger that has no other record.
LEMMA ClosingAppends ==
  ASSUME TypeOK, OneRecord, NEW outcome \in Outcomes
  PROVE  /\ view = NoView => closed \o Closing(outcome) = closed
         /\ view # NoView => /\ closed \o Closing(outcome) = <<Record(view, outcome)>>
                             /\ Record(view, outcome) \in Records
<1>1. closed \in Seq(Records)
  BY DEF TypeOK, GoalTypeOK, Records
<1>2. CASE view = NoView
  BY <1>1, <1>2, ConcatEmptySeq DEF Closing
<1>3. CASE view # NoView
  <2>1. closed = <<>>
    BY <1>3 DEF OneRecord
  <2>2. view \in [target : Targets, reached : BOOLEAN, dwelt : 0 .. Dwell]
    BY <1>3 DEF TypeOK, GoalTypeOK
  <2>3. Flown(view) \in BOOLEAN
    BY DEF Flown
  <2>4. Record(view, outcome) \in Records
    BY <2>2, <2>3 DEF Record, Records
  <2>5. <<Record(view, outcome)>> \in Seq(Records)
    BY <2>4
  <2>6. <<>> \o <<Record(view, outcome)>> = <<Record(view, outcome)>>
    BY <2>5, ConcatEmptySeq
  <2> QED BY <1>3, <2>1, <2>4, <2>6 DEF Closing
<1> QED BY <1>2, <1>3

(***************************************************************************)
(* What set_goal leaves behind.  A goal takes the place of a running view  *)
(* only when the view is over, is preempted, or the mission is to hold.    *)
(***************************************************************************)
MayReplace(purpose, target, preempt) ==
  /\ ~held /\ stage \notin {"SUPERVISE", "ENDED"}
  /\ purpose \in Purposes /\ target \in Targets \cup {NoTarget}
  /\ purpose = "INSPECT" <=> target # NoTarget
  /\ preempt \in {"NONE", "ABANDONED_ROUTE_BLOCKED"}
  /\ target # NoTarget => view = NoView /\ closed = <<>>
  /\ view # NoView =>
       purpose = "SAFE_HOLD" \/ preempt # "NONE" \/ GoalFinished

\* A view that may be replaced gets one of the reasons that are allowed.
LEMMA ReasonIsEarned ==
  ASSUME GoalInvariant, NEW purpose, NEW target, NEW preempt, MayReplace(purpose, target, preempt),
         view # NoView
  PROVE  /\ CloseReason(purpose, preempt) \in Outcomes \ {"COMPLETED_OFF_POSE", "ABANDONED_PREEMPTED"}
         /\ CloseReason(purpose, preempt) = "FLOWN" => Flown(view)
         /\ CloseReason(purpose, preempt) = "ARRIVED_DWELL_SHORT" => ~Flown(view)
<1>1. active.purpose = "INSPECT" /\ status # "REJECTED"
  BY DEF GoalInvariant, GoalPart, ViewMatchesGoal, MayReplace
<1>2. status \in {"EXECUTING", "ARRIVED", "COMPLETE"}
  BY <1>1 DEF GoalInvariant, GoalPart, TypeOK, GoalTypeOK, Statuses
<1>3. status \in {"ARRIVED", "COMPLETE"} => view.reached
  BY <1>1 DEF GoalInvariant, GoalPart, ArrivedIsReached, MayReplace
<1>4. purpose = "SAFE_HOLD" \/ preempt # "NONE" \/ GoalFinished
  BY DEF MayReplace
<1>5. CASE status = "COMPLETE"
  <2>1. CloseReason(purpose, preempt) = IF Flown(view) THEN "FLOWN" ELSE "ARRIVED_DWELL_SHORT"
    BY <1>3, <1>5 DEF CloseReason
  <2> QED BY <2>1 DEF Outcomes
<1>6. CASE status # "COMPLETE"
  <2>1. CloseReason(purpose, preempt) =
          IF preempt # "NONE" THEN preempt
          ELSE IF purpose = "SAFE_HOLD" THEN "ABANDONED_SAFE_HOLD"
          ELSE IF active.age > InspectionTimeout THEN "ABANDONED_TIMEOUT" ELSE "ABANDONED_PREEMPTED"
    BY <1>1, <1>6 DEF CloseReason
  <2>2. GoalFinished => active.age > InspectionTimeout
    BY <1>1, <1>2, <1>6 DEF GoalFinished
  <2> QED BY <1>4, <2>1, <2>2 DEF MayReplace, Outcomes, Refunded
<1> QED BY <1>5, <1>6

Earned(rec) ==
  /\ rec.outcome \notin {"COMPLETED_OFF_POSE", "ABANDONED_PREEMPTED"}
  /\ rec.outcome = "FLOWN" => rec.flown
  /\ rec.flown => rec.outcome # "ARRIVED_DWELL_SHORT"

LEMMA SetGoalFacts ==
  ASSUME GoalInvariant, NEW purpose, NEW target, NEW preempt, NEW accepted \in BOOLEAN,
         MayReplace(purpose, target, preempt), SetGoal(purpose, target, preempt, accepted)
  PROVE  /\ arrivedFor' = 0
         /\ status' = IF accepted THEN "EXECUTING" ELSE "REJECTED"
         /\ active' = IF accepted THEN [purpose |-> purpose, target |-> target, age |-> 0] ELSE active
         /\ view' = IF accepted /\ target # NoTarget THEN NewView(target) ELSE NoView
         /\ view = NoView /\ (accepted \/ target = NoTarget) => closed' = closed
         /\ view = NoView /\ ~accepted /\ target # NoTarget /\ closed = <<>> =>
              closed' = <<Record(NewView(target), "ABANDONED_NAV_REJECTED")>>
         /\ view # NoView => \E outcome \in Outcomes : /\ closed' = <<Record(view, outcome)>>
                                                        /\ Earned(Record(view, outcome))
                                                        /\ Record(view, outcome) \in Records
<1>1. TypeOK /\ OneRecord
  BY DEF GoalInvariant, GoalPart
<1>2. /\ arrivedFor' = 0
      /\ status' = IF accepted THEN "EXECUTING" ELSE "REJECTED"
      /\ active' = IF accepted THEN [purpose |-> purpose, target |-> target, age |-> 0] ELSE active
      /\ view' = IF accepted /\ target # NoTarget THEN NewView(target) ELSE NoView
  BY DEF SetGoal
<1>3. closed \in Seq(Records)
  BY <1>1 DEF TypeOK, GoalTypeOK, Records
<1>4. "ABANDONED_TRAJECTORY_LOST" \in Outcomes
  BY DEF Outcomes, Refunded
<1>5. CASE view = NoView
  <2>1. Closing(CloseReason(purpose, preempt)) = <<>> /\ Closing("ABANDONED_TRAJECTORY_LOST") = <<>>
    BY <1>5 DEF Closing
  <2>2. closed \o <<>> = closed
    BY <1>3, ConcatEmptySeq
  <2>3. accepted \/ target = NoTarget => closed' = closed
    BY <2>1, <2>2 DEF SetGoal
  <2>4. CASE ~accepted /\ target # NoTarget /\ closed = <<>>
    <3> DEFINE r == Record(NewView(target), "ABANDONED_NAV_REJECTED")
    <3>1. closed' = (<<>> \o <<>>) \o <<r>>
      BY <2>1, <2>4 DEF SetGoal
    <3> HIDE DEF r
    <3>2. <<>> \o <<>> = <<>> /\ <<>> \o <<r>> = <<r>>
      BY ConcatEmptySeq
    <3> QED BY <1>2, <1>5, <2>3, <2>4, <3>1, <3>2 DEF r
  <2> QED BY <1>2, <1>5, <2>3, <2>4
<1>6. CASE view # NoView
  <2>1. target = NoTarget
    BY <1>6 DEF MayReplace
  <2>2. CASE accepted
    <3> DEFINE outcome == CloseReason(purpose, preempt)
    <3>1. closed' = closed \o Closing(outcome)
      BY <2>2 DEF SetGoal
    <3>2. /\ outcome \in Outcomes \ {"COMPLETED_OFF_POSE", "ABANDONED_PREEMPTED"}
          /\ outcome = "FLOWN" => Flown(view)
          /\ outcome = "ARRIVED_DWELL_SHORT" => ~Flown(view)
      BY <1>6, ReasonIsEarned
    <3> HIDE DEF outcome
    <3>3. closed' = <<Record(view, outcome)>> /\ Record(view, outcome) \in Records
      BY <1>1, <1>6, <3>1, <3>2, ClosingAppends
    <3>4. Earned(Record(view, outcome))
      BY <3>2 DEF Earned, Record
    <3> QED BY <1>2, <1>6, <3>2, <3>3, <3>4
  <2>3. CASE ~accepted
    <3> DEFINE outcome == "ABANDONED_TRAJECTORY_LOST"
    <3>1. closed' = (closed \o Closing(outcome)) \o <<>>
      BY <2>1, <2>3 DEF SetGoal
    <3>2. closed \o Closing(outcome) = <<Record(view, outcome)>> /\ Record(view, outcome) \in Records
      BY <1>1, <1>4, <1>6, ClosingAppends
    <3>3. <<Record(view, outcome)>> \o <<>> = <<Record(view, outcome)>>
      BY <3>2, ConcatEmptySeq
    <3>4. Earned(Record(view, outcome))
      BY DEF Earned, Record
    <3> QED BY <1>2, <1>4, <1>6, <3>1, <3>2, <3>3, <3>4
  <2> QED BY <2>2, <2>3
<1> QED BY <1>5, <1>6

\* The goal, the open view and the ledger fit together.
GoalsFit ==
  /\ GoalTypeOK
  /\ TargetInspected
  /\ IF active.purpose = "INSPECT" /\ status # "REJECTED"
       THEN view.target = active.target ELSE view = NoView
  /\ OneRecord
  /\ \A i \in DOMAIN closed : Earned(closed[i])

LEMMA GoalsFitNow == GoalInvariant /\ stage # "ENDED" => GoalsFit
BY DEF GoalInvariant, GoalPart, TypeOK, ViewMatchesGoal, OutcomesAreEarned, GoalsFit, Earned

LEMMA GoalReplaced ==
  ASSUME GoalInvariant, NEW purpose, NEW target, NEW preempt, NEW accepted \in BOOLEAN,
         MayReplace(purpose, target, preempt), SetGoal(purpose, target, preempt, accepted)
  PROVE  /\ GoalsFit'
         /\ status' \in {"EXECUTING", "REJECTED"}
         /\ purpose = "SAFE_HOLD" => active'.purpose = "SAFE_HOLD" \/ status' = "REJECTED"
<1>1. GoalsFit
  BY GoalsFitNow DEF MayReplace
<1>2. /\ arrivedFor' = 0
      /\ status' = IF accepted THEN "EXECUTING" ELSE "REJECTED"
      /\ active' = IF accepted THEN [purpose |-> purpose, target |-> target, age |-> 0] ELSE active
      /\ view' = IF accepted /\ target # NoTarget THEN NewView(target) ELSE NoView
  BY SetGoalFacts
<1>3. purpose \in Purposes /\ target \in Targets \cup {NoTarget} /\ (purpose = "INSPECT" <=> target # NoTarget)
  BY DEF MayReplace
<1>4. target # NoTarget => /\ NewView(target) \in [target : Targets, reached : BOOLEAN, dwelt : 0 .. Dwell]
                          /\ NewView(target).target = target
                          /\ Record(NewView(target), "ABANDONED_NAV_REJECTED") \in Records
                          /\ Earned(Record(NewView(target), "ABANDONED_NAV_REJECTED"))
  <2>1. SUFFICES ASSUME target # NoTarget
        PROVE  /\ NewView(target) \in [target : Targets, reached : BOOLEAN, dwelt : 0 .. Dwell]
               /\ NewView(target).target = target
               /\ Record(NewView(target), "ABANDONED_NAV_REJECTED") \in Records
               /\ Earned(Record(NewView(target), "ABANDONED_NAV_REJECTED"))
    OBVIOUS
  <2>2. target \in Targets
    BY <1>3, <2>1
  <2>3. NewView(target) = [target |-> target, reached |-> FALSE, dwelt |-> 0]
    BY DEF NewView
  <2>4. 0 \in 0 .. Dwell
    BY GoalAssumption
  <2>5. NewView(target) \in [target : Targets, reached : BOOLEAN, dwelt : 0 .. Dwell]
    BY <2>2, <2>3, <2>4
  <2>6. NewView(target).target = target
    BY <2>3
  <2>7. Flown(NewView(target)) \in BOOLEAN
    BY DEF Flown
  <2>8. "ABANDONED_NAV_REJECTED" \in Outcomes
    BY DEF Outcomes, Refunded
  <2>9. Record(NewView(target), "ABANDONED_NAV_REJECTED") \in Records
    BY <2>2, <2>6, <2>7, <2>8 DEF Record, Records
  <2>10. Earned(Record(NewView(target), "ABANDONED_NAV_REJECTED"))
    BY DEF Earned, Record
  <2> QED BY <2>5, <2>6, <2>9, <2>10
<1>5. (GoalTypeOK /\ OneRecord)' /\ \A i \in DOMAIN closed' : Earned(closed'[i])
  <2>1. active' \in [purpose : Purposes, target : Targets \cup {NoTarget}, age : 0 .. InspectionTimeout + 1]
    BY <1>1, <1>2, <1>3, GoalAssumption DEF GoalsFit, GoalTypeOK
  <2>2. status' \in Statuses /\ arrivedFor' \in 0 .. Dwell
    BY <1>2, GoalAssumption DEF Statuses
  <2>3. view' = NoView \/ view' \in [target : Targets, reached : BOOLEAN, dwelt : 0 .. Dwell]
    BY <1>2, <1>4
  <2>4. CASE view = NoView /\ (accepted \/ target = NoTarget)
    <3>1. closed' = closed
      BY <2>4, SetGoalFacts
    <3>2. closed' # <<>> => view' = NoView
      BY <1>1, <1>2, <2>4, <3>1 DEF GoalsFit, OneRecord, MayReplace
    <3> QED BY <1>1, <2>1, <2>2, <2>3, <3>1, <3>2 DEF GoalsFit, GoalTypeOK, OneRecord
  <2>5. CASE view # NoView \/ (~accepted /\ target # NoTarget)
    <3>1. PICK r \in Records : closed' = <<r>> /\ Earned(r)
      <4>1. CASE view # NoView
        BY <4>1, SetGoalFacts
      <4>2. CASE view = NoView
        <5>1. ~accepted /\ target # NoTarget /\ closed = <<>>
          BY <2>5, <4>2 DEF MayReplace
        <5>2. closed' = <<Record(NewView(target), "ABANDONED_NAV_REJECTED")>>
          BY <4>2, <5>1, SetGoalFacts
        <5> QED BY <5>1, <5>2, <1>4
      <4> QED BY <4>1, <4>2
    <3>2. view' = NoView
      BY <1>2, <2>5 DEF MayReplace
    <3>3. closed' \in Seq(Records) /\ Len(closed') = 1
      BY <3>1
    <3>4. \A i \in DOMAIN closed' : Earned(closed'[i])
      BY <3>1
    <3> QED BY <2>1, <2>2, <2>3, <3>2, <3>3, <3>4 DEF GoalTypeOK, OneRecord, Records
  <2> QED BY <2>4, <2>5
<1>6. TargetInspected'
  BY <1>1, <1>2, <1>3 DEF TargetInspected, GoalsFit
<1>7. IF active'.purpose = "INSPECT" /\ status' # "REJECTED"
        THEN view'.target = active'.target ELSE view' = NoView
  BY <1>2, <1>3, <1>4
<1> QED BY <1>2, <1>5, <1>6, <1>7 DEF GoalsFit

(***************************************************************************)
(* Steps that set a goal, steps that leave the goal alone, and the hold.   *)
(***************************************************************************)
LEMMA SetGoalKeeps ==
  ASSUME GoalInvariant, NEW purpose, NEW target, NEW preempt, NEW accepted \in BOOLEAN,
         MayReplace(purpose, target, preempt), SetGoal(purpose, target, preempt, accepted),
         stage' \in {"RECONCILE", "POLL", "CONTROL"},
         held' = held \/ (purpose = "SAFE_HOLD" /\ stage' # "RECONCILE")
  PROVE  GoalPart'
<1>1. /\ GoalsFit'
      /\ status' \in {"EXECUTING", "REJECTED"}
      /\ purpose = "SAFE_HOLD" => active'.purpose = "SAFE_HOLD" \/ status' = "REJECTED"
  BY GoalReplaced
<1>2. ~held
  BY DEF MayReplace
<1>3. ViewMatchesGoal' /\ OutcomesAreEarned'
  BY <1>1 DEF GoalsFit, ViewMatchesGoal, OutcomesAreEarned, Earned
<1>4. DecidesReconciled' /\ ArrivedIsReached' /\ SafeHoldKept'
  BY <1>1, <1>2 DEF DecidesReconciled, ArrivedIsReached, SafeHoldKept
<1> QED BY <1>1, <1>3, <1>4 DEF GoalPart, GoalsFit

LEMMA GoalKeptKeeps ==
  ASSUME GoalInvariant, UNCHANGED goalVars,
         stage \notin {"SUPERVISE", "ENDED"}, stage' # "ENDED",
         held => held', navFailed => navFailed', held' => held \/ navFailed',
         DecidesReconciled'
  PROVE  GoalPart'
<1> USE DEF GoalInvariant, GoalPart
<1>1. /\ active' = active /\ status' = status /\ arrivedFor' = arrivedFor
      /\ view' = view /\ closed' = closed
  BY DEF goalVars
<1>2. (GoalTypeOK /\ TargetInspected /\ OneRecord)'
  BY <1>1 DEF GoalTypeOK, TargetInspected, OneRecord
<1>3. (ViewMatchesGoal /\ OutcomesAreEarned /\ ArrivedIsReached /\ SafeHoldKept)'
  BY <1>1 DEF ViewMatchesGoal, OutcomesAreEarned, ArrivedIsReached, SafeHoldKept
<1> QED BY <1>2, <1>3

LEMMA SafeHoldKeeps ==
  ASSUME GoalInvariant, SafeHold, UNCHANGED navFailed,
         stage \in {"ROUTE", "POLL"}, stage' \in {"POLL", "CONTROL"}
  PROVE  GoalPart'
<1>1. CASE held \/ navFailed
  <2>1. UNCHANGED goalVars /\ held'
    BY <1>1 DEF SafeHold
  <2>2. DecidesReconciled'
    BY DEF DecidesReconciled
  <2> QED BY <1>1, <2>1, <2>2, GoalKeptKeeps
<1>2. CASE ~held /\ ~navFailed
  <2>1. PICK accepted \in BOOLEAN : SetGoal("SAFE_HOLD", NoTarget, "NONE", accepted)
    BY <1>2 DEF SafeHold, SetPlainGoal
  <2>2. MayReplace("SAFE_HOLD", NoTarget, "NONE")
    BY <1>2 DEF MayReplace, Purposes
  <2>3. held' = held \/ ("SAFE_HOLD" = "SAFE_HOLD" /\ stage' # "RECONCILE")
    OBVIOUS
  <2> QED BY <2>1, <2>2, <2>3, SetGoalKeeps
<1> QED BY <1>1, <1>2

\* What a step does to the ledger, unless it reconciles it or launches a view.
ClosesOnlyTheView ==
  /\ \A i \in DOMAIN closed' :
       \/ \E j \in DOMAIN closed : closed'[i] = closed[j]
       \/ view # NoView /\ closed'[i].target = view.target
  /\ view' # NoView => view # NoView /\ view'.target = view.target

LEMMA GoalKeptClosesNothing == UNCHANGED goalVars => ClosesOnlyTheView
BY DEF goalVars, ClosesOnlyTheView

LEMMA PlainGoalClosesOnlyTheView ==
  ASSUME GoalInvariant, NEW purpose, NEW preempt, NEW accepted \in BOOLEAN,
         MayReplace(purpose, NoTarget, preempt), SetGoal(purpose, NoTarget, preempt, accepted)
  PROVE  ClosesOnlyTheView
<1>1. view' = NoView /\ (view = NoView => closed' = closed)
  BY SetGoalFacts
<1>2. CASE view = NoView
  BY <1>1, <1>2 DEF ClosesOnlyTheView
<1>3. CASE view # NoView
  <2>1. PICK outcome \in Outcomes : closed' = <<Record(view, outcome)>>
    BY <1>3, SetGoalFacts
  <2>2. \A i \in DOMAIN closed' : closed'[i].target = view.target
    BY <2>1 DEF Record
  <2> QED BY <1>1, <1>3, <2>2 DEF ClosesOnlyTheView
<1> QED BY <1>2, <1>3

LEMMA SafeHoldClosesOnlyTheView ==
  ASSUME GoalInvariant, SafeHold, stage \in {"ROUTE", "POLL"}
  PROVE  ClosesOnlyTheView
<1>1. CASE held \/ navFailed
  BY <1>1 DEF SafeHold, goalVars, ClosesOnlyTheView
<1>2. CASE ~held /\ ~navFailed
  <2>1. PICK accepted \in BOOLEAN : SetGoal("SAFE_HOLD", NoTarget, "NONE", accepted)
    BY <1>2 DEF SafeHold, SetPlainGoal
  <2>2. MayReplace("SAFE_HOLD", NoTarget, "NONE")
    BY <1>2 DEF MayReplace, Purposes
  <2> QED BY <2>1, <2>2, PlainGoalClosesOnlyTheView
<1> QED BY <1>1, <1>2

(***************************************************************************)
(* Every stage of the tick keeps goal, view and ledger together.           *)
(***************************************************************************)
LEMMA PerceiveFits == ASSUME GoalInvariant, Perceive PROVE GoalPart'
<1>1. UNCHANGED goalVars /\ held' = held /\ (navFailed => navFailed')
  <2>1. navFailed' = navFailed \/ navFailed' = TRUE
    BY DEF Perceive
  <2>2. navFailed => navFailed'
    BY <2>1, Zenon
  <2> QED BY <2>2 DEF Perceive
<1>2. stage = "PERCEIVE" /\ stage' \in {"FINISH", "CONTROL"} /\ (held => stage' = "CONTROL")
  BY DEF Perceive
<1>3. DecidesReconciled'
  BY <1>1, <1>2 DEF DecidesReconciled
<1> QED BY <1>1, <1>2, <1>3, GoalKeptKeeps

LEMMA FinishGoalFits == ASSUME GoalInvariant, FinishGoal PROVE GoalPart' /\ ClosesOnlyTheView
<1>1. stage = "FINISH" /\ stage' = "RECONCILE" /\ held' = held /\ navFailed' = navFailed
  BY DEF FinishGoal
<1>2. ~held
  BY <1>1 DEF GoalInvariant, GoalPart, DecidesReconciled
<1>3. CASE UNCHANGED goalVars
  <2>1. DecidesReconciled'
    BY <1>1, <1>2 DEF DecidesReconciled
  <2> QED BY <1>1, <1>3, <2>1, GoalKeptKeeps, GoalKeptClosesNothing
<1>4. CASE ~UNCHANGED goalVars
  <2>1. GoalFinished
    BY <1>4 DEF FinishGoal
  <2>2. PICK purpose \in {"HOLD", "TRANSIT"} : SetPlainGoal(purpose, "NONE")
    BY <1>4 DEF FinishGoal
  <2>3. PICK accepted \in BOOLEAN : SetGoal(purpose, NoTarget, "NONE", accepted)
    BY <2>2 DEF SetPlainGoal
  <2>4. MayReplace(purpose, NoTarget, "NONE")
    BY <1>1, <1>2, <2>1 DEF MayReplace, Purposes
  <2> QED BY <1>1, <2>3, <2>4, SetGoalKeeps, PlainGoalClosesOnlyTheView
<1> QED BY <1>3, <1>4

LEMMA ReconcileFits == ASSUME GoalInvariant, Reconcile PROVE GoalPart'
<1> USE DEF GoalInvariant, GoalPart
<1>1. /\ stage = "RECONCILE" /\ stage' \in {"RECONCILE", "ROUTE"} /\ ~held
      /\ active' = active /\ status' = status /\ arrivedFor' = arrivedFor /\ view' = view
      /\ held' = held /\ navFailed' = navFailed
  <2>1. stage = "RECONCILE" /\ (stage' = "ROUTE" \/ stage' = stage)
    BY DEF Reconcile
  <2>2. UNCHANGED <<active, status, arrivedFor, view, modeVars>>
    BY DEF Reconcile
  <2> QED BY <2>1, <2>2 DEF modeVars, DecidesReconciled
<1>2. closed \in Seq(Records)
  BY DEF GoalTypeOK, Records
<1>3. /\ closed' \in Seq(Records) /\ Len(closed') <= Len(closed)
      /\ \A i \in DOMAIN closed' : \E j \in DOMAIN closed : closed'[i] = closed[j]
      /\ closed' # <<>> => closed # <<>>
      /\ stage' = "ROUTE" => closed' = <<>>
  <2>1. CASE closed = <<>>
    BY <1>2, <2>1 DEF Reconcile, Reconciled
  <2>2. CASE closed # <<>>
    <3>1. closed' = Tail(closed) /\ stage' = stage
      BY <2>2 DEF Reconcile, Reconciled
    <3>2. /\ Tail(closed) \in Seq(Records) /\ Len(Tail(closed)) = Len(closed) - 1
          /\ \A i \in 1 .. Len(Tail(closed)) : Tail(closed)[i] = closed[i + 1]
      BY <1>2, <2>2, HeadTailProperties
    <3>3. \A i \in DOMAIN closed' : i + 1 \in DOMAIN closed /\ closed'[i] = closed[i + 1]
      BY <1>2, <3>1, <3>2
    <3> QED BY <1>1, <1>2, <2>2, <3>1, <3>2, <3>3
  <2> QED BY <2>1, <2>2
<1>4. (GoalTypeOK /\ OneRecord)'
  BY <1>1, <1>2, <1>3 DEF GoalTypeOK, OneRecord, Records
<1>5. OutcomesAreEarned'
  BY <1>1, <1>3 DEF OutcomesAreEarned
<1>6. (TargetInspected /\ ViewMatchesGoal /\ DecidesReconciled /\ ArrivedIsReached /\ SafeHoldKept)'
  BY <1>1, <1>3 DEF TargetInspected, ViewMatchesGoal, DecidesReconciled, ArrivedIsReached, SafeHoldKept
<1> QED BY <1>4, <1>5, <1>6

LEMMA PollOperatorFits == ASSUME GoalInvariant, PollOperator PROVE GoalPart' /\ ClosesOnlyTheView
<1>1. stage = "POLL" /\ stage' = "CONTROL" /\ navFailed' = navFailed
  BY DEF PollOperator
<1>2. CASE SafeHold
  BY <1>1, <1>2, SafeHoldKeeps, SafeHoldClosesOnlyTheView
<1>3. CASE UNCHANGED <<goalVars, held>>
  <2>1. DecidesReconciled'
    BY <1>1 DEF DecidesReconciled
  <2> QED BY <1>1, <1>3, <2>1, GoalKeptKeeps, GoalKeptClosesNothing
<1> QED BY <1>2, <1>3 DEF PollOperator

\* What a routed decision does to the goal.
LEMMA RouteGoals ==
  ASSUME GoalInvariant, Route
  PROVE  \/ UNCHANGED <<goalVars, held>>
         \/ SafeHold
         \/ held' = held /\ \E purpose \in Purposes, target \in Targets \cup {NoTarget},
                             preempt \in {"NONE", "ABANDONED_ROUTE_BLOCKED"}, accepted \in BOOLEAN :
              /\ target # NoTarget => RouteInformation
              /\ MayReplace(purpose, target, preempt)
              /\ SetGoal(purpose, target, preempt, accepted)
<1> USE DEF GoalInvariant, GoalPart
<1>1. stage = "ROUTE" /\ ~held /\ closed = <<>>
  BY DEF Route, DecidesReconciled
<1>2. ~Busy => view = NoView
  BY <1>1 DEF Busy, ViewMatchesGoal
<1>3. CASE RouteElsewhere
  BY <1>3 DEF RouteElsewhere
<1>4. CASE RouteSafetySupervisor
  BY <1>4 DEF RouteSafetySupervisor
<1>5. CASE RouteRevisit
  <2>1. held' = held
    BY <1>5 DEF RouteRevisit
  <2>2. CASE UNCHANGED goalVars
    BY <2>1, <2>2
  <2>3. CASE ~UNCHANGED goalVars
    <3>1. Welcome(FALSE) /\ SetPlainGoal("REVISIT", "NONE")
      BY <1>5, <2>3 DEF RouteRevisit
    <3>2. MayReplace("REVISIT", NoTarget, "NONE")
      BY <1>1, <1>2, <3>1 DEF MayReplace, Purposes, Welcome
    <3> QED BY <2>1, <3>1, <3>2 DEF SetPlainGoal, Purposes
  <2> QED BY <2>2, <2>3
<1>6. CASE RouteReplan
  <2>1. held' = held
    BY <1>6 DEF RouteReplan
  <2>2. CASE UNCHANGED goalVars
    BY <2>1, <2>2
  <2>3. CASE active.purpose = "TRANSIT" /\ SetPlainGoal("TRANSIT", "NONE")
    <3>1. MayReplace("TRANSIT", NoTarget, "NONE")
      BY <1>1, <1>2, <2>3 DEF MayReplace, Purposes, Busy
    <3> QED BY <2>1, <2>3, <3>1 DEF SetPlainGoal, Purposes
  <2>4. CASE SetPlainGoal("HOLD", "ABANDONED_ROUTE_BLOCKED")
    <3>1. MayReplace("HOLD", NoTarget, "ABANDONED_ROUTE_BLOCKED")
      BY <1>1 DEF MayReplace, Purposes
    <3> QED BY <2>1, <2>4, <3>1 DEF SetPlainGoal, Purposes
  <2> QED BY <1>6, <2>2, <2>3, <2>4 DEF RouteReplan
<1>7. CASE RouteInformation
  <2>1. held' = held
    BY <1>7 DEF RouteInformation
  <2>2. CASE UNCHANGED goalVars
    BY <2>1, <2>2
  <2>3. CASE ~UNCHANGED goalVars
    <3>1. PICK need \in Needs, pose \in Poses : ~Busy /\ LaunchView(need, pose)
      BY <1>7, <2>3 DEF RouteInformation, RequestDeclined, Inspect, RequestExhausted, PlanEmpty,
                        PlanInline, PlanDeferred
    <3>2. PICK accepted \in BOOLEAN :
            SetGoal("INSPECT", [need |-> need, pose |-> pose], "NONE", accepted)
      BY <3>1 DEF LaunchView
    <3>3. [need |-> need, pose |-> pose] \in Targets /\ [need |-> need, pose |-> pose] # NoTarget
      BY NoTargetIsNone DEF Targets
    <3>4. MayReplace("INSPECT", [need |-> need, pose |-> pose], "NONE")
      BY <1>1, <1>2, <3>1, <3>3 DEF MayReplace, Purposes
    <3> QED BY <1>7, <2>1, <3>2, <3>3, <3>4 DEF Purposes
  <2> QED BY <2>2, <2>3
<1> QED BY <1>3, <1>4, <1>5, <1>6, <1>7 DEF Route

LEMMA RouteFits == ASSUME GoalInvariant, Route PROVE GoalPart'
<1>1. stage = "ROUTE" /\ stage' = "POLL" /\ navFailed' = navFailed
  BY DEF Route
<1>2. CASE UNCHANGED <<goalVars, held>>
  <2>1. DecidesReconciled'
    BY <1>1 DEF DecidesReconciled
  <2> QED BY <1>1, <1>2, <2>1, GoalKeptKeeps
<1>3. CASE SafeHold
  BY <1>1, <1>3, SafeHoldKeeps
<1>4. ASSUME NEW purpose, NEW target, NEW preempt, NEW accepted \in BOOLEAN, held' = held,
             MayReplace(purpose, target, preempt), SetGoal(purpose, target, preempt, accepted)
      PROVE  GoalPart'
  BY <1>1, <1>4, SetGoalKeeps
<1> QED BY <1>2, <1>3, <1>4, RouteGoals

LEMMA ViewAfterFacts ==
  ASSUME GoalTypeOK, NEW near \in BOOLEAN, NEW aimed \in BOOLEAN
  PROVE  /\ view = NoView => ViewAfter(near, aimed) = NoView
         /\ view # NoView =>
              /\ ViewAfter(near, aimed) \in [target : Targets, reached : BOOLEAN, dwelt : 0 .. Dwell]
              /\ ViewAfter(near, aimed).target = view.target
              /\ near \/ view.reached => ViewAfter(near, aimed).reached
<1>1. CASE view = NoView
  BY <1>1 DEF ViewAfter
<1>2. CASE view # NoView
  <2> DEFINE Views == [target : Targets, reached : BOOLEAN, dwelt : 0 .. Dwell]
  <2>1. view \in Views
    BY <1>2 DEF GoalTypeOK
  <2>2. CASE ~near
    BY <1>2, <2>1, <2>2 DEF ViewAfter
  <2>3. CASE near
    <3> DEFINE d == IF aimed THEN Min({view.dwelt + 1, Dwell}) ELSE view.dwelt
    <3>1. ViewAfter(near, aimed) = [view EXCEPT !.reached = TRUE, !.dwelt = d]
      BY <1>2, <2>3 DEF ViewAfter
    <3>2. d \in 0 .. Dwell
      BY <2>1, MinOfTwo, GoalAssumption
    <3> HIDE DEF d
    <3>3. [view EXCEPT !.reached = TRUE] \in Views /\ [view EXCEPT !.reached = TRUE].reached
          /\ [view EXCEPT !.reached = TRUE].target = view.target
      BY <2>1
    <3>4. \A v \in Views : /\ [v EXCEPT !.dwelt = d] \in Views
                           /\ [v EXCEPT !.dwelt = d].target = v.target
                           /\ v.reached => [v EXCEPT !.dwelt = d].reached
      BY <3>2
    <3>5. ViewAfter(near, aimed) = [[view EXCEPT !.reached = TRUE] EXCEPT !.dwelt = d]
      BY <2>1, <3>1
    <3> QED BY <1>2, <3>3, <3>4, <3>5
  <2> QED BY <2>2, <2>3
<1> QED BY <1>1, <1>2

LEMMA StatusAfterFacts ==
  ASSUME GoalTypeOK, NEW near \in BOOLEAN, NEW over \in BOOLEAN
  PROVE  /\ StatusAfter(near, over) \in Statuses
         /\ StatusAfter(near, over) = "REJECTED" <=> status = "REJECTED"
         /\ StatusAfter(near, over) \in {"ARRIVED", "COMPLETE"} => near \/ status \in {"ARRIVED", "COMPLETE"}
<1>1. CASE status = "EXECUTING" /\ near /\ over
  BY <1>1 DEF StatusAfter, Statuses
<1>2. CASE status = "ARRIVED"
  BY <1>2 DEF StatusAfter, Statuses
<1>3. CASE status # "ARRIVED" /\ ~(status = "EXECUTING" /\ near /\ over)
  <2>1. StatusAfter(near, over) = status
    BY <1>3 DEF StatusAfter
  <2> QED BY <1>3, <2>1 DEF GoalTypeOK, Statuses
<1> QED BY <1>1, <1>2, <1>3

LEMMA ControlTickFits == ASSUME GoalInvariant, ControlTick PROVE GoalPart' /\ ClosesOnlyTheView
<1> USE DEF GoalInvariant, GoalPart
<1>1. stage = "CONTROL" /\ stage' = "SUPERVISE" /\ held' = held
  BY DEF ControlTick
<1>2. DecidesReconciled'
  BY <1>1 DEF DecidesReconciled
<1>3. CASE navFailed
  <2>1. UNCHANGED goalVars /\ navFailed' = navFailed
    BY <1>3 DEF ControlTick
  <2> QED BY <1>1, <1>2, <2>1, GoalKeptKeeps, GoalKeptClosesNothing
<1>4. CASE ~navFailed
  <2>1. PICK near \in BOOLEAN, over \in BOOLEAN, aimed \in BOOLEAN, moving \in BOOLEAN,
             reached \in Completions :
          /\ navFailed' = (reached # "ALL")
          /\ status' = IF moving /\ reached # "ESTIMATE" THEN StatusAfter(near, over) ELSE status
          /\ view' = IF reached \in {"SUBMIT", "ALL"} THEN ViewAfter(near, aimed) ELSE view
          /\ arrivedFor' = Held(arrivedFor)
          /\ UNCHANGED <<active, closed>>
    BY <1>4 DEF ControlTick
  <2>2. active' = active /\ closed' = closed
    BY <2>1
  <2>3. /\ status' \in Statuses /\ (status' = "REJECTED" <=> status = "REJECTED")
        /\ status' \in {"ARRIVED", "COMPLETE"} =>
             (near /\ reached # "ESTIMATE") \/ status \in {"ARRIVED", "COMPLETE"}
    BY <2>1, StatusAfterFacts DEF GoalTypeOK
  <2>4. /\ view = NoView => view' = NoView
        /\ view # NoView => /\ view' \in [target : Targets, reached : BOOLEAN, dwelt : 0 .. Dwell]
                            /\ view'.target = view.target
                            /\ view.reached => view'.reached
                            /\ near /\ reached \in {"SUBMIT", "ALL"} => view'.reached
    BY <2>1, ViewAfterFacts DEF GoalTypeOK
  <2>5. arrivedFor' \in 0 .. Dwell
    BY <2>1, MinOfTwo, GoalAssumption DEF Held, GoalTypeOK
  <2>6. GoalTypeOK'
    BY <2>2, <2>3, <2>4, <2>5 DEF GoalTypeOK
  <2>7. ArrivedIsReached'
    <3>1. SUFFICES ASSUME active.purpose = "INSPECT", status' \in {"ARRIVED", "COMPLETE"}
                   PROVE  view'.reached \/ navFailed'
      BY <1>1, <2>2 DEF ArrivedIsReached
    <3>2. view # NoView
      BY <1>1, <2>3, <3>1, NoTargetIsNone DEF ViewMatchesGoal, TargetInspected, NoView, NewView
    <3>3. CASE status \in {"ARRIVED", "COMPLETE"}
      BY <1>1, <1>4, <2>4, <3>1, <3>2, <3>3 DEF ArrivedIsReached
    <3>4. CASE near /\ reached # "ESTIMATE"
      BY <2>1, <2>4, <3>2, <3>4 DEF Completions
    <3> QED BY <2>3, <3>1, <3>3, <3>4
  <2>8. (TargetInspected /\ OneRecord /\ OutcomesAreEarned)'
    BY <1>1, <2>2, <2>4 DEF TargetInspected, OneRecord, OutcomesAreEarned
  <2>9. (ViewMatchesGoal /\ SafeHoldKept)'
    <3>1. active.purpose = "INSPECT" /\ status # "REJECTED" => view # NoView
      BY <1>1 DEF ViewMatchesGoal, TargetInspected, NoView, NewView
    <3> QED BY <1>1, <1>4, <2>2, <2>3, <2>4, <3>1 DEF ViewMatchesGoal, SafeHoldKept
  <2>10. ClosesOnlyTheView
    BY <2>2, <2>4 DEF ClosesOnlyTheView
  <2> QED BY <1>2, <2>6, <2>7, <2>8, <2>9, <2>10
<1> QED BY <1>3, <1>4

LEMMA SuperviseFits == ASSUME GoalInvariant, Supervise PROVE GoalPart' /\ ClosesOnlyTheView
<1> USE DEF GoalInvariant, GoalPart
<1>1. /\ stage = "SUPERVISE" /\ stage' = "PERCEIVE" /\ held' = (held \/ navFailed) /\ navFailed' = navFailed
      /\ status' = status /\ arrivedFor' = arrivedFor /\ view' = view /\ closed' = closed
  BY DEF Supervise
<1>2. /\ active' \in [purpose : Purposes, target : Targets \cup {NoTarget}, age : 0 .. InspectionTimeout + 1]
      /\ active'.purpose = active.purpose /\ active'.target = active.target
  <2> DEFINE a == Min({active.age + 1, InspectionTimeout + 1})
  <2>1. a \in 0 .. InspectionTimeout + 1
    BY MinOfTwo, GoalAssumption DEF GoalTypeOK
  <2>2. active' = IF active.purpose = "INSPECT" THEN [active EXCEPT !.age = a] ELSE active
    BY DEF Supervise
  <2> HIDE DEF a
  <2> QED BY <2>1, <2>2 DEF GoalTypeOK
<1>3. (GoalTypeOK /\ TargetInspected /\ OneRecord /\ DecidesReconciled /\ OutcomesAreEarned)'
  BY <1>1, <1>2 DEF GoalTypeOK, TargetInspected, OneRecord, DecidesReconciled, OutcomesAreEarned
<1>4. (ViewMatchesGoal /\ ArrivedIsReached /\ SafeHoldKept)'
  BY <1>1, <1>2 DEF ViewMatchesGoal, ArrivedIsReached, SafeHoldKept
<1>5. ClosesOnlyTheView
  BY <1>1 DEF ClosesOnlyTheView
<1> QED BY <1>3, <1>4, <1>5

LEMMA FinishFits == ASSUME GoalInvariant, Finish PROVE GoalPart' /\ ClosesOnlyTheView
<1> USE DEF GoalInvariant, GoalPart
<1>1. stage = "PERCEIVE" /\ stage' = "ENDED" /\ held' /\ navFailed' = navFailed
  BY DEF Finish, modeVars
<1>2. /\ view' = NoView /\ closed' = closed \o Closing(EndOutcome)
      /\ \/ UNCHANGED <<active, status, arrivedFor>> /\ (held \/ navFailed)
         \/ /\ status' = "EXECUTING" /\ arrivedFor' = 0
            /\ active' = [purpose |-> "SAFE_HOLD", target |-> NoTarget, age |-> 0]
         \/ status' = "REJECTED" /\ arrivedFor' = 0 /\ active' = active
  BY DEF Finish
<1>3. active' \in [purpose : Purposes, target : Targets \cup {NoTarget}, age : 0 .. InspectionTimeout + 1]
      /\ status' \in Statuses /\ arrivedFor' \in 0 .. Dwell
  BY <1>2, GoalAssumption DEF GoalTypeOK, Purposes, Statuses
<1>4. EndOutcome \in {"FLOWN", "ABANDONED_MISSION_END"} /\ EndOutcome \in Outcomes
  BY DEF EndOutcome, Outcomes
<1>5. CASE view = NoView
  <2>1. closed' = closed
    BY <1>2, <1>4, <1>5, ClosingAppends
  <2> QED BY <1>1, <1>2, <1>3, <2>1
         DEF GoalTypeOK, TargetInspected, ViewMatchesGoal, OneRecord, DecidesReconciled, ArrivedIsReached,
             OutcomesAreEarned, SafeHoldKept, ClosesOnlyTheView
<1>6. CASE view # NoView
  <2>1. PICK r \in Records : closed' = <<r>> /\ r.outcome \in {"FLOWN", "ABANDONED_MISSION_END"}
                            /\ r.target = view.target
    <3>1. /\ closed \o Closing(EndOutcome) = <<Record(view, EndOutcome)>>
          /\ Record(view, EndOutcome) \in Records
      BY <1>4, <1>6, ClosingAppends
    <3> QED BY <1>2, <1>4, <3>1 DEF Record
  <2>2. closed' \in Seq(Records) /\ Len(closed') = 1 /\ \A i \in DOMAIN closed' : closed'[i] = r
    BY <2>1
  <2>3. (GoalTypeOK /\ OneRecord /\ OutcomesAreEarned)'
    BY <1>1, <1>2, <1>3, <2>1, <2>2 DEF GoalTypeOK, OneRecord, OutcomesAreEarned, Records
  <2>4. ClosesOnlyTheView
    BY <1>2, <1>6, <2>1, <2>2 DEF ClosesOnlyTheView
  <2> QED BY <1>1, <1>2, <2>3, <2>4
         DEF TargetInspected, ViewMatchesGoal, DecidesReconciled, ArrivedIsReached, SafeHoldKept
<1> QED BY <1>5, <1>6

-----------------------------------------------------------------------------
(***************************************************************************)
(* Plans, views and what is reported as unavailable: the steps that only   *)
(* close the running view, or nothing, owe no plan to a belief reported as *)
(* unavailable.                                                            *)
(***************************************************************************)
PlannerPart == TypeOK /\ AttemptsBounded /\ UnavailableStays

LEMMA AttemptTypes ==
  TypeOK <=> /\ GoalTypeOK
             /\ planAttempts \in [Needs -> 0 .. MaxPlansPerNeed] /\ viewAttempts \in [Needs -> Nat]
             /\ priorViews \in [Poses -> Nat]
             /\ unavailable \subseteq Beliefs
             /\ request \in {NoRequest, Carried, Dropped}
             /\ transitDone \in BOOLEAN /\ navFailed \in BOOLEAN /\ held \in BOOLEAN
             /\ stage \in Stages
             /\ protocol \in Protocols
BY DEF TypeOK, attemptVars, modeVars

ModesTyped ==
  /\ request' \in {NoRequest, Carried, Dropped}
  /\ transitDone' \in BOOLEAN /\ navFailed' \in BOOLEAN /\ held' \in BOOLEAN
  /\ stage' \in Stages
  /\ protocol' = protocol

LEMMA PlannerKept ==
  ASSUME GoalInvariant, GoalPart', ModesTyped, ClosesOnlyTheView, UNCHANGED plannerVars
  PROVE  PlannerPart'
<1>1. /\ planAttempts' = planAttempts /\ viewAttempts' = viewAttempts /\ priorViews' = priorViews
      /\ unavailable' = unavailable /\ protocol' = protocol
  BY DEF plannerVars, attemptVars, ModesTyped
<1>2. TypeOK'
  BY <1>1, AttemptTypes DEF GoalInvariant, GoalPart, ModesTyped, TypeOK, attemptVars, modeVars
<1>3. AttemptsBounded'
  BY <1>1 DEF GoalInvariant, AttemptsBounded, ViewExecution
<1>4. ASSUME NEW b \in unavailable PROVE \E k \in Needs : b \in k /\ ExhaustedForGood(k)'
  <2>1. PICK k \in Needs : b \in k /\ ExhaustedForGood(k)
    BY <1>4 DEF GoalInvariant, UnavailableStays
  <2>2. ~(view # NoView /\ view.target.need = k)
    BY <1>4, <2>1 DEF GoalInvariant, UnavailableStays
  <2>3. (\E i \in DOMAIN closed' : closed'[i].target.need = k) => \E i \in DOMAIN closed : closed[i].target.need = k
    BY <2>2 DEF ClosesOnlyTheView
  <2>4. Owed(k)' \in {0, 1} /\ Owed(k) \in {0, 1} /\ Owed(k)' <= Owed(k)
    BY <2>3 DEF Owed
  <2>5. planAttempts[k] \in Nat /\ Min({MaxPlansPerNeed, InformationLimit}) \in Int
    BY AttemptTypes, MinOfTwo, GoalAssumption DEF GoalInvariant
  <2> HIDE DEF Owed
  <2>6. ExhaustedForGood(k)'
    BY <1>1, <2>1, <2>4, <2>5 DEF ExhaustedForGood, ViewExecution
  <2> QED BY <2>1, <2>6
<1>5. view' # NoView => unavailable' \cap view'.target.need = {}
  BY <1>1 DEF ClosesOnlyTheView, GoalInvariant, UnavailableStays
<1>6. UnavailableStays'
  BY <1>1, <1>4, <1>5 DEF UnavailableStays
<1> QED BY <1>2, <1>3, <1>6 DEF PlannerPart

(***************************************************************************)
(* The reconciliation gives back the plan that was owed, and no other.     *)
(***************************************************************************)
LEMMA LessOneFacts ==
  ASSUME NEW n \in 0 .. MaxPlansPerNeed
  PROVE  LessOne(n) \in 0 .. MaxPlansPerNeed /\ n - 1 <= LessOne(n) /\ LessOne(n) <= n
BY GoalAssumption DEF LessOne

LEMMA RecordAlone ==
  ASSUME GoalInvariant, closed # <<>>
  PROVE  closed \in Seq(Records) /\ Len(closed) = 1 /\ view = NoView
<1>1. closed \in Seq(Records)
  BY DEF GoalInvariant, GoalPart, GoalTypeOK, Records
<1>2. Len(closed) \in Nat /\ Len(closed) # 0
  BY <1>1, EmptySeq
<1>3. Len(closed) <= 1 /\ view = NoView
  BY DEF GoalInvariant, GoalPart, OneRecord
<1>4. \A n \in Nat : n # 0 /\ n <= 1 => n = 1
  OBVIOUS
<1> QED BY <1>1, <1>2, <1>3, <1>4, Zenon

LEMMA ReconcilePlans ==
  ASSUME GoalInvariant, GoalPart', ModesTyped, Reconcile
  PROVE  PlannerPart'
<1> USE DEF GoalInvariant, GoalPart
<1>1. view' = view /\ viewAttempts' = viewAttempts /\ unavailable' = unavailable /\ protocol' = protocol
  BY DEF Reconcile, ModesTyped
<1>2. /\ planAttempts \in [Needs -> 0 .. MaxPlansPerNeed] /\ viewAttempts \in [Needs -> Nat]
      /\ priorViews \in [Poses -> Nat] /\ unavailable \subseteq Beliefs /\ protocol \in Protocols
  BY AttemptTypes
<1>3. CASE closed = <<>>
  <2>1. closed' = closed /\ planAttempts' = planAttempts /\ priorViews' = priorViews
    BY <1>3 DEF Reconcile, Reconciled
  <2>2. ClosesOnlyTheView /\ UNCHANGED plannerVars
    BY <1>1, <2>1 DEF ClosesOnlyTheView, plannerVars, attemptVars
  <2> QED BY <2>2, PlannerKept
<1>4. CASE closed # <<>>
  <2> DEFINE rec == Head(closed)
             need == rec.target.need
             refunded == ViewExecution /\ rec.outcome \in Refunded
  <2>1. closed \in Seq(Records) /\ Len(closed) = 1 /\ view = NoView
    BY <1>4, RecordAlone
  <2>2. rec = closed[1] /\ rec \in Records /\ closed' = Tail(closed) /\ DOMAIN closed = {1}
    BY <1>4, <2>1 DEF Reconcile, Reconciled
  <2>3. Len(closed') = 0 /\ DOMAIN closed' = {}
    BY <1>4, <2>1, <2>2, HeadTailProperties
  <2>4. need \in Needs /\ rec.target.pose \in Poses
    BY <2>2 DEF Records, Targets
  <2>5. /\ priorViews' = IF refunded THEN [priorViews EXCEPT ![rec.target.pose] = LessOne(@)] ELSE priorViews
        /\ planAttempts' = IF refunded /\ viewAttempts[need] < MaxViewAttempts
                             THEN [planAttempts EXCEPT ![need] = LessOne(@)] ELSE planAttempts
    BY <1>4 DEF Reconcile, Reconciled
  <2>6. priorViews' \in [Poses -> Nat]
    BY <1>2, <2>4, <2>5 DEF LessOne
  <2>7. \A k \in Needs : /\ planAttempts'[k] \in 0 .. MaxPlansPerNeed
                         /\ planAttempts'[k] <= planAttempts[k]
                         /\ planAttempts'[k] = planAttempts[k] \/ ViewExecution
                         /\ planAttempts'[k] >= planAttempts[k] - (IF k = need THEN 1 ELSE 0)
    BY <1>2, <2>4, <2>5, LessOneFacts
  <2>8. planAttempts' \in [Needs -> 0 .. MaxPlansPerNeed]
    BY <1>2, <2>4, <2>5, LessOneFacts
  <2>9. \A k \in Needs : Owed(k) = (IF k = need THEN 1 ELSE 0) /\ Owed(k)' = 0
    BY <2>2, <2>3 DEF Owed
  <2> HIDE DEF rec, need, refunded
  <2>10. TypeOK'
    BY <1>1, <1>2, <2>6, <2>8 DEF ModesTyped, TypeOK, attemptVars, modeVars
  <2>11. AttemptsBounded'
    BY <1>1, <1>2, <2>7, GoalAssumption DEF AttemptsBounded, ViewExecution
  <2>12. Min({MaxPlansPerNeed, InformationLimit}) \in Nat
    BY PlanLimit
  <2>13. \A k \in Needs : ExhaustedForGood(k) => ExhaustedForGood(k)'
    BY <1>1, <1>2, <2>7, <2>9, <2>12 DEF ExhaustedForGood, ViewExecution
  <2>14. UnavailableStays'
    BY <1>1, <2>1, <2>13 DEF UnavailableStays
  <2> QED BY <2>10, <2>11, <2>14 DEF PlannerPart
<1> QED BY <1>3, <1>4

(***************************************************************************)
(* An information request that is taken up.                                *)
(***************************************************************************)
LEMMA ChargedUnavailable ==
  ASSUME GoalInvariant, closed = <<>>, protocol' = protocol, NEW need \in Needs,
         planAttempts' \in [Needs -> 0 .. MaxPlansPerNeed], viewAttempts' \in [Needs -> Nat],
         \A k \in Needs : planAttempts'[k] >= planAttempts[k] + Owed(k)',
         \A k \in Needs : viewAttempts'[k] >= viewAttempts[k],
         \A b \in unavailable' \ unavailable : b \in need /\ ExhaustedForGood(need)',
         view' # NoView => unavailable' \cap view'.target.need = {}
  PROVE  UnavailableStays'
<1>1. \A k \in Needs : Owed(k) = 0 /\ Owed(k)' \in {0, 1}
  BY DEF Owed
<1>2. Min({MaxPlansPerNeed, InformationLimit}) \in Nat
  BY PlanLimit
<1>3. planAttempts \in [Needs -> 0 .. MaxPlansPerNeed] /\ viewAttempts \in [Needs -> Nat]
  BY AttemptTypes DEF GoalInvariant
<1>4. ASSUME NEW k \in Needs, ExhaustedForGood(k) PROVE ExhaustedForGood(k)'
  <2>1. planAttempts[k] \in Nat /\ viewAttempts[k] \in Nat /\ planAttempts'[k] \in Nat /\ viewAttempts'[k] \in Nat
    BY <1>3
  <2>2. planAttempts'[k] >= planAttempts[k] + Owed(k)' /\ viewAttempts'[k] >= viewAttempts[k]
    OBVIOUS
  <2>3. MaxViewAttempts \in Nat
    BY GoalAssumption
  <2>4. planAttempts'[k] - Owed(k)' >= planAttempts[k] - Owed(k)
    BY <1>1, <2>1, <2>2
  <2>5. planAttempts'[k] - Owed(k)' \in Int /\ planAttempts[k] - Owed(k) \in Int
    BY <1>1, <2>1
  <2> QED BY <1>2, <1>4, <2>1, <2>2, <2>3, <2>4, <2>5 DEF ExhaustedForGood, ViewExecution
<1>5. \A b \in unavailable : \E k \in Needs : b \in k /\ ExhaustedForGood(k)
  BY DEF GoalInvariant, UnavailableStays
<1> QED BY <1>4, <1>5 DEF UnavailableStays

LEMMA InspectPlans ==
  ASSUME GoalInvariant, GoalPart', ModesTyped, stage = "ROUTE",
         NEW need \in Needs, NEW calibration \in BOOLEAN, Inspect(need, calibration)
  PROVE  PlannerPart'
<1>1. closed = <<>> /\ view = NoView /\ protocol' = protocol
  <2>1. ~Busy
    BY DEF Inspect
  <2>2. view = NoView
    BY <2>1 DEF GoalInvariant, GoalPart, ViewMatchesGoal, Busy
  <2> QED BY <2>2 DEF GoalInvariant, GoalPart, DecidesReconciled, ModesTyped
<1>2. /\ planAttempts \in [Needs -> 0 .. MaxPlansPerNeed] /\ viewAttempts \in [Needs -> Nat]
      /\ priorViews \in [Poses -> Nat] /\ unavailable \subseteq Beliefs /\ protocol \in Protocols
      /\ need \subseteq Beliefs
  BY AttemptTypes, GoalAssumption DEF GoalInvariant
<1>3. \A k \in Needs : /\ planAttempts[k] <= MaxPlansPerNeed
                       /\ viewAttempts[k] <= (IF ViewExecution THEN MaxViewAttempts ELSE planAttempts[k])
  BY DEF GoalInvariant, AttemptsBounded
<1>4. ViewExecution' = ViewExecution
  BY <1>1 DEF ViewExecution
<1>5. \A k : closed' = <<>> => Owed(k)' = 0
  BY DEF Owed
<1>6. SUFFICES /\ planAttempts' \in [Needs -> 0 .. MaxPlansPerNeed] /\ viewAttempts' \in [Needs -> Nat]
               /\ priorViews' \in [Poses -> Nat] /\ unavailable' \subseteq Beliefs
               /\ \A k \in Needs : planAttempts'[k] >= planAttempts[k] + Owed(k)'
               /\ \A k \in Needs : viewAttempts'[k] >= viewAttempts[k]
               /\ \A k \in Needs : viewAttempts'[k] <=
                                     (IF ViewExecution THEN MaxViewAttempts ELSE planAttempts'[k])
               /\ \A b \in unavailable' \ unavailable : b \in need /\ ExhaustedForGood(need)'
               /\ view' # NoView => unavailable' \cap view'.target.need = {}
  <2>1. TypeOK'
    BY <1>1, <1>2, <1>6 DEF ModesTyped, TypeOK, attemptVars, modeVars, GoalPart
  <2>2. AttemptsBounded'
    BY <1>4, <1>6 DEF AttemptsBounded
  <2>3. UnavailableStays'
    BY <1>1, <1>6, ChargedUnavailable
  <2> QED BY <2>1, <2>2, <2>3 DEF PlannerPart
<1>7. CASE RequestExhausted(need)
  <2>1. /\ closed' = closed /\ view' = view /\ planAttempts' = planAttempts /\ viewAttempts' = viewAttempts
        /\ priorViews' = priorViews /\ unavailable' = unavailable \cup need /\ ~CanPlan(need)
    BY <1>7 DEF RequestExhausted, goalVars, attemptVars
  <2>2. planAttempts[need] >= MaxPlansPerNeed \/ (ViewExecution /\ viewAttempts[need] >= MaxViewAttempts)
    BY <1>2, <2>1, GoalAssumption DEF CanPlan
  <2>3. ExhaustedForGood(need)'
    BY <1>1, <1>2, <1>4, <1>5, <2>1, <2>2, PlanLimit, GoalAssumption DEF ExhaustedForGood
  <2> QED BY <1>1, <1>2, <1>3, <1>5, <2>1, <2>3
<1>8. ASSUME CanPlan(need)
      PROVE  /\ planAttempts[need] + 1 \in 0 .. MaxPlansPerNeed
             /\ ViewExecution => viewAttempts[need] + 1 <= MaxViewAttempts
  BY <1>2, <1>8, GoalAssumption DEF CanPlan
<1>9. CASE CanPlan(need) /\ PlanEmpty(need)
  <2>1. /\ closed' = closed /\ view' = view /\ viewAttempts' = viewAttempts /\ priorViews' = priorViews
        /\ planAttempts' = [planAttempts EXCEPT ![need] = planAttempts[need] + 1]
        /\ unavailable' = unavailable \cup
             (IF planAttempts[need] + 1 >= Min({MaxPlansPerNeed, InformationLimit}) THEN need ELSE {})
    BY <1>9 DEF PlanEmpty, goalVars, Charged
  <2>2. \A b \in unavailable' \ unavailable : b \in need /\ ExhaustedForGood(need)'
    BY <1>1, <1>2, <1>5, <2>1, PlanLimit DEF ExhaustedForGood
  <2>3. planAttempts' \in [Needs -> 0 .. MaxPlansPerNeed]
    BY <1>2, <1>8, <1>9, <2>1
  <2>4. \A k \in Needs : planAttempts'[k] >= planAttempts[k]
    BY <1>2, <2>1
  <2>5. \A k \in Needs : viewAttempts[k] <= (IF ViewExecution THEN MaxViewAttempts ELSE planAttempts'[k])
    BY <1>2, <1>3, <2>3, <2>4
  <2>6. unavailable' \subseteq Beliefs
    BY <1>2, <2>1
  <2>7. \A k \in Needs : planAttempts'[k] >= planAttempts[k] + Owed(k)' /\ viewAttempts'[k] >= viewAttempts[k]
    BY <1>1, <1>2, <1>5, <2>1, <2>3, <2>4
  <2> QED BY <1>1, <1>2, <2>1, <2>2, <2>3, <2>5, <2>6, <2>7
<1>10. ASSUME NEW pose \in Poses, CanPlan(need), AcceptView(need, pose),
              planAttempts' = [planAttempts EXCEPT ![need] = Charged(need)]
       PROVE  /\ planAttempts' \in [Needs -> 0 .. MaxPlansPerNeed] /\ viewAttempts' \in [Needs -> Nat]
              /\ priorViews' \in [Poses -> Nat] /\ unavailable' = unavailable \ need
              /\ \A k \in Needs : planAttempts'[k] >= planAttempts[k]
              /\ \A k \in Needs : viewAttempts'[k] >= viewAttempts[k]
              /\ \A k \in Needs : viewAttempts'[k] <=
                                    (IF ViewExecution THEN MaxViewAttempts ELSE planAttempts'[k])
  <2>1. /\ viewAttempts' = [viewAttempts EXCEPT ![need] = viewAttempts[need] + 1]
        /\ priorViews' = [priorViews EXCEPT ![pose] = priorViews[pose] + 1]
        /\ unavailable' = unavailable \ need
        /\ planAttempts' = [planAttempts EXCEPT ![need] = planAttempts[need] + 1]
    BY <1>10 DEF AcceptView, Charged
  <2>2. planAttempts' \in [Needs -> 0 .. MaxPlansPerNeed] /\ viewAttempts' \in [Needs -> Nat]
    BY <1>2, <1>8, <1>10, <2>1
  <2>3. priorViews' \in [Poses -> Nat]
    BY <1>2, <1>10, <2>1
  <2>4. \A k \in Needs : /\ planAttempts'[k] = planAttempts[k] + (IF k = need THEN 1 ELSE 0)
                         /\ viewAttempts'[k] = viewAttempts[k] + (IF k = need THEN 1 ELSE 0)
    BY <1>2, <2>1
  <2>5. \A k \in Needs : planAttempts'[k] >= planAttempts[k] /\ viewAttempts'[k] >= viewAttempts[k]
    BY <1>2, <2>4
  <2>6. \A k \in Needs : viewAttempts'[k] <= (IF ViewExecution THEN MaxViewAttempts ELSE planAttempts'[k])
    BY <1>2, <1>3, <1>8, <1>10, <2>4
  <2> QED BY <2>1, <2>2, <2>3, <2>5, <2>6
<1>11. CASE CanPlan(need) /\ \E pose \in Poses : PlanInline(need, pose)
  <2>1. PICK pose \in Poses : PlanInline(need, pose)
    BY <1>11
  <2>2. /\ AcceptView(need, pose) /\ planAttempts' = [planAttempts EXCEPT ![need] = Charged(need)]
        /\ closed' = closed /\ view' = view
    BY <2>1 DEF PlanInline, goalVars
  <2> QED BY <1>1, <1>2, <1>5, <1>10, <1>11, <2>2
<1>12. CASE CanPlan(need) /\ \E intact \in BOOLEAN : PlanDeferred(need, intact)
  <2>1. /\ closed' = closed /\ view' = view /\ viewAttempts' = viewAttempts /\ priorViews' = priorViews
        /\ unavailable' = unavailable
        /\ \/ planAttempts' = [planAttempts EXCEPT ![need] = planAttempts[need] + 1]
           \/ planAttempts' = [planAttempts EXCEPT ![need] = planAttempts[need]]
    BY <1>12 DEF PlanDeferred, goalVars, Charged
  <2>2. planAttempts' \in [Needs -> 0 .. MaxPlansPerNeed] /\ \A k \in Needs : planAttempts'[k] >= planAttempts[k]
    BY <1>2, <1>8, <1>12, <2>1
  <2> QED BY <1>1, <1>2, <1>3, <1>5, <2>1, <2>2
<1>13. CASE CanPlan(need) /\ \E pose \in Poses : LaunchView(need, pose)
  <2>1. PICK pose \in Poses : LaunchView(need, pose)
    BY <1>13
  <2> DEFINE target == [need |-> need, pose |-> pose]
  <2>2. PICK accepted \in BOOLEAN :
          /\ SetGoal("INSPECT", target, "NONE", accepted)
          /\ planAttempts' = [planAttempts EXCEPT ![need] = Charged(need)]
          /\ IF accepted THEN AcceptView(need, pose)
             ELSE UNCHANGED <<viewAttempts, priorViews, unavailable>>
    BY <2>1 DEF LaunchView
  <2>3. target \in Targets /\ target # NoTarget /\ target.need = need
    BY NoTargetIsNone DEF Targets
  <2>4. MayReplace("INSPECT", target, "NONE")
    BY <1>1, <2>3 DEF MayReplace, Purposes, GoalInvariant, GoalPart, DecidesReconciled
  <2> HIDE DEF target
  <2>5. CASE accepted
    <3>1. closed' = closed /\ view' = NewView(target)
      BY <1>1, <2>2, <2>3, <2>4, <2>5, SetGoalFacts
    <3>2. view'.target.need = need
      BY <2>3, <3>1 DEF NewView
    <3> QED BY <1>1, <1>2, <1>5, <1>10, <1>13, <2>2, <2>5, <3>1, <3>2
  <2>6. CASE ~accepted
    <3>1. /\ closed' = <<Record(NewView(target), "ABANDONED_NAV_REJECTED")>> /\ view' = NoView
          /\ viewAttempts' = viewAttempts /\ priorViews' = priorViews /\ unavailable' = unavailable
          /\ planAttempts' = [planAttempts EXCEPT ![need] = planAttempts[need] + 1]
      BY <1>1, <2>2, <2>3, <2>4, <2>6, SetGoalFacts DEF Charged
    <3>2. \A i \in DOMAIN closed' : closed'[i].target.need = need
      BY <2>3, <3>1 DEF Record, NewView
    <3>3. \A k \in Needs : Owed(k)' \in {0, 1} /\ (k # need => Owed(k)' = 0)
      BY <3>2 DEF Owed
    <3>4. \A k \in Needs : planAttempts'[k] = planAttempts[k] + (IF k = need THEN 1 ELSE 0)
      BY <1>2, <3>1
    <3>5. \A k \in Needs : planAttempts'[k] >= planAttempts[k] + Owed(k)' /\ planAttempts'[k] >= planAttempts[k]
      BY <1>2, <3>3, <3>4
    <3>6. planAttempts' \in [Needs -> 0 .. MaxPlansPerNeed]
      BY <1>2, <1>8, <1>13, <3>1
    <3>7. \A k \in Needs : viewAttempts[k] <= (IF ViewExecution THEN MaxViewAttempts ELSE planAttempts'[k])
      BY <1>2, <1>3, <3>5, <3>6
    <3> QED BY <1>2, <3>1, <3>5, <3>6, <3>7
  <2> QED BY <2>5, <2>6
<1> QED BY <1>7, <1>9, <1>11, <1>12, <1>13 DEF Inspect

LEMMA RoutePlans ==
  ASSUME GoalInvariant, GoalPart', ModesTyped, Route
  PROVE  PlannerPart'
<1>1. stage = "ROUTE"
  BY DEF Route
<1>2. ASSUME UNCHANGED plannerVars, ~RouteInformation PROVE PlannerPart'
  <2>1. CASE UNCHANGED <<goalVars, held>>
    BY <1>2, <2>1, GoalKeptClosesNothing, PlannerKept
  <2>2. CASE SafeHold
    BY <1>1, <1>2, <2>2, SafeHoldClosesOnlyTheView, PlannerKept
  <2>3. ASSUME NEW purpose, NEW preempt, NEW accepted \in BOOLEAN,
               MayReplace(purpose, NoTarget, preempt), SetGoal(purpose, NoTarget, preempt, accepted)
        PROVE  PlannerPart'
    BY <1>2, <2>3, PlainGoalClosesOnlyTheView, PlannerKept
  <2> QED BY <1>2, <2>1, <2>2, <2>3, RouteGoals
<1>3. CASE RouteInformation
  <2>1. PICK need \in Needs, calibration \in BOOLEAN : RequestDeclined(calibration) \/ Inspect(need, calibration)
    BY <1>3 DEF RouteInformation
  <2>2. CASE RequestDeclined(calibration)
    BY <2>2, GoalKeptClosesNothing, PlannerKept DEF RequestDeclined
  <2>3. CASE Inspect(need, calibration)
    BY <1>1, <2>3, InspectPlans
  <2> QED BY <2>1, <2>2, <2>3
<1>4. ~RouteInformation => UNCHANGED plannerVars
  BY DEF Route, RouteElsewhere, RouteSafetySupervisor, RouteRevisit, RouteReplan
<1> QED BY <1>2, <1>3, <1>4

(***************************************************************************)
(* The invariant holds at first and every step keeps it.                   *)
(***************************************************************************)
LEMMA GoalInvariantInit == Init => GoalInvariant
<1> SUFFICES ASSUME Init PROVE GoalInvariant
  OBVIOUS
<1>1. /\ active \in [purpose : Purposes, target : Targets \cup {NoTarget}, age : 0 .. InspectionTimeout + 1]
      /\ active.purpose \in {"TRANSIT", "NONE"} /\ active.target = NoTarget
      /\ status \in {"EXECUTING", "REJECTED"}
  BY GoalAssumption DEF Init, Purposes
<1>2. closed = <<>> /\ view = NoView /\ ~held /\ stage = "PERCEIVE" /\ arrivedFor = 0
  BY DEF Init
<1>3. <<>> \in Seq(Records) /\ Len(<<>>) = 0 /\ DOMAIN <<>> = {}
  BY EmptySeq
<1>4. GoalPart
  BY <1>1, <1>2, <1>3, GoalAssumption
     DEF GoalPart, GoalTypeOK, Statuses, Records, TargetInspected, ViewMatchesGoal, OneRecord, DecidesReconciled,
         ArrivedIsReached, OutcomesAreEarned, SafeHoldKept
<1>5. TypeOK
  <2>1. planAttempts \in [Needs -> 0 .. MaxPlansPerNeed] /\ viewAttempts \in [Needs -> Nat]
    BY GoalAssumption DEF Init
  <2>2. priorViews \in [Poses -> Nat] /\ unavailable \subseteq Beliefs
    BY DEF Init
  <2>3. /\ request \in {NoRequest, Carried, Dropped} /\ stage \in Stages /\ protocol \in Protocols
        /\ transitDone \in BOOLEAN /\ navFailed \in BOOLEAN /\ held \in BOOLEAN
    BY DEF Init, Stages
  <2> QED BY <1>4, <2>1, <2>2, <2>3, AttemptTypes DEF GoalPart
<1>6. AttemptsBounded /\ UnavailableStays
  BY <1>2, GoalAssumption DEF Init, AttemptsBounded, UnavailableStays
<1> QED BY <1>4, <1>5, <1>6 DEF GoalInvariant

LEMMA NextModesTyped == TypeOK /\ Next => ModesTyped
<1> SUFFICES ASSUME TypeOK, Next PROVE ModesTyped
  OBVIOUS
<1>1. /\ request \in {NoRequest, Carried, Dropped} /\ protocol' = protocol
      /\ transitDone \in BOOLEAN /\ navFailed \in BOOLEAN /\ held \in BOOLEAN
  BY AttemptTypes DEF Next
<1>2. NotExecuted = NoRequest
  BY DEF NotExecuted, NoRequest
<1>3. CASE Perceive
  BY <1>1, <1>3 DEF Perceive, ModesTyped, Stages
<1>4. CASE FinishGoal
  BY <1>1, <1>4 DEF FinishGoal, ModesTyped, Stages
<1>5. CASE Reconcile
  <2>1. stage' \in Stages
    BY <1>5 DEF Reconcile, Stages
  <2>2. UNCHANGED <<request, modeVars>>
    BY <1>5 DEF Reconcile
  <2> QED BY <1>1, <2>1, <2>2 DEF ModesTyped, modeVars
<1>6. CASE Route
  <2>1. stage' \in Stages /\ transitDone' = transitDone /\ navFailed' = navFailed
    BY <1>6 DEF Route, Stages
  <2>2. held' \in {held, TRUE}
    BY <1>6 DEF Route, RouteElsewhere, RouteSafetySupervisor, SafeHold, RouteRevisit, RouteReplan,
                RouteInformation
  <2>3. request' \in {request, Carried, NotExecuted, Dropped}
    BY <1>6 DEF Route, RouteElsewhere, RouteSafetySupervisor, RouteRevisit, RouteReplan, RouteInformation,
                RequestDeclined, Inspect, RequestExhausted, PlanEmpty, PlanInline, PlanDeferred, LaunchView
  <2> QED BY <1>1, <1>2, <2>1, <2>2, <2>3 DEF ModesTyped
<1>7. CASE PollOperator
  BY <1>1, <1>7 DEF PollOperator, SafeHold, ModesTyped, Stages
<1>8. CASE ControlTick
  <2>1. stage' \in Stages /\ request' = request /\ transitDone' = transitDone /\ held' = held
    BY <1>8 DEF ControlTick, Stages
  <2>2. navFailed' \in BOOLEAN
    BY <1>1, <1>8 DEF ControlTick
  <2> QED BY <1>1, <2>1, <2>2 DEF ModesTyped
<1>9. CASE Supervise
  BY <1>1, <1>9 DEF Supervise, ModesTyped, Stages
<1>10. CASE Finish
  BY <1>1, <1>10 DEF Finish, ModesTyped, Stages
<1> QED BY <1>3, <1>4, <1>5, <1>6, <1>7, <1>8, <1>9, <1>10 DEF Next

LEMMA GoalInvariantStep == GoalInvariant /\ [Next]_vars => GoalInvariant'
<1> SUFFICES ASSUME GoalInvariant, [Next]_vars PROVE GoalInvariant'
  OBVIOUS
<1>1. CASE Next
  <2>1. ModesTyped
    BY <1>1, NextModesTyped DEF GoalInvariant
  <2>2. CASE Perceive
    <3>1. GoalPart' /\ UNCHANGED <<goalVars, plannerVars>>
      BY <2>2, PerceiveFits DEF Perceive
    <3> QED BY <2>1, <3>1, GoalKeptClosesNothing, PlannerKept DEF PlannerPart, GoalInvariant
  <2>3. CASE FinishGoal
    <3>1. GoalPart' /\ ClosesOnlyTheView /\ UNCHANGED plannerVars
      BY <2>3, FinishGoalFits DEF FinishGoal
    <3> QED BY <2>1, <3>1, PlannerKept DEF PlannerPart, GoalInvariant
  <2>4. CASE Reconcile
    BY <2>1, <2>4, ReconcileFits, ReconcilePlans DEF PlannerPart, GoalInvariant
  <2>5. CASE Route
    BY <2>1, <2>5, RouteFits, RoutePlans DEF PlannerPart, GoalInvariant
  <2>6. CASE PollOperator
    <3>1. GoalPart' /\ ClosesOnlyTheView /\ UNCHANGED plannerVars
      BY <2>6, PollOperatorFits DEF PollOperator
    <3> QED BY <2>1, <3>1, PlannerKept DEF PlannerPart, GoalInvariant
  <2>7. CASE ControlTick
    <3>1. GoalPart' /\ ClosesOnlyTheView /\ UNCHANGED plannerVars
      BY <2>7, ControlTickFits DEF ControlTick
    <3> QED BY <2>1, <3>1, PlannerKept DEF PlannerPart, GoalInvariant
  <2>8. CASE Supervise
    <3>1. GoalPart' /\ ClosesOnlyTheView /\ UNCHANGED plannerVars
      BY <2>8, SuperviseFits DEF Supervise
    <3> QED BY <2>1, <3>1, PlannerKept DEF PlannerPart, GoalInvariant
  <2>9. CASE Finish
    <3>1. GoalPart' /\ ClosesOnlyTheView /\ UNCHANGED plannerVars
      BY <2>9, FinishFits DEF Finish
    <3> QED BY <2>1, <3>1, PlannerKept DEF PlannerPart, GoalInvariant
  <2> QED BY <1>1, <2>2, <2>3, <2>4, <2>5, <2>6, <2>7, <2>8, <2>9 DEF Next
<1>2. CASE UNCHANGED vars
  <2>1. UNCHANGED <<active, status, arrivedFor, view, closed, planAttempts, viewAttempts, priorViews,
                    unavailable, request, transitDone, navFailed, held, stage, protocol>>
    BY <1>2 DEF vars, goalVars, plannerVars, attemptVars, modeVars
  <2>2. TypeOK'
    BY <2>1 DEF GoalInvariant, TypeOK, GoalTypeOK, attemptVars, modeVars
  <2>3. GoalPart'
    BY <2>1, <2>2 DEF GoalInvariant, GoalPart, TypeOK, TargetInspected, ViewMatchesGoal, OneRecord,
                      DecidesReconciled, ArrivedIsReached, OutcomesAreEarned, SafeHoldKept
  <2>4. (AttemptsBounded /\ UnavailableStays)'
    BY <2>1 DEF GoalInvariant, AttemptsBounded, UnavailableStays, ViewExecution, ExhaustedForGood, Owed
  <2> QED BY <2>2, <2>3, <2>4 DEF GoalInvariant
<1> QED BY <1>1, <1>2

\* Every reachable state of the mission's goals satisfies the inductive invariant.
THEOREM GoalsInductive == Spec => []GoalInvariant
BY GoalInvariantInit, GoalInvariantStep, PTL DEF Spec

-----------------------------------------------------------------------------
(***************************************************************************)
(* Whatever replaces a goal, refuses it or fails in between: while the     *)
(* mission runs, the ledger has an open view exactly as long as the        *)
(* vehicle flies one, and it is the view of that goal.                     *)
(***************************************************************************)
THEOREM OpenViewIsFlown == Spec => []ViewMatchesGoal
BY GoalsInductive, PTL DEF GoalInvariant, GoalPart

(***************************************************************************)
(* No sequence of refunds, inline calibrations and refused goals lets a    *)
(* need exceed the configured plans and views.                             *)
(***************************************************************************)
THEOREM AttemptsAlwaysBounded == Spec => []AttemptsBounded
BY GoalsInductive, PTL DEF GoalInvariant

(***************************************************************************)
(* The outcome the ledger gives a view is one the view has earned.         *)
(***************************************************************************)
THEOREM LedgerIsEarned == Spec => []OutcomesAreEarned
BY GoalsInductive, PTL DEF GoalInvariant, GoalPart

(***************************************************************************)
(* A belief that is reported as not obtainable stays so: no refund that is *)
(* due gives one of its needs an attempt back.                             *)
(***************************************************************************)
THEOREM UnavailableIsExhausted == Spec => []UnavailableMeansExhausted
<1>1. GoalInvariant => UnavailableMeansExhausted
  <2> SUFFICES ASSUME GoalInvariant, NEW b \in unavailable PROVE \E k \in Needs : b \in k /\ Exhausted(k)
    BY DEF UnavailableMeansExhausted
  <2>1. PICK k \in Needs : b \in k /\ ExhaustedForGood(k)
    BY DEF GoalInvariant, UnavailableStays
  <2>2. Owed(k) \in {0, 1} /\ planAttempts[k] \in Nat
    BY AttemptTypes DEF Owed, GoalInvariant
  <2>3. Exhausted(k)
    BY <2>1, <2>2, PlanLimit DEF ExhaustedForGood, Exhausted
  <2> QED BY <2>1, <2>3
<1> QED BY <1>1, GoalsInductive, PTL

(***************************************************************************)
(* A vehicle in SAFE_HOLD keeps its hold goal or has no trajectory.        *)
(***************************************************************************)
THEOREM HoldGoalKept == Spec => []SafeHoldKept
BY GoalsInductive, PTL DEF GoalInvariant, GoalPart

(***************************************************************************)
(* Once held, a mission stays held, with the goal, the plans and the views *)
(* it then has.                                                            *)
(***************************************************************************)
THEOREM HeldForGood == Spec => HoldIsFinal
<1>1. GoalInvariant /\ [Next]_vars =>
        [held => held' /\ active'.purpose = active.purpose /\ attemptVars' = attemptVars]_vars
  <2> SUFFICES ASSUME GoalInvariant, Next, held
               PROVE  held' /\ active'.purpose = active.purpose /\ attemptVars' = attemptVars
    OBVIOUS
  <2>1. stage \notin {"FINISH", "RECONCILE", "ROUTE"}
    BY DEF GoalInvariant, GoalPart, DecidesReconciled
  <2>2. CASE Perceive
    BY <2>2 DEF Perceive, goalVars, plannerVars
  <2>3. CASE PollOperator
    BY <2>3 DEF PollOperator, SafeHold, goalVars, plannerVars
  <2>4. CASE ControlTick
    BY <2>4 DEF ControlTick, goalVars, plannerVars
  <2>5. CASE Supervise
    <3>1. active'.purpose = active.purpose
      BY <2>5 DEF Supervise, GoalInvariant, GoalPart, GoalTypeOK
    <3> QED BY <2>5, <3>1 DEF Supervise, plannerVars
  <2>6. CASE Finish
    BY <2>6 DEF Finish, plannerVars
  <2> QED BY <2>1, <2>2, <2>3, <2>4, <2>5, <2>6 DEF Next, FinishGoal, Reconcile, Route
<1> QED BY <1>1, GoalsInductive, PTL DEF Spec, HoldIsFinal
=============================================================================
