# Conrad v2: a verification project

Conrad v2 is the autonomy of an underwater inspection vehicle: it surveys a lane, builds
beliefs about structure and ecology, decides what to look at again, flies close-in views,
and reports to the shore over an acoustic link. This directory holds TLA+ models of the
parts of it that are protocols (who may move the vehicle, when it must stop, which goal is
running, what is decided and what counts as an attempt, when the mission is held, what a stored belief rests on,
what the shore may be shown, what the simulator executes), the configurations TLC checks
them under, and proofs that TLAPS checks.

All paths are relative to the repository; Python paths are under `src/conrad/`, C# paths
under `src/unity/ConradUnityV2/Assets/Conrad/`.

## 1. Inventory

| Component | State | Operations | Talks to |
|---|---|---|---|
| Safety supervisor `robotics/safety/supervisor.py`, `monitors.py` | latched overrides, time of localization loss, end of the DEGRADED dwell, last assessment | `assess`, `authorize`, `emergency_stop`, `reset_latch` | called by the navigation stack each control tick |
| Command gateway `runtime/command_gateway.py` | ids seen, counters | `validate`, `submit` | called by the executive; reads the estimate's age and the health, calls the adapter's `send` |
| Navigation stack and allocator `robotics/navigation/stack.py`, `robotics/allocation/` | objective, trajectory, goal status, arrival time, hold pose, thruster effectiveness | `set_goal`, `step` | estimator, supervisor, allocator, hardware |
| Robot hardware interface `robotics/hardware/`, `sim/kernel/hardware.py` | thrust, deadline of the last command, faults | `send`, `advance`, `get_health` | driven by the gateway and by the mission's clock |
| Mission executive `orchestration/executive.py` | active goal, transit flag, last safety state | `set_goal`, `hold_goal`, `transit_goal`, `replan_detour`, `goal_finished`, `close_views`, `control_tick` | stack, view ledger, gateway |
| View execution ledger `orchestration/view_execution.py` | the open record, the closed ones | `open`, `update`, `close` | written by the executive, read by routing and the planner |
| Decision routing `orchestration/routing.py` | plan and view attempts per need, prior views, unavailable targets | `cycle`, `reconcile_views`, `_route`, `_inspect`, `_replan` | EGDC, MCBR, executive, shore link, runtime supervisor |
| Runtime supervisor `runtime/supervisor.py` | lifecycle state, hardware readiness | `self_test`, `connect`, `start`, `tick`, `safe_hold`, `operator`, `stop` | reads the health registry, calls the safe-hold hook |
| Health registry `runtime/health.py` | per module: last report, last heartbeat | `heartbeat`, `failure`, `availability` | written by the module runner |
| Mission runtime, module runner `orchestration/mission.py`, `services.py` | failed modules, due times | `start`, `tick`, `finish`, `ModuleRunner.call` | calls everything above |
| Perception admission `orchestration/perception.py` | observation ids seen, newest time per sensor | `process`, `_admit` | repository, domain models |
| Domain models `domains/technical`, `spatial`, `ecological` | per belief: revision, time, provenance root, evidence consumed; otherwise numeric | `ingest`, `update_beliefs`, `apply_context` | repository (commit), belief bus (messages) |
| Belief bus `orchestration/belief_bus.py` | heads per belief, queues per subscriber | `publish`, `dispatch`, `snapshot` | domain models publish; routing, comms and the technical model read |
| Persistence `persistence/repository.py`, `db.py` | SQLite tables, object files | `put_*`, `commit_update` | everyone |
| BAAC `communication/baac.py`, `queue.py`, `units.py`, `delta.py`, `receiver.py`, `scheduler.py` | queue of units, latest message per belief, deferred revisions, model of the receiver | `offer`, `reevaluate`, `step`, `poll`, `handle_resync` | the channel, the shore's store |
| Shore link `orchestration/comms.py`, channel `communication/channel.py` | what is wanted on shore, what waits, increments in flight | `offer`, `flush`, `step` | mission, BAAC |
| Event log `runtime/event_log.py` | a hash chain of events | `emit` | everyone |
| EGDC `decision/`, deliberation `orchestration/deliberation.py`, MCBR `active/` | decision history, open needs; MCBR otherwise numeric | `decide`, `plan`, `mark_not_executed`, `need_satisfied` | routing |
| Unity adapter and transport `adapters/unity/hardware.py`, `transport.py` | connection, sequence number, session, step index, time, fault latch | `connect`, `reset`, `step`, `send`, `get_*`, `drain_stream`, `close` | gateway, Unity server |
| Unity bridge server `ExternalInterfaces/Transport`, `Protocol`, `RobotHardwareSimulation` | the control client, session, expected step, known commands, watchdog | `AcceptOne`, `ServeOne`, `Handle*`, `PumpStream`, `FixedUpdate` | adapter, simulated world |
| Twins, simulator, evaluation, training, data, CLI, console | numeric or offline | | |

The program has one mission loop, one thread. What makes it hard is not parallel threads but

* **the order inside a tick**: a stage acts on a state an earlier stage of the same tick has
  just replaced (a hold entered from the middle of a decision cycle, a status overwritten by
  the goal that replaces it);
* **two clocks**: the adapter's clock runs on while a command is on its way when the adapter
  is not in lock step, the gateway reads age and health again, and the watchdog is armed by
  the last command that was accepted, not by the last one that was sent;
* **failure in the middle**: any module call may raise; the module runner turns that into a
  failed module, but what it had done by then stays, and what runs outside of the runner
  ends the loop; a commit is five writes, and the domain model has moved on before the first;
* **refusals**: every layer may refuse a goal, a command or an update, and the layer above may
  keep believing in what it asked for;
* **accounting across cycles**: attempts are charged at once and refunded a cycle later, and a
  need is answered by what is committed many ticks after it was raised;
* **the network**: the acoustic link goes down and up, loses and reorders, and the sender acts
  on what it assumes of the shore; the Unity bridge answers late or not at all, and another
  run may take the simulator over.

What makes each component correct is listed with its module below; `PROJECT.json` lists the
hazards at the line where they bite.

## 2. Modules

| Module | Models | Used by |
|---|---|---|
| `SafetySupervisor` | the safety supervisor | `ControlLoop` |
| `GatewayRules` | the gateway's admission rules | `ControlLoop` |
| `ControlLoop` | stack, executive's submission, gateway, adapter and watchdog composed | `MCControlLoop`, `ControlLoopProofs` |
| `ControlLoopProofs` | the theorems about `ControlLoop` | |
| `MissionGoals` | routing, executive, goal status and view ledger composed, in the order of a tick | `MCMissionGoals`, `MissionGoalsProofs` |
| `MissionGoalsProofs` | the theorems about `MissionGoals` | |
| `DecisionUnit` | EGDC, its history and what the routing makes of its answer | `MCDecisionUnit`, `DecisionUnitProofs` |
| `DecisionUnitProofs` | the theorems about `DecisionUnit` | |
| `RuntimeSupervisor` | lifecycle and health registry | `MissionRuntime` |
| `MissionRuntime` | one mission from start-up to its end: module runner, registry, supervisor and a human composed | `MCMissionRuntime`, `MissionRuntimeProofs` |
| `MissionRuntimeProofs` | the theorems about `MissionRuntime` | |
| `BeliefDelta` | views of a belief and the deltas between them | `BaacSender`, `ShoreView` |
| `BaacSender` | the sender's handlers, as operators on its state | `ShoreLink` |
| `ShoreLink` | intake, sender, channel and the shore's store composed | `MCShoreLink`, `ShoreLinkProofs` |
| `ShoreLinkProofs` | the theorems about `ShoreLink`, `BaacSender` and `BeliefDelta` | |
| `ShoreView` | abstract: what the shore may be shown | refined by `ShoreLink` |
| `Repository` | the tables, the checks and the writes of a commit | `BeliefPlane` |
| `BeliefPlane` | admission, domain models, repository, bus and needs composed | `MCBeliefPlane`, `BeliefPlaneProofs` |
| `BeliefPlaneProofs` | the theorems about admission, children and repository | `BeliefBusProofs` |
| `BeliefBusProofs` | the theorems about the bus and the needs | |
| `BeliefLog` | abstract: what the repository promises of a belief | refined by `BeliefPlane` |
| `UnityBridge` | adapter, transport, server and watchdog composed, one adapter per run | `MCUnityBridge`, `UnityBridgeProofs` |
| `UnityBridgeProofs` | the theorems about `UnityBridge` | |
| `CommandGateway` | abstract: what a gateway promises of an id, whatever its adapter | refined by `UnityBridge` |

The `MC` modules only give values to constants. Operators under a comment that starts with
"Mutant" are faulty variants of the definition that follows them; no specification uses
them, they show that a property can be violated by a plausible bug.

### SafetySupervisor, GatewayRules, ControlLoop

*State.* Time stamps are relative: `lossFor` is now minus `_loss_since_ns`, `dwellLeft` is
`_degraded_until_ns` minus now, `deadlineIn` is the adapter's `_deadline_ns` minus now. A
command is the set of thrusters it drives, the safety state of its authorization and the
time left to its deadline. `pending` is a command between `NavigationStack.step` and the
gateway, `thrust` what the hardware does now. `stopFor` is a history variable: how long all
assessments have demanded a stop.

*Actions.* `Step` is `NavigationStack.step` from the assessment to `authorize`: what the
monitors see is a record of graded observations (`Inputs`), what the controller and the
allocator compute is any subset of the thrusters the allocator may use. `Submission` is
`CommandGateway.submit` and the adapter's `send`, which may refuse. `Advance` is one physics
step, watchdog first. `Operator` is an emergency stop or the reset of the latches. With
`LockStep` the adapter's clock stands still between `Step` and `Submission`, which is the
kernel (and Unity's stepped mode); without it time and health go on, which is what a real
adapter would do.

*Properties.* `OnlyAuthorizedMotion`: a thruster starts only on the word of the latest
assessment. `StopIsBounded`: a stop demanded for `command_timeout` has taken effect,
whatever gateway and adapter refused. `ThrustHasDeadline`: the watchdog is armed whenever
something is driven. `LatchForbidsMotion` and `LatchStopsVehicle`: nothing moves on a latch.
`DeadmanStopsVehicle`: if the autonomy dies, the watchdog stops the vehicle for good.

### MissionGoals

*State.* The executive's `active` goal, the stack's `status`, the ledger's open record
`view` and the records closed since the last reconciliation (`closed`), the accounting of
routing (`planAttempts`, `viewAttempts`, `priorViews`, `unavailable`), the lane survey flag,
whether navigation has failed, whether the mission is held, the stage of the tick, and the
`protocol` a mission was started with (`view_execution.enabled`, `protect_active_view`), one
of `Protocols`. `request` says, for the current cycle, whether an information request had an
effect and whether the decision unit will count it.

*Actions.* `Perceive` (observations, a position fix may crash navigation), `FinishGoal`,
`Reconcile` (one turn of the loop over new records), `Route` with one operator per target and
per early return of `_route`, `_inspect` and `_replan`, `PollOperator`, `ControlTick`,
`Supervise`, `Finish`. The decision unit, the planner and all geometry are choices: the
stack accepts or refuses any goal, the planner finds a view or none.

*Not modelled because it cannot happen*: the coalescing of a calibration with the active
view (`routing.py:370-387`) and the second half of the test at 455-458, because `_inspect`
is reached only when no goal is busy; `resume_transit`, because no view is flown before the
survey is over; for the same reason the outcomes ABANDONED_PREEMPTED and COMPLETED_OFF_POSE
are never given (`OutcomesAreEarned`).

*Properties.* `ViewMatchesGoal` relates the ledger to the executive and the stack;
`AttemptsBounded` and `UnavailableMeansExhausted` the accounting to its limits, refunds
included; `OutcomesAreEarned` the reason to what was flown; `SafeHoldKept` and `HoldIsFinal`
the hold to whatever comes later in the cycle; `InspectionEnds` is progress.

### DecisionUnit

*State.* `belief` is the head per critical requirement, graded: published, known, observed directly,
in conflict, calibrated, the channel above its threshold and the largest channel. `history` is the
decision window, counted in cycles, `asked` the ledger outside of the window (answered when a newer
revision has come since the newest request that was carried out). `reached` is a history variable:
the requirements of which a request has got as far as the planner. `unavailable`, `goal`, `held` are
what the routing, the executive and the runtime know. Everything else a cycle reads (permission to
move, health and reserves, link, blocked route, availability of the domain, stale or disputed
beliefs, findings to report) is a context `ctx`.

*Actions.* `Decide(ctx)` is one cycle of `Deliberation.decide`: `Open` and `Causes` (the claim graph),
`Candidates`, `Value` (the consequence vector and its weights, in millionths), `Accepted` (the
constraints), and `Chosen`, the best accepted value with the ties broken as in the code. `MissionGoals`
takes that answer for a choice; here it is computed. The decision is then routed by one action per
early return of `_route` and `_inspect`; `Defer`, `Gate` and `Postpone` take it back from the history,
`Drop` does not. `Revise` is a newer revision, `GoalEnds` and `SurveyEnds` are the executive's.

*Properties.* They relate weights, thresholds and constraints that are written in different files, so
that none of them holds by one rule alone. `RetreatIsBounded`: a reason to retreat that stays is
followed after at most one report per requirement. `EscalationIsLastResort`: the operator is not
alerted while each open requirement has an autonomous path. `OpenIsAskedFirst`: the mission does not
go on past an open requirement nobody has asked about. `UnavailableNotAsked`: a spent budget ends the
requests. `GapClosesByRevision`: the gap of an uncalibrated source is closed by a newer revision of
that belief only.

*Left out*: change of sensor mode (it takes two modalities, the program has one), wrong association
and the node limit of the claim graph, the geometry of regions and routes, a claim that mixes
properties, the learned policies and the outcome monitor.

### RuntimeSupervisor

The lifecycle with every public call, and the registry's judgement of reports and silence. A call the
code refuses by raising is a disabled action.

### MissionRuntime

`Prepare` and `Launch` are `MissionRuntime.start` (self-test and connection, either of which may fail;
the hardware gate; the first heartbeat of every registered module; the first beliefs, on which BAAC may
crash). Then one tick in the order of `MissionRuntime.tick`: perception, decision cycle, control,
communication, supervisor; then the driver advances the clock by a control period. The decision cycle
runs every `DecisionPeriod` ticks of an active mission, the communication step every `CommsPeriod`
ticks, in a hold too; in between, BAAC is heard only when perception has beliefs to publish. Each module
call may crash. `Human` is a call of
`RuntimeSupervisor.operator` between two ticks: hold, resume (refused while a critical module has
failed) or stop. `RAISED` is the loop left by an exception of something that runs outside of the
module runner: `put_observation`, the provenance and command flush.

*Properties.* `FailureSeenInTick`: a module that crashed, in whatever stage, is out of service from
then on; after the tick the mission is degraded exactly when some module is, and held, or not active,
when navigation has failed, so that a recovery is seen too. `ScheduleKeepsFresh` relates the call
periods, of the decision and of the communication, to the freshness windows of
`MissionRuntime.__init__` (navigation 2 s; four times the longest of decision period, communication
period and 2 s for the rest), also right after a hold in which nothing asked the decision unit. `HoldNeedsHuman`: only a person, or the end of the mission, ends a
hold.

### BeliefDelta, BaacSender, ShoreLink, ShoreView

*State.* A belief's revision changes one of two fields, so that a delta applied to the wrong
base gives a view no revision has; that is all the content there is. `sender` is the record
of `BAACSender`: the queue of units (revision, value, base of the deltas, increment under
way), the latest message, the deferred revisions, the assumed view of the receiver (K_R) and
the alerts acknowledged. Around it are the intake of `ShoreLink` (`intent`, `pending`, the
reoffer wait, the first critical message), the increments in flight and the shore's views and
alerts. `finding` is a history variable: the newest revision offered as critical.

*Actions.* `OfferToLink` is the mission's `offer`. One `ShoreLink.step` is `BeginStep` (flush,
and the reevaluation of the queue when the link is back), `Plan` per increment the scheduler
picks and `PlanDone`, `Transmit` or `NotTransmitted` per planned chunk, `TransmitDone` (the
deferred revisions are released), `Arrive` per increment that is due, `EndStep`. Between steps
the link goes down and comes up. Which of several non-critical increments has the most value
per bit is a choice; everything else of the scheduler (preemption by critical units, novelty,
credit for what the shore has, chunks, continuation) is as in the code.

*Properties.* `OneUnitPerBelief`, `KnowledgeIsBacked` (what the sender assumes of the shore is
there or on its way), `NoFindingForgotten` (until the shore has a critical finding, a newer
revision or its alert, the finding waits somewhere as a critical one or is on its way),
`ProgressKept` (the increment under way of a critical unit ends by its own transmission or when a
link that comes back builds the queue again, never by a fresher revision, a resynchronisation or
overload), `ImplementsShoreView` (`published <- intent`: the shore's view is always
one whole revision that was published, and never goes back), and the liveness
`LatestReachesShore`, `FindingReachesShore`.

*Left out*: deadlines and the energy budget (both off by default), unspent bits carried to the
next step, the levels F2 to F4 (one level stands for the evidence), the baseline policies of
the comparison studies, a restart of the sender (no mission gives the queue a file).

### Repository, BeliefPlane, BeliefLog

*State.* `Repository` has the tables as one record and each write of `commit_update` as an
operator on it. In `BeliefPlane` a transaction `tx` works on a copy; `child` is what the domain
models remember of what they committed (revision, time and provenance root per chain, counts,
undrained provenance), `todo` the revisions the running model still has to commit, `made` and
`out` its messages, `bus` the heads. Six beliefs stand for the three domains: a component and
its partly read surface, a map block and the asset over it, a field and an entity in it; each
domain commits to two, in its order. Evidence is a pair of observation and number; observations
of one capture share an independence group.

*Actions.* `Sense` (any batch of what has been measured, repeated, reordered, or corrupt),
`Ingest` per domain (archive the evidence, remember, plan the revisions), `Begin`, `Execute` per
write, `Commit` or `Raise` (a refusal, or a fault between any two writes: rollback, and the
module has failed), `Leave`, `Publish`, `Dispatch` (the technical model may take context),
`Decide` (a need is raised or closed), `EndTick`.

*Properties.* `WholeCommits` (no row without the others), `NeverRefused` (what a model remembers
agrees with the store whenever it commits, after any fault and any repetition),
`PublishedFromStore` (the bus shows committed revisions, and between ticks the newest of every
domain in service), `NeedAnswered` (a need is closed by an independent look, not by a revision
that only says the same again), and `ImplementsBeliefLog` (`log <- db.revs`: each belief's log
grows by one whole revision, uses no observation twice, and counts a shared capture once).

*Left out*: lifecycle and lineage rows, relationships, duplicate message ids (ids are fresh),
evidence that is INVALID or associated with nothing, spatial gap inference, the turbidity sink,
`predict`, snapshots and the age of a domain, TCDP (off by default), the object store, the
numeric content of every estimate.

### UnityBridge, CommandGateway

*State.* Per adapter: its state, sequence number, session, step index, time and the request it
waits for (`client`); the gateway in front of it (`gate`); its control connection (`sock`,
`backlog`), the request and the reply on the wire (`up`, `down`) and the sessions of the frames
in its stream. The `player` is the server and its protocol handler; `world` is clock, known
commands, watchdog and thrust. `lockStep` is the mode of the experiment. The ids come from a
seeded factory, so that two runs use the same.

*Actions.* The adapter's calls send a request and block; `Receive` has every check of
`_exchange` and of the caller, `Timeout` and `Lose` fault the adapter for good, `Drain` reads
the stream. The server accepts the newest connection and drops the older with what it carries
(`Accept`), notices that its client has gone (`Drop`), and answers one request per pass
(`Serve...`); `Crash` is an exception of the simulator in the middle of a step or a reset,
`Pump` the stream, `FixedUpdate` the free-running clock. A request that an adapter gave up on
stays in the socket and may still be served. A request outside of the session
(`InSessionOnly`) is answered NO_SESSION; `FaultsAreEarned` shows that no adapter of this code
ever gets that answer.

*Properties.* `InStep` (a reply is read for its own request), `AppliedAtMostOnce` (the
world executes an id once, whoever sent it and whatever became of the reply), `LockStepAgrees`
(step index and time agree on both sides across resets and takeovers), `ThrustBounded` (the
watchdog ends the thrust a dead client commanded), `FaultsAreEarned` (a fault has a cause in the
link, the peer or the simulator; a frame of another session's stream is admitted without one, and
`bridge_stream` shows that it can meet the very client that is being served), and `ImplementsGateway`: each
gateway with its bridge is a `CommandGateway`, in which the adapter accepts, refuses or raises
in one step (a command that waits for its reply is mapped to one that has not been handed over
yet).

*Left out*: what the propellers make of a command (`ThrusterModel.cs`: latency, first-order lag, the
stuck fault), a player that exits (a connection is lost only to a newer client or by the adapter's own
doing), the truth endpoint, the ZMQ, recording and replay transports, partial frames and
sizes, sensor content and the order of `_latest`, the identity checks of the handshake, when
the acoustic link or the form of a command makes the server refuse (`admissible` is a choice),
liveness (a player that is never scheduled is outside the code).

## 3. Runs

| Run | Result | States | Shows |
|---|---|---|---|
| `control_loop` | holds | 23,779 | two thrusters, a clock that runs on while a command is on its way: authorized motion, bounded stop, and that a latch or a dead autonomy stops the vehicle |
| `mission_goals` | holds | 810,459 | view execution off, on, and on with the protected view; two needs that share a belief: records, attempts, holds, and that an inspection ends |
| `mission_runtime` | holds | 318,808 | start-up, five modules, any crash, a decision every two ticks, communication every three, a human who holds, resumes or stops |
| `mission_database` | violated | | a database error leaves the mission RUNNING |
| `decision_unit` | holds | 271,490 | two critical requirements of six, a window of three decisions, ten contexts, every routing |
| `decision_confirmed` | violated | | a calibration request dropped while a view is running counts as carried out |
| `comms` | holds | 2,563,645 | two beliefs, a queue too small for both, losses, reordering, an outage: what the shore shows and what the sender assumes |
| `comms_live` | holds | 105,944 | two beliefs, a queue too small for both: every critical finding reaches the shore, and the latest revision unless overload took its unit |
| `belief_plane` | holds | 1,287,171 | seven kinds of evidence path in any order, late or twice, and a fault in any write of any commit |
| `belief_late` | violated | | an ecological observation older than the head is committed as an ordinary update |
| `bridge` | holds | 1,477,542 | two adapters on one player, free-running and in lock step, with timeouts, takeovers and a simulator that crashes |
| `bridge_stream` | violated | | a newer client is sent frames of the older session and faults |

A run that is expected to be violated checks one sentence of a document or comment; the
sentence and the counterexample are in `PROJECT.json` under "findings".

*Refinements.* `ShoreLink` implements `ShoreView`, `BeliefPlane` implements `BeliefLog`,
`UnityBridge` implements one `CommandGateway` per adapter. Each is checked as a property of the
run of the detailed module.

*Bounds.*

* `control_loop`: two thrusters are enough for one that fails while the other does not. A
  timeout of 3 with a relocalization timeout of 2 and a dwell of 1 lets a command, a loss and
  a dwell overlap in any order. The streaming clock may also stand still between a step and
  its submission, so its behaviours include those of lock step and one run covers both modes;
  the theorems hold in both. `MCInputs` has every reading of every monitor alone and the pairs
  that the code combines.
* `mission_goals`: two needs that share a belief are the least in which one need's report meets
  the other's attempts; two plans and two views per need are the least with a refund that meets
  the cap. `viewAttempts` and the records of one cycle are bounded by the code itself. Control
  ticks stand for time: a timeout of 2 and a dwell of 1 put the arrival before, at and after the
  timeout.
* `decision_unit`: two requirements are the least in which the open item of one meets the value of the
  other's; they differ in nothing, so they are a symmetry set. A limit of two attempts in a window of
  three lets a budget be spent, overlap another decision and scroll out (the program has three in about
  twenty). Of six requirements, so that the debt of two open ones is diluted by four satisfied ones.
  The grades are a confident uncalibrated reading (the gap of the calibration), one out of distribution,
  and one that says "not observed"; the contexts have one thing amiss or two that go together (no link
  and a report to make, a fault or a reserve that is used up).
* `mission_runtime`: the decision period is two ticks and the communication period three, so that the
  two fall together and apart. The window of navigation is one tick and of the rest three, the least
  `MissionAssumption` allows for one window: a single call left out shows, where the code's four periods
  would hide it. The silence of a module is counted up to the first value that is too old.
* `comms`: three offers in all, of up to three revisions of two beliefs, one outage, increments
  that arrive in the step they were sent in or in the next, one or two packets per step,
  and a queue of five packets, which holds a critical unit and not another one. That is the
  least in which a unit is superseded while an increment is under way, overload chooses between
  a critical and a plain unit, an increment overtakes an older one, and a delta meets a shore
  that never had its base. A resynchronisation needs only two of the three offers.
  `comms_live` has two beliefs, two revisions and two offers, the least in which overload chooses between
  a critical and a plain unit. The plain one is then missing from the shore until its belief is offered
  again, which is what `LatestReachesShore` excepts. With one belief and more offers, `NoFindingForgotten`
  also holds for delays of two and three steps and up to five offers as long as a belief is re-offered
  less often than an increment takes to arrive, as in the code (15 s against a latency of 1 s and the
  transmission). It says nothing of the revision once the alert is there: with two steps of delay a
  resynchronisation can offer the finding's revision again with the routine value of the latest message.
  That instance with a re-offer every three steps has 911,113 states, and both liveness properties hold.
* `belief_plane`: two structural observations, two geometric ones of one capture, a survey and
  a probe, measured in tick 1 or 2 and delivered in any of three ticks, up to two at a time,
  three in all, one fault. Three deliveries are a first observation, a second one and a late
  or repeated one; two of one capture are the least that may be counted twice. Two domains never
  share a belief, so more observations of the other domains add only the product.
* `bridge`: two runs, one id, three requests each (handshake and two more), two physics steps
  of free run and a lifetime of one. One command and a retry, a reset or a step after a command,
  and a takeover in the middle of any of them fit in; a third client only replaces the second as
  that one did the first. The two runs differ in nothing, so they are a symmetry set.

*Deadlock* is checked except where the system ends or a bound stops it: a finished mission
(`mission_goals`, `mission_runtime`), all offers made and delivered (`comms`), the last tick
(`belief_plane`), both adapters gone or at `MaxSeq` (`bridge`).

*Fairness.* `ControlLoop!DeadAutonomySpec`: the physics advances, and nothing else need happen:
neither the loop nor the operator does anything it does not choose to, so the stop after a
latch and after the death of the autonomy rests on the watchdog alone. `MissionGoals!FairSpec`:
the stages of the tick follow each other (the mission loop is sequential), and a decision period comes again and again while the mission is
not held: strongly fair, because the period is due only at the start of some ticks.
`ShoreLink!FairSpec`: the mission loop calls `step` again and again and a step runs through its
phases (weakly fair, `Turn`); the link is not down for ever (`LinkComesUp`), and a belief's
chunks are not lost for ever while they are sent again and again (`Transmit`), both of which
are the channel's loss and outage probabilities below one. Nothing is assumed of the order of
offers, of the delays, or of which non-critical increment is chosen.

*Read in the code, not checked by a run.* The models follow the code in all of these.

* The comment on ABANDONED_NAV_REJECTED says that no record is opened for a refused view
  (`orchestration/view_execution.py:44`); `_record_refused_view` opens and closes one
  (`executive.py:217-222`).
* `close_views` calls a view flown as soon as its goal is complete and it has been aimed
  (`executive.py:229`), while FLOWN is said to include the dwell (`view_execution.py:31`).
* `operator("start")` leaves SAFE_HOLD without the hardware gate that `resume` has
  (`runtime/supervisor.py:187-188`; `docs/RUNBOOK.md:48`,
  `docs/specification/source/ready_new_agent_v2.txt:13771`).
* DUPLICATE_COMMAND_ID is described as an id already accepted (`docs/ARCHITECTURE.md:201`); the
  id is recorded before the adapter has answered (`command_gateway.py:185`) and stays recorded
  when it refuses.
* A flown view is dropped when the goal after it is refused: the refusal's reason replaces the
  verdict (`executive.py:128`) and the planner gets it back as not taken (`routing.py:192`).
* The Unity reset rebuilds the world before it compares the digest, so an error reply has
  changed something (`BridgeProtocolHandler.cs:129-131`, against its header, line 3).
* The published `independent_observation_count` differs from the stored one (`ledger.py:114-117`):
  the technical model counts its surface's groups for the component, the spatial model voxels
  (`messages.py:131`, `214`); `schemas/belief.py:219-223` describes one number.
* A request given up on is still executed when its bytes are in the socket; ids repeat across
  runs, and a RESET forgets them with the world. In one world an id is still applied once.
* A re-offer of the same revision drops evidence levels that were queued (`baac.py:92-102`).
* A persistent queue file restarts with units of which the sender has no latest message
  (`queue.py:69-89`, `KeyError` at `baac.py:142`); no mission passes a path.
* A zero command is refused with STALE_STATE when the estimate is older than its limit
  (`command_gateway.py:149`), also in the states in which "explicit stop commands" are said to be
  accepted (line 53, `docs/ARCHITECTURE.md`); the watchdog then ends the last thrust (`StopIsBounded`).
* WAIT is worth 1.0 while any belief is reported as unavailable (`decision/consequence.py:209`), whatever
  is to be done for the others; `information_unavailable` (`context.py:135`), which asks about one
  belief, is never called (`docs/audits/I5_ACTION_MATRIX.md:1308-1311`).
* An answered gap is said not to expire with the window (`context.py:145-149`); the ledger keeps the
  newest request that was carried out only, so a second request at a newer revision reopens the gap
  once the first has scrolled out.
* At a consequence of 0.9 a third request about a contradiction, or an excess of the aleatoric or
  epistemic channel, is worth less than WAIT, so `max_information_attempts` of 3 is never reached for these
  (`consequence.py:79-89`, `config.py:66`).
* A critical belief that stays missing or stale is queried for ever: the limit of the query's value is
  above that of WAIT (`consequence.py:176-189`). ABORT_MISSION is always worth 0.1 less than
  RETURN_TO_SAFE_STATE and is never chosen (`consequence.py:203`).
* In a mission of ten or more requirements, at a consequence of 0.9, going on is worth no less than the
  first request about an aleatoric or epistemic excess at its threshold (`consequence.py:138`);
  `OpenIsAskedFirst` is about smaller missions.
* After a resume the executive's active goal is still SAFE_HOLD, which counts as busy
  (`routing.py:282`): no view is launched until another goal replaces it.
* A thruster that fails between the allocator's reading and the supervisor's in one tick is allocated
  thrust (`stack.py:184`); the assessment of the same tick sees the fault (`OnlyAuthorizedMotion`).
* A failed module is out of service for the rest of the mission, and the messages of revisions it
  had committed in that call are never published.
* A revision from context is committed and never published (`domains/technical/model.py:150`).
* `put_observation` and the other `put_*` of the tick run outside the module runner
  (`mission_database` is one instance).
* The ecological model keeps evidence stamped later than now pending (`model2e.py:105`), and
  TCDP can leave a dangling parent (`children.py:81`, off by default).
* Without a time limit or a retry: a REVISIT (`executive.py:373`), a transit goal refused at the
  start (`mission.py:292`), a view goal refused while holding (`executive.py:129`), a module
  registered and never built, which goes stale (`mission.py:276`), and the operator's inbox,
  read only in decision cycles (`mission.py:365`).

## 4. Proofs

Each proof module proves its theorems for every value of the constants the named assumptions of
its component allow; nothing else is assumed. The pattern is always the same: an inductive invariant,
the lemma that it holds initially, one lemma per action that it is preserved, and a last temporal
step. The parts of every inductive invariant were checked by TLC on the component's run first.

### ControlLoopProofs

For any set of thrusters, any subset of the observations, any timeouts and dwells and both clock modes.

* `TypeCorrect`; the invariants `ThrustAlwaysHasDeadline` and `StopAlwaysBounded`; the action
  properties `MotionIsAuthorized` and `LatchedMeansNoMotion`.

`LoopInvariant` is the type, `ThrustHasDeadline`, `WatchdogInTime` (while a stop is demanded and
something is still driven, the deadline is no later than the end of the command timeout counted from
the first demand) and `PendingAuthorized` (a pending command is one the latest assessment
authorizes). `StopIsBounded` is not inductive without the second: a state with thrust, a long demanded
stop and a fresh deadline satisfies it and violates it later. `OnlyAuthorizedMotion` needs the third,
because the submission is a later step than the assessment. The lemmas on `Worst`, `Found` and
`AssessmentOf` carry the content of the supervisor: a latch demands a stop, and motion without a
trusted estimate is the open-loop ascent.

### MissionRuntimeProofs

For any set of observing modules, any periods and any freshness windows. `MissionAssumption` asks the
windows of EGDC and MCBR to be no shorter than the decision period and BAAC's to be no shorter than the
communication period; the code gives them four times the longest period of a module (`mission.py`), and
with a shorter one a mission would degrade by its own schedule.

* `FailuresAreSeen`, `ScheduleIsFresh`: the invariants; `HoldIsReleasedByHuman`: the action property.

A mission is checked by its supervisor once a tick, so what makes `FailureSeenInTick` inductive is
what each stage has already done: `WorkingIsHeard` (what has not failed has been heard),
`DecidedInTime` (an active mission decides as soon as it is due, so that EGDC's silence is never
longer than the time since the last decision), `CommunicatedInTime` (the communication steps as soon as
its period has come, in a hold too, so that BAAC's silence is never longer than the time since the last
step) and `CalledInTick` (navigation is heard in every tick); `StartIsClean` starts it.

### MissionGoalsProofs

For all needs, poses, limits, timeouts and every setting of the view execution protocol. `"NONE"`,
which stands for no pose, must not be one.

* `OpenViewIsFlown`, `AttemptsAlwaysBounded`, `LedgerIsEarned`, `UnavailableIsExhausted`,
  `HoldGoalKept`: the invariants; `HeldForGood`: the action property.

The parts of `GoalInvariant` are about the order of a tick: at most one record waits for its
reconciliation and then no view is open (`OneRecord`), a decision starts from a reconciled ledger and
a held mission takes none (`DecidesReconciled`), and who has arrived was seen at the pose, unless
navigation failed in between (`ArrivedIsReached`). `UnavailableMeansExhausted` speaks of a counter that
a due refund lowers; its inductive form `UnavailableStays` therefore says that a need is exhausted
after the refunds that are due, and that no view of an unavailable belief runs.

### DecisionUnitProofs

For any finite set of critical requirements of any number of requirements, any limit of attempts, any
window, and the consequences of 80 to 100 percent the configuration knows.

* The action properties `OperatorIsLast`, `UnavailableNeverAsked`, `GapsCloseByRevision` and
  `OpenAlwaysAskedFirst`, and the invariant `RetreatAlwaysBounded`.

`OperatorIsLast` compares the values EGDC gives its options, with their weights and powers of two; the
lemmas bound each value for every consequence, and the power of two is a recursive function whose
solution is shown to exist by a least counterexample (a recursive definition is a CHOOSE to the
prover). `RetreatAlwaysBounded` has one hypothesis, `Cardinality(Requirements) <= Window`: in a shorter
window a report can be forgotten and made again, and the vehicle may report for ever. The code's
window is ten decision cycles (`decision_history_s` over `decision_period_s`). Its inductive
invariant `ReportsThenRetreats` says that the last `retreatFor` decisions are reports about
requirements no two of which are the same, and the bound follows by counting disjoint sets.

`OpenAlwaysAskedFirst` has two hypotheses. `ThresholdsHold` says that an uncertainty that counts is 0.4
at least, as `decision/config.py` sets the thresholds. `DebtOutweighsRequest` limits the number of
requirements that share the debt of an open one: fewer than ten at a consequence of 0.9, fewer than six
at 0.8, fewer than 25 at 1.0. It is exact for an excess at the threshold: with ten requirements at 0.9
the two values are equal, and the order of the kinds puts continuing first. The argument: what can be
asked about is exposed by 0.4 (`AskableExposed`), so the risk of continuing is 0.4 of the consequence at
least (`RiskCovers`), and with one debt (`DebtBound`) continuing is worth less than `FreshWorth`, which
the first request about anything is worth (`FreshRequestWorth`).

### BeliefPlaneProofs

For any finite set of observations with any times and sensors, any captures shared by geometric ones
(`CapturesAssumption`; only their evidence names a capture, `domains/spatial/evidence.py`), both late
policies, any number of ticks, deliveries and faults.

* `PlaneTypeCorrect`, `CommitsAreWhole`, `NothingRefused`: the invariants; `RefinesBeliefLog`: every
  step of the plane is a step of `BeliefLog` or leaves it alone.

Two inductive invariants, one on the other. `Typed` is the type with three facts that need no
knowledge of the tables: what is archived was admitted and is not admitted again, the provenance
records waiting for a commit have a newest one, and a transaction has a planned revision. `Stored` has
four parts, and none is inductive alone. `Agrees`: the tables are whole (`WholeCommits`, with the head's
time as the newest and the count as the number of independence groups). `Writing`: the open
transaction's copy is the tables with exactly the writes before its point, so that `Commit` installs
all four writes and `Raise` none. `Remembered`: the child's revision, time and provenance root are those
of the tables, the technical child's a revision ahead while its transaction is open. `Pending`: planned
revisions have archived evidence that their belief has not used, no belief twice, and their child is
in service. `NeverRefused` follows because the checks of `commit_update` compare what `Remembered` and
`Pending` say is equal; it is the third of the parts that fails when a child that raised stays in
service, which is why the runner latches it. For the refinement, `Commit` is the only step that
changes `db.revs`, and `Agrees` gives the number, the evidence and the count of the new revision.

### BeliefBusProofs

Two more inductive invariants on top of `Typed` and `Stored`, under the same assumptions.

* `PublishedIsStored`, `NeedsAreAnswered`: the invariants `PublishedFromStore` and `NeedAnswered`.

`PublishedFromStore` speaks of the time between two ticks; `Shown` follows a revision through the tick:
what the bus has, and what a child has made or handed over for publication, says what a committed
revision says, and a revision the bus does not have of a domain in service is among those messages. A
fault breaks the last part for the domain that failed, which is why the property excepts it and nothing
else. `Counted` is about the number a message carries. `need_satisfied` compares revisions and counts,
not observations, so the proof has to show that a larger count means an independent observation: a
message counts all its belief rests on (`Counting`, from `Grouped` and `Planning`, what the children
remember of groups and still plan), so that a need is either raised on a belief that has since gained
an independent observation (`Grown`) or on one of which no message anywhere, published, waiting or
being made, passes its test (`Unanswered`).

### ShoreLinkProofs

For any finite set of beliefs (`LinkAssumption`), any values and critical value, any capacity, budget,
delay, re-offer interval, and any number of offers, revisions and outages.

* `OneUnitKept`, `KnowledgeBacked`: the invariants; `ProgressIsKept`: the action property;
  `RefinesShoreView`: every step of the link is a step of `ShoreView` or leaves it alone.

`LinkInvariant` says that whatever the sender, the link and the shore hold is a revision that was given
to the link: a unit has one of them and was built against the view of another, what is in flight has
the delta between two such views or none, and K_R and the shore's views are whole. That is what a
delta needs: `DeltaApplies` shows that one that fits the view it meets gives the view of its revision,
field by field, and one that does not fit changes nothing and makes the sender forget (`Arrive`). With it
`Backed`, the content of `KnowledgeIsBacked`, is inductive: the increment that leaves the flight either
raises the shore's revision or takes the sender's knowledge away. The handlers of the sender are proved one
by one (`PutKeeps`, `OfferKeeps`, `RebuildKeeps`, ...); those that go through many beliefs or units
(`OfferAll`, `Reevaluate`) are recursive functions of an index, and `EntriesInOrder` shows that a
queue can be put in the order of its ages, without which the function would have no value. `Untouched`
is what every handler but the transmission and the rebuilding leaves alone, and gives `ProgressKept`.

### UnityBridgeProofs

For any finite set of adapters, any set of command ids, any lifetime of a command and any bounds.
`BridgeAssumption` asks `None` to be a value of its own.

* `BridgeTypeCorrect`, `RepliesInStep`, `ExecutedOnce`, `ThrustEndsInTime`, `LockStepKept`: the
  invariants, with `OnlyEarnedFaults`; `BridgeRefinesGateway`: adapter and player implement
  `CommandGateway` for every adapter.

`BridgeInvariant` follows a request around: what is on the wire of an adapter is its one unanswered
call (`Wired`), the control connection is before, behind or lost to another one's (`Connected`), a
reply answers the waiting call (`Replied`), and only a reply on its way sets the owner of the endpoint
and the player apart in session, step and time (`Served`). In the refinement a command that waits for
its reply counts as not handed over yet: the reply, the timeout or the lost connection is the `Send` of
the abstract gateway, with its outcome, and every other step stutters.

### Checked by TLC only

* All liveness: the prover has no rules for fairness and ENABLED.
* `NoFindingForgotten` of `ShoreLink`: it depends on timing. It holds because a belief is re-offered less
  often than its increments take to arrive; without that bound it is false, and with it the invariant
  has to relate the age of every increment to what was offered since.
* What a recursive definition computes is used through its equations only: `PublishMany`, `AfterBatch`,
  `OfferAll`, `Reevaluate` and `Power` are recursive functions of an index, and their facts are proved by
  induction over an interval from the least element of a set (`LeastElement`, `IntervalInduction`), because
  the library's induction theorems take an operator. The modules that need these lemmas each state them.
* The expected violations: a counterexample needs no proof.

## 5. Not modelled, and the plan

Numeric code (estimator, controllers, planners, the estimates of the domain models, twins,
MCBR's view scores, physics) is a nondeterministic choice where it meets a
protocol and is left out elsewhere. Offline code (evaluation, the decision experiments, data,
CLI output, the figures and gates under `src/scripts`), which is the largest part of the
repository by lines, computes numbers from recorded runs: it keeps no state between calls that
a model checker could explore. Training writes checkpoints, but `resume` is called by tests
only. The event log is append-only and nothing reads it back in a mission. The recording and
replay transports repeat what the TCP transport carried.

The models cover what the repository does as a protocol, and every invariant and action property is
proved but `NoFindingForgotten`. What would carry further is its timing,
the restart of a sender with a queue file, should a mission give it one, and a second link.
