---------------------------- MODULE UnityBridge -----------------------------
(***************************************************************************)
(* The bridge between the runtime and the Unity player: the adapter        *)
(* UnityRobotHardware (src/conrad/adapters/unity/hardware.py) behind a     *)
(* command gateway, its TCP transport (transport.py), and on the player's  *)
(* side TcpBridgeServer.cs, BridgeProtocolHandler.cs, RobotHardwareServer.cs *)
(* and ExperimentRuntime.cs.  Several adapters, each made by a run of its  *)
(* own, may want the one player: requests are answered late or never, a    *)
(* newer client replaces an older one, and what an adapter gave up on may  *)
(* still be in the player's socket.                                        *)
(***************************************************************************)
EXTENDS Integers, Sequences, FiniteSets

CONSTANTS
  Clients,   \* the adapters, one per run
  Ids,       \* command ids; the id factory is seeded, so two runs use the same
  Lifetime,  \* deadline_ns - issued_time_ns
  MaxNow,    \* bound: physics steps of the free-running player
  MaxSeq,    \* bound: requests of one adapter
  None

VARIABLES
  lockStep,  \* the stepping mode of the experiment
  client,    \* per adapter: its state, seq, session, step index, time and what it waits for
  gate,      \* per adapter: the gateway in front of it
  sock,      \* per adapter: its control connection as the player sees it
  backlog,   \* connections the player has not accepted yet
  up,        \* per adapter: a request on the wire
  down,      \* per adapter: a reply on the wire
  stream,    \* per adapter: the sessions of the frames in its stream buffer
  player,    \* the server and its protocol handler
  world      \* clock, accepted commands, watchdog and thrust

vars == <<lockStep, client, gate, sock, backlog, up, down, stream, player, world>>
network == <<sock, backlog>>

\* Why an adapter faults; some are the error codes of the player.
Reasons == {"TIMEOUT", "LOST", "FOREIGN_STREAM", "KIND", "SEQ", "SESSION", "STEP_INDEX", "TIME",
            "NO_SESSION", "SCENARIO_DIGEST", "SIMULATOR_FAULTED"}

Commands == [id : Ids, drive : BOOLEAN, issued : Nat, deadline : Nat]

\* The calls of an adapter that wait for a reply, and the requests and replies on the wire.
Calls ==
  [kind : {"HANDSHAKE", "POLL"}, arg : {None}] \cup [kind : {"RESET"}, arg : BOOLEAN]
    \cup [kind : {"STEP"}, arg : Nat] \cup [kind : {"COMMAND"}, arg : Commands]
Requests == [call : Calls, seq : Nat, session : Nat]
Bodies ==
  [kind : {"HANDSHAKE_ACK", "RESET_ACK"}, arg : {None}] \cup [kind : {"STATE"}, arg : Nat \cup {None}]
    \cup [kind : {"COMMAND_ACK"}, arg : BOOLEAN] \cup [kind : {"ERROR"}, arg : Reasons]
Replies == [body : Bodies, seq : Nat, session : Nat, time : Nat]

\* None is a value of its own.
ASSUME BridgeAssumption ==
  /\ IsFiniteSet(Clients)
  /\ None \notin Clients \cup Nat \cup Reasons \cup Calls \cup Requests \cup Replies
  /\ {Lifetime, MaxNow, MaxSeq} \subseteq Nat

Adapters ==
  [state : {"DISCONNECTED", "CONNECTED", "FAULTED", "CLOSED"}, reason : Reasons \cup {None}, seq : Nat,
   session : Nat, step : Nat, time : Nat, waiting : Calls \cup {None}]
Gates == [seen : SUBSET Ids, taken : SUBSET Ids, offered : [Ids -> Nat]]
Worlds ==
  [now : Nat, known : SUBSET Ids, deadline : Nat \cup {None}, thrust : BOOLEAN, applied : [Ids -> Nat]]

Gone(c) == client[c].state \in {"FAULTED", "CLOSED"}

NewWorld == [now |-> 0, known |-> {}, deadline |-> None, thrust |-> FALSE, applied |-> [i \in Ids |-> 0]]

NewClient ==
  [state |-> "DISCONNECTED", reason |-> None, seq |-> 0, session |-> 0, step |-> 0, time |-> 0, waiting |-> None]

Init ==
  /\ lockStep \in BOOLEAN
  /\ client = [c \in Clients |-> NewClient]
  /\ gate = [c \in Clients |-> [seen |-> {}, taken |-> {}, offered |-> [i \in Ids |-> 0]]]
  /\ sock = [c \in Clients |-> "none"]
  /\ backlog = <<>>
  /\ up = [c \in Clients |-> None]
  /\ down = [c \in Clients |-> None]
  /\ stream = [c \in Clients |-> {}]
  /\ player = [owner |-> None, session |-> 0, expected |-> 0, broken |-> FALSE]
  /\ world = NewWorld

-----------------------------------------------------------------------------
\* The adapter

\* _exchange: the next seq goes out and the call blocks.
Request(c, kind, arg) ==
  LET call == [kind |-> kind, arg |-> arg] IN
  /\ client' = [client EXCEPT ![c].seq = @ + 1, ![c].waiting = call]
  /\ up' = [up EXCEPT ![c] = [call |-> call, seq |-> client[c].seq + 1, session |-> client[c].session]]

\* _fail: FAULTED for good, so that its counters are never read again; the transport is closed, and what
\* has been sent may still arrive.
Fail(c, reason) ==
  /\ client' = [client EXCEPT ![c] = [NewClient EXCEPT !.state = "FAULTED", !.reason = reason]]
  /\ down' = [down EXCEPT ![c] = None]
  /\ stream' = [stream EXCEPT ![c] = {}]

\* connect: control connection, stream connection in free-running mode, handshake.
Connect(c) ==
  /\ client[c].state = "DISCONNECTED" /\ sock[c] = "none"
  /\ Request(c, "HANDSHAKE", None)
  /\ sock' = [sock EXCEPT ![c] = "backlog"] /\ backlog' = Append(backlog, c)
  /\ UNCHANGED <<lockStep, gate, down, stream, player, world>>

Ready(c) == client[c].state = "CONNECTED" /\ client[c].waiting = None /\ client[c].seq < MaxSeq

\* reset, with a scenario digest that is the player's or not.
Reset(c, match) ==
  /\ Ready(c) /\ Request(c, "RESET", match)
  /\ UNCHANGED <<lockStep, gate, network, down, stream, player, world>>

Step(c) ==
  /\ Ready(c) /\ lockStep /\ Request(c, "STEP", client[c].step)
  /\ UNCHANGED <<lockStep, gate, network, down, stream, player, world>>

\* poll, and every other request that only reads.
Poll(c) ==
  /\ Ready(c) /\ Request(c, "POLL", None)
  /\ UNCHANGED <<lockStep, gate, network, down, stream, player, world>>

\* Mutant: the id is not remembered.
OfferForgets(c, i) == [gate EXCEPT ![c].offered[i] = @ + 1]

\* The gateway remembers the id and hands the command to the adapter.
Offer(c, i) == [gate EXCEPT ![c].seen = @ \cup {i}, ![c].offered[i] = @ + 1]

\* submit, send (a refusal of submit changes nothing): precheck_command may refuse without touching the wire.
Submit(c, i, drive) ==
  /\ Ready(c) /\ i \notin gate[c].seen
  /\ gate' = Offer(c, i)
  /\ Request(c, "COMMAND", [id |-> i, drive |-> drive, issued |-> client[c].time,
                            deadline |-> client[c].time + Lifetime])
  /\ UNCHANGED <<lockStep, network, down, stream, player, world>>

SubmitPrechecked(c, i) ==
  /\ Ready(c) /\ i \notin gate[c].seen
  /\ gate' = Offer(c, i)
  /\ UNCHANGED <<lockStep, client, network, up, down, stream, player, world>>

Answers == [HANDSHAKE |-> "HANDSHAKE_ACK", RESET |-> "RESET_ACK", STEP |-> "STATE", POLL |-> "STATE",
            COMMAND |-> "COMMAND_ACK"]

\* What _exchange and its caller find wrong with reply r.
Problems(c, r) ==
  LET me == client[c]
      checks == [KIND |-> r.body.kind # Answers[me.waiting.kind],
                 SEQ |-> r.seq # me.seq,
                 SESSION |-> me.session # 0 /\ r.session # me.session,
                 STEP_INDEX |-> me.waiting.kind = "STEP" /\ r.body.arg # me.step,
                 TIME |-> me.waiting.kind \in {"STEP", "POLL"} /\ r.time < me.time]
  IN IF r.body.kind = "ERROR" THEN {r.body.arg} ELSE {p \in DOMAIN checks : checks[p]}

\* What the adapter knows once reply r has passed its checks.
Accepted(c, r) ==
  LET me == [client[c] EXCEPT !.waiting = None] IN
  CASE client[c].waiting.kind = "HANDSHAKE" -> [me EXCEPT !.state = "CONNECTED", !.session = r.session, !.time = r.time]
    [] client[c].waiting.kind = "RESET" -> [me EXCEPT !.step = 0, !.time = r.time]
    [] client[c].waiting.kind = "STEP" -> [me EXCEPT !.step = @ + 1, !.time = r.time]
    [] OTHER -> [me EXCEPT !.time = IF r.time > @ THEN r.time ELSE @]

Receive(c) ==
  /\ client[c].waiting # None /\ down[c] # None
  /\ LET r == down[c]
         asked == client[c].waiting IN
     IF Problems(c, r) # {} THEN (\E p \in Problems(c, r) : Fail(c, p)) /\ UNCHANGED gate
     ELSE /\ client' = [client EXCEPT ![c] = Accepted(c, r)]
          /\ down' = [down EXCEPT ![c] = None]
          /\ UNCHANGED stream
          /\ gate' = IF asked.kind = "COMMAND" /\ r.body.arg THEN [gate EXCEPT ![c].taken = @ \cup {asked.arg.id}]
                     ELSE gate
  /\ UNCHANGED <<lockStep, network, up, player, world>>

\* Mutant: the call fails and the transport stays open.
TimeoutKeepsOpen(c) ==
  /\ client[c].waiting # None
  /\ client' = [client EXCEPT ![c].waiting = None]
  /\ UNCHANGED <<lockStep, gate, network, up, down, stream, player, world>>

\* No reply within request_timeout_ms.
Timeout(c) ==
  /\ client[c].waiting # None
  /\ Fail(c, "TIMEOUT")
  /\ UNCHANGED <<lockStep, gate, network, up, player, world>>

\* The player closed the connection; a reply it had written may be lost with it.
Lose(c) ==
  /\ client[c].waiting # None /\ sock[c] = "dropped"
  /\ Fail(c, "LOST")
  /\ UNCHANGED <<lockStep, gate, network, up, player, world>>

\* drain_stream.
Drain(c) ==
  /\ client[c].state = "CONNECTED" /\ client[c].waiting = None /\ stream[c] # {}
  /\ IF stream[c] = {client[c].session}
     THEN stream' = [stream EXCEPT ![c] = {}] /\ UNCHANGED <<client, down>>
     ELSE Fail(c, "FOREIGN_STREAM")
  /\ UNCHANGED <<lockStep, gate, network, up, player, world>>

Close(c) ==
  /\ client[c].state = "CONNECTED" /\ client[c].waiting = None
  /\ client' = [client EXCEPT ![c] = [NewClient EXCEPT !.state = "CLOSED"]]
  /\ stream' = [stream EXCEPT ![c] = {}]
  /\ UNCHANGED <<lockStep, gate, network, up, down, player, world>>

-----------------------------------------------------------------------------
\* The player's world

\* Mutant: the deadline itself still counts.
ExpiredAfter(w) == w.deadline # None /\ w.now > w.deadline

\* Watchdog: the deadline of the last accepted command has come.
Expired(w) == w.deadline # None /\ w.now >= w.deadline

\* StepOnce: watchdog, physics, clock.
StepOnce(w) ==
  LET watched == IF Expired(w) THEN [w EXCEPT !.thrust = FALSE, !.deadline = None] ELSE w
  IN [watched EXCEPT !.now = @ + 1]

\* HandleCommand finds nothing to refuse; comm loss and the form of a command are a choice.
Admits(w, command, admissible) ==
  /\ admissible
  /\ command.deadline > w.now
  /\ command.issued <= w.now
  /\ command.id \notin w.known

\* Mutant: an accepted id is not remembered.
ApplyForgets(w, command) ==
  [w EXCEPT !.deadline = command.deadline, !.thrust = command.drive, !.applied[command.id] = @ + 1]

Apply(w, command) ==
  [w EXCEPT !.known = @ \cup {command.id}, !.deadline = command.deadline, !.thrust = command.drive,
            !.applied[command.id] = @ + 1]

-----------------------------------------------------------------------------
\* The server: each pass of Update accepts, then serves at most one request

\* AcceptOne: the newest client owns the endpoint; the others' connections go with what they carry.
Accept ==
  LET newest == backlog[Len(backlog)]
      others == {c \in Clients \ {newest} : sock[c] \in {"backlog", "open"}} IN
  /\ backlog # <<>> /\ backlog' = <<>>
  /\ sock' = [c \in Clients |-> IF c = newest THEN "open" ELSE IF c \in others THEN "dropped" ELSE sock[c]]
  /\ up' = [c \in Clients |-> IF c \in others THEN None ELSE up[c]]
  /\ player' = [player EXCEPT !.owner = newest]
  /\ UNCHANGED <<lockStep, client, gate, down, stream, world>>

\* ServeOne finds that its client has gone.
Drop ==
  /\ backlog = <<>> /\ player.owner # None /\ Gone(player.owner) /\ up[player.owner] = None
  /\ sock' = [sock EXCEPT ![player.owner] = "dropped"]
  /\ player' = [player EXCEPT !.owner = None]
  /\ UNCHANGED <<lockStep, client, gate, backlog, up, down, stream, world>>

\* (A client that connects between the accept and the serve of a pass might as well have connected
\* after it: requests are served when nobody waits.)
Serving(kinds) ==
  /\ backlog = <<>> /\ player.owner # None /\ up[player.owner] # None
  /\ up[player.owner].call.kind \in kinds
  /\ UNCHANGED <<lockStep, client, gate, network, stream>>

Asked == up[player.owner].call
InSession == player.session # 0 /\ up[player.owner].session = player.session

\* Exactly one reply per request; nobody reads it when the client has gone.
Answer(kind, arg) ==
  LET c == player.owner IN
  /\ up' = [up EXCEPT ![c] = None]
  /\ down' = [down EXCEPT ![c] =
       IF Gone(c) THEN None
       ELSE [body |-> [kind |-> kind, arg |-> arg], seq |-> IF player'.broken THEN 0 ELSE up[c].seq,
             session |-> player'.session, time |-> world'.now]]

\* A request outside of the current session is refused.
InSessionOnly(served) ==
  IF InSession THEN served ELSE UNCHANGED <<player, world>> /\ Answer("ERROR", "NO_SESSION")

\* Mutant: a new session goes on counting the steps of the old one.
ServeHandshakeKeepsStep ==
  /\ Serving({"HANDSHAKE"}) /\ ~player.broken
  /\ player' = [player EXCEPT !.session = @ + 1]
  /\ UNCHANGED world
  /\ Answer("HANDSHAKE_ACK", None)

ServeHandshake ==
  /\ Serving({"HANDSHAKE"}) /\ ~player.broken
  /\ player' = [player EXCEPT !.session = @ + 1, !.expected = 0]
  /\ UNCHANGED world
  /\ Answer("HANDSHAKE_ACK", None)

\* Mutant: the step counter survives the reset.
ServeResetKeepsStep ==
  /\ Serving({"RESET"}) /\ ~player.broken
  /\ InSessionOnly(/\ world' = NewWorld /\ UNCHANGED player
                   /\ IF Asked.arg THEN Answer("RESET_ACK", None)
                      ELSE Answer("ERROR", "SCENARIO_DIGEST"))

\* The world is rebuilt before the digest is compared.
ServeReset ==
  /\ Serving({"RESET"}) /\ ~player.broken
  /\ InSessionOnly(
       /\ world' = NewWorld
       /\ IF Asked.arg
          THEN player' = [player EXCEPT !.expected = 0] /\ Answer("RESET_ACK", None)
          ELSE UNCHANGED player /\ Answer("ERROR", "SCENARIO_DIGEST"))

ServeStep ==
  /\ Serving({"STEP"}) /\ ~player.broken
  /\ InSessionOnly(
       IF Asked.arg # player.expected
       THEN UNCHANGED <<player, world>> /\ Answer("ERROR", "STEP_INDEX")
       ELSE /\ world' = StepOnce(world)
            /\ player' = [player EXCEPT !.expected = @ + 1]
            /\ Answer("STATE", Asked.arg))

ServePoll ==
  /\ Serving({"POLL"}) /\ ~player.broken
  /\ InSessionOnly(UNCHANGED <<player, world>> /\ Answer("STATE", None))

ServeCommand(admissible) ==
  /\ Serving({"COMMAND"}) /\ ~player.broken
  /\ InSessionOnly(
       LET admitted == Admits(world, Asked.arg, admissible) IN
       /\ world' = IF admitted THEN Apply(world, Asked.arg) ELSE world
       /\ UNCHANGED player
       /\ Answer("COMMAND_ACK", admitted))

\* The runtime raises in the middle of a step or a reset: nothing is served from then on.
Crash ==
  /\ Serving({"STEP", "RESET"}) /\ ~player.broken /\ InSession
  /\ player' = [player EXCEPT !.broken = TRUE]
  /\ world' \in {world, IF Asked.kind = "STEP" THEN StepOnce(world) ELSE NewWorld}
  /\ Answer("ERROR", "SIMULATOR_FAULTED")

ServeBroken ==
  /\ Serving(DOMAIN Answers) /\ player.broken
  /\ UNCHANGED <<player, world>>
  /\ Answer("ERROR", "SIMULATOR_FAULTED")

\* PumpStream: whoever has a stream connection gets the frames of the current session.
Pump ==
  /\ ~lockStep /\ ~player.broken /\ player.session # 0
  /\ stream' = [c \in Clients |-> IF sock[c] = "none" \/ Gone(c) THEN {} ELSE stream[c] \cup {player.session}]
  /\ UNCHANGED <<lockStep, client, gate, network, up, down, player, world>>

\* FixedUpdate: the free-running player's clock, whatever becomes of the bridge.
FixedUpdate ==
  /\ ~lockStep /\ world.now < MaxNow
  /\ world' = StepOnce(world)
  /\ UNCHANGED <<lockStep, client, gate, network, up, down, stream, player>>

Adapter(c) ==
  \/ Connect(c) \/ Step(c) \/ Poll(c) \/ Receive(c) \/ Timeout(c) \/ Lose(c) \/ Drain(c) \/ Close(c)
  \/ \E match \in BOOLEAN : Reset(c, match)
  \/ \E i \in Ids : SubmitPrechecked(c, i) \/ \E drive \in BOOLEAN : Submit(c, i, drive)

Server ==
  \/ Accept \/ Drop
  \/ ServeHandshake \/ ServeReset \/ ServeStep \/ ServePoll \/ \E admissible \in BOOLEAN : ServeCommand(admissible)
  \/ Crash \/ ServeBroken
  \/ Pump \/ FixedUpdate

Next == (\E c \in Clients : Adapter(c)) \/ Server

Spec == Init /\ [][Next]_vars

-----------------------------------------------------------------------------
\* Properties

\* The variables have their types; the player has at most one open control connection, its owner's.
TypeOK ==
  /\ lockStep \in BOOLEAN
  /\ client \in [Clients -> Adapters] /\ gate \in [Clients -> Gates]
  /\ sock \in [Clients -> {"none", "backlog", "open", "dropped"}] /\ backlog \in Seq(Clients)
  /\ up \in [Clients -> Requests \cup {None}] /\ down \in [Clients -> Replies \cup {None}]
  /\ stream \in [Clients -> SUBSET (1..player.session)]
  /\ player \in [owner : Clients \cup {None}, session : Nat, expected : Nat, broken : BOOLEAN]
  /\ world \in Worlds
  /\ \A c \in Clients : sock[c] = "open" <=> c = player.owner

\* transport.py: "A request/reply stream that missed its reply is out of step; never send on it again."
\* Between two calls of an adapter nothing of it is on the wire, so that a reply always belongs to the
\* request it is read for.
InStep ==
  \A c \in Clients :
    /\ up[c] = None \/ down[c] = None
    /\ client[c].state = "CONNECTED" /\ client[c].waiting = None => up[c] = None /\ down[c] = None
    /\ down[c] # None /\ down[c].body.kind # "ERROR"
         => client[c].waiting # None /\ down[c].body.kind = Answers[client[c].waiting.kind]

\* However the runs and their retries overlap, and whatever became of the replies, the vehicle executes
\* a command id at most once in a world.
AppliedAtMostOnce == \A i \in Ids : world.applied[i] <= 1

\* In lock step an adapter that waits for nothing and still is the player's client knows the step that
\* comes next and the time it is: neither a late reply nor a predecessor in the middle of its run has
\* left them apart.
LockStepAgrees ==
  \A c \in Clients :
    lockStep /\ ~player.broken /\ c = player.owner /\ client[c].state = "CONNECTED" /\ client[c].waiting = None
      => client[c].step = player.expected /\ client[c].time = world.now

\* Commanded thrust never runs on past its deadline by more than the step in which it comes, although the
\* adapter that asked for it may have faulted, been replaced or given up waiting long before.  What the
\* propeller makes of the command (ThrusterModel.cs: latency, lag, a stuck fault) is left out.
ThrustBounded == world.thrust => world.deadline # None /\ world.now <= world.deadline

\* docs/UNITY.md, fail-closed rules: the adapter faults when something is wrong, and only then.  The
\* sequence, session, step index and time it checks are never found wrong between the two sides as they
\* are, nor is a request ever outside of the session.  What faults it is a timeout, a connection lost to a
\* newer client (the player itself never exits here), a simulator fault, a scenario that is not its own,
\* or a frame of another session's stream.  The last needs no fault of anyone: see NewerClientServed.
FaultsAreEarned ==
  \A c \in Clients :
    /\ client[c].reason \in {None, "TIMEOUT", "LOST", "SIMULATOR_FAULTED", "SCENARIO_DIGEST", "FOREIGN_STREAM"}
    /\ client[c].reason = "LOST" => Cardinality({d \in Clients : sock[d] # "none"}) > 1
    /\ client[c].reason = "SIMULATOR_FAULTED" => player.broken

InFlight(c) ==
  IF client[c].waiting # None /\ client[c].waiting.kind = "COMMAND" THEN {client[c].waiting.arg.id} ELSE {}

\* The gateway as its own module has it: an adapter that accepts, refuses or raises in one step.  A
\* command that waits for its reply has not been handed over yet.
Gateway(c) == INSTANCE CommandGateway WITH
  seen <- gate[c].seen \ InFlight(c),
  taken <- gate[c].taken,
  offered <- [i \in Ids |-> gate[c].offered[i] - (IF i \in InFlight(c) THEN 1 ELSE 0)]

\* Over the bridge, with its late, lost and foreign replies, the adapter is still one that accepts,
\* refuses or raises, and the gateway hands it an id once.
ImplementsGateway ==
  /\ \A c \in Clients : Gateway(c)!Init
  /\ [][\A c \in Clients : [Gateway(c)!Next]_(Gateway(c)!vars)]_vars

\* docs/UNITY.md: "a newer control connection replaces an older one and must handshake again."  The
\* client that has done so finds only frames of its own session in its stream.
NewerClientServed ==
  \A c \in Clients :
    client[c].state = "CONNECTED" /\ client[c].session = player.session => stream[c] \subseteq {client[c].session}
=============================================================================
