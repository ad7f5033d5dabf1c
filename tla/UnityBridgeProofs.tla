-------------------------- MODULE UnityBridgeProofs --------------------------
(***************************************************************************)
(* Proofs about the bridge to the Unity player, for every set of adapters  *)
(* and of command ids, every lifetime of a command and any number of       *)
(* requests and physics steps.                                             *)
(***************************************************************************)
EXTENDS UnityBridge, FiniteSetTheorems, TLAPS

\* What is on the wire of an adapter that has not given up is its one unanswered call, and every
\* request is well formed.
Wired(c) ==
  LET call == client[c].waiting IN
  /\ down[c] # None => up[c] = None /\ call # None
  /\ up[c] # None /\ ~Gone(c) => call # None /\ up[c] = [call |-> call, seq |-> client[c].seq, session |-> client[c].session]
  /\ Gone(c) => call = None
  /\ call # None => /\ call.kind = "HANDSHAKE" <=> client[c].state = "DISCONNECTED"
                    /\ call.kind = "STEP" => lockStep /\ call.arg = client[c].step
                    /\ call.kind = "COMMAND" => call.arg.id \in gate[c].seen
  /\ client[c].state = "DISCONNECTED" =>
       client[c].session = 0 /\ client[c].step = 0 /\ client[c].time = 0

\* The control connection: before it, behind the others, and lost to a newer one.
Connected(c) ==
  /\ sock[c] = "none" => client[c].state = "DISCONNECTED" /\ client[c].waiting = None /\ up[c] = None
  /\ sock[c] = "backlog" => client[c].state # "CONNECTED" /\ down[c] = None
  /\ sock[c] = "dropped" /\ ~Gone(c) => \E d \in Clients \ {c} : sock[d] # "none"

\* A reply passes the checks of the call it answers, or is one of the two errors.
Replied(c) ==
  down[c] # None =>
    IF down[c].body.kind = "ERROR"
    THEN /\ down[c].body.arg \in {"SIMULATOR_FAULTED", "SCENARIO_DIGEST"}
         /\ down[c].body.arg = "SIMULATOR_FAULTED" => player.broken
    ELSE LET asked == client[c].waiting.kind IN
         /\ down[c].body.kind = Answers[asked] /\ down[c].seq = client[c].seq
         /\ IF asked = "HANDSHAKE" THEN down[c].session # 0 ELSE down[c].session = client[c].session
         /\ asked = "STEP" => down[c].body.arg = client[c].step
         /\ asked # "RESET" => down[c].time >= client[c].time

\* The owner of the endpoint and the player are in one session, and in lock step at one step and time.
\* A reply on its way is what sets them apart.
Served(c) ==
  LET me == client[c] IN
  c = player.owner =>
    /\ me.state = "CONNECTED" => me.session = player.session /\ me.session # 0
    /\ ~player.broken /\ me.state = "CONNECTED" /\ down[c] = None =>
         /\ me.time <= world.now
         /\ lockStep => me.step = player.expected /\ me.time = world.now
    /\ ~Gone(c) /\ down[c] # None /\ down[c].body.kind # "ERROR" =>
         /\ down[c].session = player.session
         /\ down[c].time <= world.now \/ player.broken
         /\ lockStep /\ ~player.broken =>
              /\ down[c].time = world.now
              /\ player.expected = CASE me.waiting.kind \in {"HANDSHAKE", "RESET"} -> 0
                                     [] me.waiting.kind = "STEP" -> me.step + 1
                                     [] OTHER -> me.step

\* Why an adapter has faulted.
Faulted(c) ==
  /\ client[c].reason \in {None, "TIMEOUT", "LOST", "SIMULATOR_FAULTED", "SCENARIO_DIGEST", "FOREIGN_STREAM"}
  /\ client[c].reason = "LOST" => sock[c] # "none" /\ \E d \in Clients \ {c} : sock[d] # "none"
  /\ client[c].reason = "SIMULATOR_FAULTED" => player.broken

\* The vehicle knows exactly what it has executed, and its thrust has its deadline ahead.
WorldOK(w) ==
  /\ \A i \in Ids : w.applied[i] = IF i \in w.known THEN 1 ELSE 0
  /\ w.thrust => w.deadline # None /\ w.now <= w.deadline

Agreed(c) == Wired(c) /\ Connected(c) /\ Replied(c) /\ Served(c) /\ Faulted(c)

BridgeInvariant ==
  /\ TypeOK
  /\ \A i \in 1..Len(backlog) : sock[backlog[i]] = "backlog"
  /\ \A c \in Clients : Agreed(c)
  /\ WorldOK(world)

-----------------------------------------------------------------------------
(***************************************************************************)
(* What the operators of the model change.                                 *)
(***************************************************************************)
LEMMA NoneIsApart ==
  /\ \A x \in Clients \cup Nat \cup Reasons : x # None
  /\ \A x \in Calls \cup Requests \cup Replies : x # None
BY BridgeAssumption

LEMMA RequestFacts ==
  ASSUME TypeOK, NEW c \in Clients, NEW kind, NEW arg, [kind |-> kind, arg |-> arg] \in Calls,
         Request(c, kind, arg)
  PROVE  /\ client' \in [Clients -> Adapters] /\ up' \in [Clients -> Requests \cup {None}]
         /\ \A d \in Clients \ {c} : client'[d] = client[d] /\ up'[d] = up[d]
         /\ client'[c].state = client[c].state /\ client'[c].reason = client[c].reason
         /\ client'[c].session = client[c].session /\ client'[c].step = client[c].step
         /\ client'[c].time = client[c].time /\ client'[c].waiting = [kind |-> kind, arg |-> arg]
         /\ up'[c] = [call |-> client'[c].waiting, seq |-> client'[c].seq, session |-> client'[c].session]
         /\ client'[c].waiting # None /\ up'[c] # None
<1> DEFINE call == [kind |-> kind, arg |-> arg]
           request == [call |-> call, seq |-> client[c].seq + 1, session |-> client[c].session]
           me == [client[c] EXCEPT !.seq = @ + 1, !.waiting = call]
<1>1. client' = [client EXCEPT ![c] = me] /\ up' = [up EXCEPT ![c] = request]
  BY DEF Request, TypeOK
<1>2. client[c] \in Adapters /\ client \in [Clients -> Adapters] /\ up \in [Clients -> Requests \cup {None}]
  BY DEF TypeOK
<1>3. me \in Adapters
  <2>1. [client[c] EXCEPT !.seq = @ + 1] \in Adapters
    BY <1>2 DEF Adapters
  <2>2. \A a \in Adapters, w \in Calls : [a EXCEPT !.waiting = w] \in Adapters
    BY DEF Adapters
  <2> QED BY <2>1, <2>2
<1>4. request \in Requests
  BY <1>2 DEF Adapters, Requests
<1>5. /\ me.waiting = call /\ me.seq = client[c].seq + 1 /\ me.session = client[c].session
      /\ me.state = client[c].state /\ me.reason = client[c].reason
      /\ me.step = client[c].step /\ me.time = client[c].time
  BY <1>2 DEF Adapters
<1>6. client'[c] = me /\ up'[c] = request
  BY <1>1, <1>2
<1> HIDE DEF me, request
<1> QED BY <1>1, <1>2, <1>3, <1>4, <1>5, <1>6, NoneIsApart DEF me, request

LEMMA FailFacts ==
  ASSUME TypeOK, NEW c \in Clients, NEW reason \in Reasons, Fail(c, reason)
  PROVE  /\ client' \in [Clients -> Adapters] /\ down' \in [Clients -> Replies \cup {None}]
         /\ stream' \in [Clients -> SUBSET (1..player.session)]
         /\ \A d \in Clients \ {c} : client'[d] = client[d] /\ down'[d] = down[d] /\ stream'[d] = stream[d]
         /\ client'[c].state = "FAULTED" /\ client'[c].reason = reason /\ client'[c].waiting = None
         /\ down'[c] = None
<1> DEFINE me == [NewClient EXCEPT !.state = "FAULTED", !.reason = reason]
<1>1. me \in Adapters /\ me.state = "FAULTED" /\ me.reason = reason /\ me.waiting = None
  BY DEF NewClient, Adapters
<1> HIDE DEF me
<1>2. /\ client' = [client EXCEPT ![c] = me] /\ down' = [down EXCEPT ![c] = None]
      /\ stream' = [stream EXCEPT ![c] = {}]
  BY DEF Fail, me
<1> QED BY <1>1, <1>2 DEF TypeOK

(***************************************************************************)
(* An adapter that is left alone stays in agreement, whatever the others   *)
(* do, unless it is the one being served.                                  *)
(***************************************************************************)
LEMMA OthersAgree ==
  ASSUME NEW c \in Clients, Agreed(c),
         lockStep' = lockStep, client'[c] = client[c], gate'[c] = gate[c],
         sock'[c] = sock[c], up'[c] = up[c], down'[c] = down[c],
         \A d \in Clients : sock[d] # "none" => sock'[d] # "none",
         player.broken => player'.broken,
         c = player'.owner => c = player.owner /\ player' = player /\ world' = world
  PROVE  Agreed(c)'
<1>1. Wired(c)'
  BY DEF Agreed, Wired, Gone
<1>2. Connected(c)'
  BY DEF Agreed, Connected, Gone
<1>3. Replied(c)'
  BY DEF Agreed, Replied
<1>4. Served(c)'
  BY DEF Agreed, Served, Gone
<1>5. Faulted(c)'
  BY DEF Agreed, Faulted
<1> QED BY <1>1, <1>2, <1>3, <1>4, <1>5 DEF Agreed

-----------------------------------------------------------------------------
(***************************************************************************)
(* The adapter's steps.                                                    *)
(***************************************************************************)
LEMMA CallKeeps ==
  ASSUME BridgeInvariant, NEW c \in Clients, NEW kind, NEW arg,
         [kind |-> kind, arg |-> arg] \in Calls, kind # "HANDSHAKE",
         client[c].state = "CONNECTED", client[c].waiting = None,
         kind = "STEP" => lockStep /\ arg = client[c].step,
         kind = "COMMAND" => arg.id \in gate'[c].seen,
         gate' \in [Clients -> Gates], \A d \in Clients \ {c} : gate'[d] = gate[d],
         Request(c, kind, arg), UNCHANGED <<lockStep, network, down, stream, player, world>>
  PROVE  BridgeInvariant'
<1>1. TypeOK /\ Agreed(c)
  BY DEF BridgeInvariant
<1> DEFINE facts ==
      /\ client' \in [Clients -> Adapters] /\ up' \in [Clients -> Requests \cup {None}]
      /\ \A d \in Clients \ {c} : client'[d] = client[d] /\ up'[d] = up[d]
      /\ client'[c].state = client[c].state /\ client'[c].reason = client[c].reason
      /\ client'[c].session = client[c].session /\ client'[c].step = client[c].step
      /\ client'[c].time = client[c].time /\ client'[c].waiting = [kind |-> kind, arg |-> arg]
      /\ up'[c] = [call |-> client'[c].waiting, seq |-> client'[c].seq, session |-> client'[c].session]
      /\ client'[c].waiting # None /\ up'[c] # None
<1>2. facts
  BY <1>1, RequestFacts
<1>3. /\ lockStep' = lockStep /\ sock' = sock /\ backlog' = backlog /\ down' = down /\ stream' = stream
      /\ player' = player /\ world' = world
  BY DEF network
<1>4. TypeOK'
  BY <1>1, <1>2, <1>3 DEF TypeOK
<1>5. \A d \in Clients \ {c} : Agreed(d)'
  BY <1>2, <1>3, OthersAgree DEF BridgeInvariant
<1>6. Agreed(c)'
  <2>1. down[c] = None
    BY <1>1 DEF Agreed, Wired
  <2>2. Wired(c)'
    BY <1>2, <1>3, <2>1 DEF Wired, Gone
  <2>3. Connected(c)'
    BY <1>1, <1>2, <1>3 DEF Agreed, Connected, Gone
  <2>4. Replied(c)'
    BY <1>3, <2>1 DEF Replied
  <2>5. Served(c)'
    BY <1>1, <1>2, <1>3, <2>1 DEF Agreed, Served, Gone
  <2>6. Faulted(c)'
    BY <1>1, <1>2, <1>3 DEF Agreed, Faulted
  <2> QED BY <2>2, <2>3, <2>4, <2>5, <2>6 DEF Agreed
<1> QED BY <1>3, <1>4, <1>5, <1>6 DEF BridgeInvariant

LEMMA CallTypes ==
  ASSUME NEW call \in Calls
  PROVE  /\ call.kind \in {"HANDSHAKE", "RESET", "STEP", "POLL", "COMMAND"}
         /\ call = [kind |-> call.kind, arg |-> call.arg]
         /\ call.kind = "RESET" => call.arg \in BOOLEAN
         /\ call.kind = "STEP" => call.arg \in Nat
         /\ call.kind = "COMMAND" => call.arg \in Commands
BY DEF Calls

LEMMA ResetKeeps ==
  ASSUME BridgeInvariant, NEW c \in Clients, NEW match \in BOOLEAN, Reset(c, match)
  PROVE  BridgeInvariant'
<1>1. [kind |-> "RESET", arg |-> match] \in Calls
  BY DEF Calls
<1> QED BY <1>1, CallKeeps DEF Reset, Ready, BridgeInvariant, TypeOK

LEMMA StepKeeps ==
  ASSUME BridgeInvariant, NEW c \in Clients, Step(c)
  PROVE  BridgeInvariant'
<1>1. client[c].step \in Nat
  BY DEF BridgeInvariant, TypeOK, Adapters
<1>2. [kind |-> "STEP", arg |-> client[c].step] \in Calls
  BY <1>1 DEF Calls
<1> QED BY <1>2, CallKeeps DEF Step, Ready, BridgeInvariant, TypeOK

LEMMA PollKeeps ==
  ASSUME BridgeInvariant, NEW c \in Clients, Poll(c)
  PROVE  BridgeInvariant'
<1>1. [kind |-> "POLL", arg |-> None] \in Calls
  BY DEF Calls
<1> QED BY <1>1, CallKeeps DEF Poll, Ready, BridgeInvariant, TypeOK

LEMMA OfferFacts ==
  ASSUME TypeOK, NEW c \in Clients, NEW i \in Ids, gate' = Offer(c, i)
  PROVE  /\ gate' \in [Clients -> Gates] /\ \A d \in Clients \ {c} : gate'[d] = gate[d]
         /\ gate'[c].seen = gate[c].seen \cup {i} /\ gate'[c].taken = gate[c].taken
         /\ gate'[c].offered = [gate[c].offered EXCEPT ![i] = @ + 1]
<1> DEFINE seen == gate[c].seen \cup {i}
           offered == [gate[c].offered EXCEPT ![i] = @ + 1]
           new == [gate[c] EXCEPT !.seen = seen, !.offered = offered]
<1>1. gate[c] \in Gates /\ gate \in [Clients -> Gates]
  BY DEF TypeOK
<1>2. gate' = [gate EXCEPT ![c] = new]
  BY <1>1 DEF Offer, Gates
<1>3. seen \in SUBSET Ids /\ offered \in [Ids -> Nat]
  BY <1>1 DEF Gates
<1> HIDE DEF seen, offered
<1>4. new \in Gates
  <2>1. [gate[c] EXCEPT !.seen = seen] \in Gates
    BY <1>1, <1>3 DEF Gates
  <2>2. \A g \in Gates : [g EXCEPT !.offered = offered] \in Gates
    BY <1>3 DEF Gates
  <2> QED BY <2>1, <2>2
<1>5. new.seen = seen /\ new.offered = offered /\ new.taken = gate[c].taken
  BY <1>1 DEF Gates
<1> HIDE DEF new
<1> QED BY <1>1, <1>2, <1>4, <1>5 DEF seen, offered

LEMMA SubmitKeeps ==
  ASSUME BridgeInvariant, NEW c \in Clients, NEW i \in Ids, NEW drive \in BOOLEAN, Submit(c, i, drive)
  PROVE  BridgeInvariant'
<1> DEFINE command == [id |-> i, drive |-> drive, issued |-> client[c].time,
                       deadline |-> client[c].time + Lifetime]
<1>1. client[c].time \in Nat /\ Lifetime \in Nat
  BY BridgeAssumption DEF BridgeInvariant, TypeOK, Adapters
<1>2. command \in Commands /\ command.id = i
  BY <1>1 DEF Commands
<1>3. Request(c, "COMMAND", command)
  BY DEF Submit
<1> HIDE DEF command
<1>4. [kind |-> "COMMAND", arg |-> command] \in Calls
  BY <1>2 DEF Calls
<1>5. /\ gate' \in [Clients -> Gates] /\ \A d \in Clients \ {c} : gate'[d] = gate[d]
      /\ i \in gate'[c].seen
  <2>1. TypeOK /\ gate' = Offer(c, i)
    BY DEF Submit, BridgeInvariant
  <2>2. /\ gate' \in [Clients -> Gates] /\ \A d \in Clients \ {c} : gate'[d] = gate[d]
        /\ gate'[c].seen = gate[c].seen \cup {i}
    BY <2>1, OfferFacts
  <2> QED BY <2>2
<1> QED BY <1>2, <1>3, <1>4, <1>5, CallKeeps DEF Submit, Ready

LEMMA PrecheckedKeeps ==
  ASSUME BridgeInvariant, NEW c \in Clients, NEW i \in Ids, SubmitPrechecked(c, i)
  PROVE  BridgeInvariant'
<1>1. /\ gate' \in [Clients -> Gates] /\ \A d \in Clients \ {c} : gate'[d] = gate[d]
      /\ gate'[c].seen = gate[c].seen \cup {i}
  BY OfferFacts DEF SubmitPrechecked, BridgeInvariant
<1>2. UNCHANGED <<lockStep, client, sock, backlog, up, down, stream, player, world>>
  BY DEF SubmitPrechecked, network
<1>3. TypeOK'
  BY <1>1, <1>2 DEF BridgeInvariant, TypeOK
<1>4. \A d \in Clients \ {c} : Agreed(d)'
  BY <1>1, <1>2, OthersAgree DEF BridgeInvariant
<1>5. Agreed(c)'
  BY <1>1, <1>2 DEF BridgeInvariant, Agreed, Wired, Connected, Replied, Served, Faulted, Gone
<1> QED BY <1>2, <1>3, <1>4, <1>5 DEF BridgeInvariant

LEMMA ConnectKeeps ==
  ASSUME BridgeInvariant, NEW c \in Clients, Connect(c)
  PROVE  BridgeInvariant'
<1>1. TypeOK /\ Agreed(c)
  BY DEF BridgeInvariant
<1>2. [kind |-> "HANDSHAKE", arg |-> None] \in Calls
  BY DEF Calls
<1> DEFINE facts ==
      /\ client' \in [Clients -> Adapters] /\ up' \in [Clients -> Requests \cup {None}]
      /\ \A d \in Clients \ {c} : client'[d] = client[d] /\ up'[d] = up[d]
      /\ client'[c].state = client[c].state /\ client'[c].reason = client[c].reason
      /\ client'[c].session = client[c].session /\ client'[c].step = client[c].step
      /\ client'[c].time = client[c].time /\ client'[c].waiting = [kind |-> "HANDSHAKE", arg |-> None]
      /\ up'[c] = [call |-> client'[c].waiting, seq |-> client'[c].seq, session |-> client'[c].session]
      /\ client'[c].waiting # None /\ up'[c] # None
<1>3. facts
  <2>1. Request(c, "HANDSHAKE", None)
    BY DEF Connect
  <2> QED BY <1>1, <1>2, <2>1, RequestFacts
<1>4. /\ client[c].state = "DISCONNECTED" /\ sock[c] = "none"
      /\ sock' = [sock EXCEPT ![c] = "backlog"] /\ backlog' = Append(backlog, c)
      /\ UNCHANGED <<lockStep, gate, down, stream, player, world>>
  BY DEF Connect
<1>5. down[c] = None
  BY <1>1, <1>4 DEF Agreed, Connected, Wired
<1>6. /\ sock' \in [Clients -> {"none", "backlog", "open", "dropped"}] /\ sock'[c] = "backlog"
      /\ \A d \in Clients \ {c} : sock'[d] = sock[d]
  BY <1>1, <1>4 DEF TypeOK
<1>7. TypeOK'
  <2>1. backlog' \in Seq(Clients)
    BY <1>1, <1>4 DEF TypeOK
  <2>2. \A d \in Clients : sock'[d] = "open" <=> d = player'.owner
    BY <1>1, <1>4, <1>6 DEF TypeOK
  <2> QED BY <1>1, <1>3, <1>4, <1>6, <2>1, <2>2 DEF TypeOK
<1>8. \A d \in Clients \ {c} : Agreed(d)'
  BY <1>3, <1>4, <1>6, OthersAgree DEF BridgeInvariant
<1>9. Agreed(c)'
  <2>1. Wired(c)'
    BY <1>1, <1>3, <1>4, <1>5 DEF Agreed, Wired, Gone
  <2>2. (Connected(c) /\ Replied(c) /\ Served(c))'
    BY <1>1, <1>3, <1>4, <1>5, <1>6 DEF Connected, Replied, Served
  <2>3. Faulted(c)'
    BY <1>1, <1>3, <1>4, <1>6 DEF Agreed, Faulted
  <2> QED BY <2>1, <2>2, <2>3 DEF Agreed
<1>10. \A i \in 1..Len(backlog') : sock'[backlog'[i]] = "backlog"
  <2> SUFFICES ASSUME NEW i \in 1..Len(backlog') PROVE sock'[backlog'[i]] = "backlog"
    OBVIOUS
  <2>1. CASE i = Len(backlog) + 1
    BY <1>1, <1>4, <1>6, <2>1 DEF TypeOK
  <2>2. CASE i # Len(backlog) + 1
    <3>1. i \in 1..Len(backlog) /\ backlog'[i] = backlog[i] /\ backlog[i] \in Clients
      BY <1>1, <1>4, <2>2 DEF TypeOK
    <3> QED BY <1>6, <3>1 DEF BridgeInvariant
  <2> QED BY <2>1, <2>2
<1> QED BY <1>4, <1>7, <1>8, <1>9, <1>10 DEF BridgeInvariant

(***************************************************************************)
(* However an adapter comes to fail, it is left with nothing to wait for.  *)
(***************************************************************************)
LEMMA FailKeeps ==
  ASSUME BridgeInvariant, NEW c \in Clients, NEW reason, Fail(c, reason),
         client[c].waiting # None \/ client[c].state = "CONNECTED",
         reason \in {"TIMEOUT", "LOST", "SIMULATOR_FAULTED", "SCENARIO_DIGEST", "FOREIGN_STREAM"},
         reason = "LOST" => sock[c] = "dropped",
         reason = "SIMULATOR_FAULTED" => player.broken,
         UNCHANGED <<lockStep, gate, sock, backlog, up, player, world>>
  PROVE  BridgeInvariant'
<1> reason \in Reasons
  BY DEF Reasons
<1>1. TypeOK /\ Agreed(c)
  BY DEF BridgeInvariant
<1>2. /\ client' \in [Clients -> Adapters] /\ down' \in [Clients -> Replies \cup {None}]
      /\ stream' \in [Clients -> SUBSET (1..player.session)]
      /\ \A d \in Clients \ {c} : client'[d] = client[d] /\ down'[d] = down[d] /\ stream'[d] = stream[d]
      /\ client'[c].state = "FAULTED" /\ client'[c].reason = reason /\ client'[c].waiting = None
      /\ down'[c] = None
  BY <1>1, FailFacts
<1>3. UNCHANGED <<lockStep, gate, sock, backlog, up, player, world>>
  OBVIOUS
<1>4. TypeOK'
  BY <1>1, <1>2, <1>3 DEF TypeOK
<1>5. \A d \in Clients \ {c} : Agreed(d)'
  BY <1>2, <1>3, OthersAgree DEF BridgeInvariant
<1>6. Agreed(c)'
  <2>1. ~Gone(c) /\ sock[c] # "none"
    BY <1>1 DEF Agreed, Wired, Connected, Gone
  <2>2. (Wired(c) /\ Connected(c) /\ Replied(c) /\ Served(c))'
    BY <1>2, <1>3, <2>1 DEF Wired, Connected, Replied, Served, Gone
  <2>3. Faulted(c)'
    BY <1>1, <1>2, <1>3, <2>1 DEF Agreed, Connected, Faulted
  <2> QED BY <2>2, <2>3 DEF Agreed
<1> QED BY <1>3, <1>4, <1>5, <1>6 DEF BridgeInvariant

LEMMA TimeoutKeeps ==
  ASSUME BridgeInvariant, NEW c \in Clients, Timeout(c) \/ Lose(c)
  PROVE  BridgeInvariant'
<1>1. CASE Timeout(c)
  <2>1. /\ Fail(c, "TIMEOUT") /\ client[c].waiting # None
        /\ UNCHANGED <<lockStep, gate, sock, backlog, up, player, world>>
    BY <1>1 DEF Timeout, network
  <2> QED BY <2>1, FailKeeps
<1>2. CASE Lose(c)
  <2>1. /\ Fail(c, "LOST") /\ client[c].waiting # None /\ sock[c] = "dropped"
        /\ UNCHANGED <<lockStep, gate, sock, backlog, up, player, world>>
    BY <1>2 DEF Lose, network
  <2> QED BY <2>1, FailKeeps
<1> QED BY <1>1, <1>2

LEMMA DrainKeeps ==
  ASSUME BridgeInvariant, NEW c \in Clients, Drain(c)
  PROVE  BridgeInvariant'
<1>1. CASE Fail(c, "FOREIGN_STREAM")
  <2>1. /\ Fail(c, "FOREIGN_STREAM") /\ client[c].state = "CONNECTED"
        /\ UNCHANGED <<lockStep, gate, sock, backlog, up, player, world>>
    BY <1>1 DEF Drain, network
  <2> QED BY <2>1, FailKeeps
<1>2. CASE stream' = [stream EXCEPT ![c] = {}] /\ UNCHANGED <<client, down>>
  <2>1. UNCHANGED <<lockStep, client, gate, sock, backlog, up, down, player, world>>
    BY <1>2 DEF Drain, network
  <2>2. TypeOK'
    BY <1>2, <2>1 DEF BridgeInvariant, TypeOK
  <2>3. \A d \in Clients : Agreed(d)'
    BY <2>1, OthersAgree DEF BridgeInvariant
  <2> QED BY <2>1, <2>2, <2>3 DEF BridgeInvariant
<1> QED BY <1>1, <1>2 DEF Drain

LEMMA CloseKeeps ==
  ASSUME BridgeInvariant, NEW c \in Clients, Close(c)
  PROVE  BridgeInvariant'
<1>1. TypeOK /\ Agreed(c) /\ client[c].state = "CONNECTED" /\ client[c].waiting = None
  BY DEF BridgeInvariant, Close
<1> DEFINE me == [NewClient EXCEPT !.state = "CLOSED"]
<1>2. me \in Adapters /\ me.state = "CLOSED" /\ me.reason = None /\ me.waiting = None
  BY DEF NewClient, Adapters
<1> HIDE DEF me
<1>3. /\ client' = [client EXCEPT ![c] = me] /\ stream' = [stream EXCEPT ![c] = {}]
      /\ UNCHANGED <<lockStep, gate, sock, backlog, up, down, player, world>>
  BY DEF Close, network, me
<1>4. TypeOK'
  BY <1>1, <1>2, <1>3 DEF TypeOK
<1>5. \A d \in Clients \ {c} : Agreed(d)'
  BY <1>1, <1>3, OthersAgree DEF BridgeInvariant, TypeOK
<1>6. client'[c] = me /\ down[c] = None /\ up[c] = None /\ sock[c] \notin {"none", "backlog"}
  BY <1>1, <1>3 DEF Agreed, Wired, Connected, Gone, TypeOK
<1>7. Agreed(c)'
  <2>1. (Wired(c) /\ Connected(c) /\ Replied(c) /\ Served(c))'
    BY <1>2, <1>3, <1>6 DEF Wired, Connected, Replied, Served, Gone
  <2>2. Faulted(c)'
    BY <1>2, <1>6, NoneIsApart DEF Faulted, Reasons
  <2> QED BY <2>1, <2>2 DEF Agreed
<1> QED BY <1>3, <1>4, <1>5, <1>7 DEF BridgeInvariant

(***************************************************************************)
(* A reply that passes for the answer has no problem; an error has its own.*)
(***************************************************************************)
LEMMA ProblemsFacts ==
  ASSUME BridgeInvariant, NEW c \in Clients, client[c].waiting # None, down[c] # None
  PROVE  Problems(c, down[c]) = IF down[c].body.kind = "ERROR" THEN {down[c].body.arg} ELSE {}
<1>1. CASE down[c].body.kind = "ERROR"
  BY <1>1 DEF Problems
<1>2. CASE down[c].body.kind # "ERROR"
  <2> DEFINE r == down[c]
             me == client[c]
             asked == me.waiting.kind
  <2>1. Agreed(c) /\ me \in Adapters /\ r \in Replies /\ me.waiting \in Calls
    BY DEF BridgeInvariant, TypeOK, Adapters
  <2>2. asked \in {"HANDSHAKE", "RESET", "STEP", "POLL", "COMMAND"}
    BY <2>1, CallTypes
  <2>3. r.body.kind = Answers[asked] /\ r.seq = me.seq
    BY <1>2, <2>1 DEF Agreed, Replied
  <2>4. ~(me.session # 0 /\ r.session # me.session)
    BY <1>2, <2>1 DEF Agreed, Replied, Wired
  <2>5. ~(asked = "STEP" /\ r.body.arg # me.step)
    BY <1>2, <2>1 DEF Agreed, Replied
  <2>6. ~(asked \in {"STEP", "POLL"} /\ r.time < me.time)
    <3>1. r.time \in Nat /\ me.time \in Nat
      BY <2>1 DEF Adapters, Replies
    <3> QED BY <1>2, <2>1, <3>1 DEF Agreed, Replied
  <2> DEFINE checks == [KIND |-> r.body.kind # Answers[asked], SEQ |-> r.seq # me.seq,
                        SESSION |-> me.session # 0 /\ r.session # me.session,
                        STEP_INDEX |-> asked = "STEP" /\ r.body.arg # me.step,
                        TIME |-> asked \in {"STEP", "POLL"} /\ r.time < me.time]
  <2>7. Problems(c, r) = {p \in DOMAIN checks : checks[p]}
    BY <1>2 DEF Problems
  <2>8. checks = [KIND |-> FALSE, SEQ |-> FALSE, SESSION |-> FALSE, STEP_INDEX |-> FALSE, TIME |-> FALSE]
    BY <2>3, <2>4, <2>5, <2>6
  <2>9. \A p \in DOMAIN checks : ~checks[p]
    BY <2>8
  <2> HIDE DEF checks
  <2> QED BY <1>2, <2>7, <2>9
<1> QED BY <1>1, <1>2

LEMMA AcceptedFacts ==
  ASSUME TypeOK, NEW c \in Clients, client[c].waiting # None, NEW r \in Replies
  PROVE  LET me == client[c]
             asked == me.waiting.kind
             new == Accepted(c, r)
         IN /\ new \in Adapters
            /\ new.waiting = None /\ new.reason = me.reason /\ new.seq = me.seq
            /\ new.state = IF asked = "HANDSHAKE" THEN "CONNECTED" ELSE me.state
            /\ new.session = IF asked = "HANDSHAKE" THEN r.session ELSE me.session
            /\ new.step = CASE asked = "RESET" -> 0 [] asked = "STEP" -> me.step + 1 [] OTHER -> me.step
            /\ new.time = IF asked \in {"HANDSHAKE", "RESET", "STEP"} \/ r.time > me.time
                            THEN r.time ELSE me.time
<1> DEFINE me == client[c]
           asked == me.waiting.kind
           idle == [me EXCEPT !.waiting = None]
<1>1. me \in Adapters /\ r.time \in Nat /\ r.session \in Nat
  BY DEF TypeOK, Replies
<1>2. /\ idle \in Adapters /\ idle.waiting = None /\ idle.reason = me.reason /\ idle.seq = me.seq
      /\ idle.state = me.state /\ idle.session = me.session /\ idle.step = me.step /\ idle.time = me.time
  BY <1>1 DEF Adapters
<1>3. /\ asked = "HANDSHAKE" => Accepted(c, r) = [idle EXCEPT !.state = "CONNECTED", !.session = r.session, !.time = r.time]
      /\ asked = "RESET" => Accepted(c, r) = [idle EXCEPT !.step = 0, !.time = r.time]
      /\ asked = "STEP" => Accepted(c, r) = [idle EXCEPT !.step = @ + 1, !.time = r.time]
      /\ asked \notin {"HANDSHAKE", "RESET", "STEP"} =>
           Accepted(c, r) = [idle EXCEPT !.time = IF r.time > @ THEN r.time ELSE @]
  BY DEF Accepted
<1> HIDE DEF idle
<1>4. \A a \in Adapters : [a EXCEPT !.time = r.time] \in Adapters
  BY <1>1 DEF Adapters
<1>5. CASE asked = "HANDSHAKE"
  <2>1. [idle EXCEPT !.state = "CONNECTED"] \in Adapters
    BY <1>2 DEF Adapters
  <2>2. \A a \in Adapters : [a EXCEPT !.session = r.session] \in Adapters
    BY <1>1 DEF Adapters
  <2>3. [idle EXCEPT !.state = "CONNECTED", !.session = r.session] \in Adapters
    BY <2>1, <2>2
  <2>4. Accepted(c, r) \in Adapters
    BY <1>3, <1>4, <1>5, <2>3
  <2> QED BY <1>2, <1>3, <1>5, <2>4 DEF Adapters
<1>6. CASE asked = "RESET"
  <2>1. [idle EXCEPT !.step = 0] \in Adapters
    BY <1>2 DEF Adapters
  <2>2. Accepted(c, r) \in Adapters
    BY <1>3, <1>4, <1>6, <2>1
  <2> QED BY <1>2, <1>3, <1>6, <2>2 DEF Adapters
<1>7. CASE asked = "STEP"
  <2>1. [idle EXCEPT !.step = @ + 1] \in Adapters
    BY <1>2 DEF Adapters
  <2>2. Accepted(c, r) \in Adapters
    BY <1>3, <1>4, <1>7, <2>1
  <2>3. /\ Accepted(c, r).waiting = None /\ Accepted(c, r).reason = me.reason
        /\ Accepted(c, r).seq = me.seq /\ Accepted(c, r).state = me.state
        /\ Accepted(c, r).session = me.session
    BY <1>2, <1>3, <1>7 DEF Adapters
  <2> DEFINE next == [idle EXCEPT !.step = idle.step + 1]
  <2>4. next.step = me.step + 1 /\ DOMAIN next = DOMAIN idle /\ next \in Adapters
    BY <1>2, <2>1 DEF Adapters
  <2>5. Accepted(c, r) = [next EXCEPT !.time = r.time]
    BY <1>3, <1>7
  <2> HIDE DEF next
  <2>6. Accepted(c, r).step = me.step + 1 /\ Accepted(c, r).time = r.time
    BY <2>4, <2>5 DEF Adapters
  <2> QED BY <1>7, <2>2, <2>3, <2>6
<1>8. CASE asked \notin {"HANDSHAKE", "RESET", "STEP"}
  <2>1. idle.time \in Nat
    BY <1>2 DEF Adapters
  <2>2. [idle EXCEPT !.time = IF r.time > @ THEN r.time ELSE @] \in Adapters
    BY <1>1, <1>2, <2>1 DEF Adapters
  <2> QED BY <1>2, <1>3, <1>8, <2>2 DEF Adapters
<1> QED BY <1>5, <1>6, <1>7, <1>8

LEMMA ReceiveKeeps ==
  ASSUME BridgeInvariant, NEW c \in Clients, Receive(c)
  PROVE  BridgeInvariant'
<1> DEFINE r == down[c]
           me == client[c]
           asked == me.waiting.kind
<1>1. /\ TypeOK /\ Agreed(c) /\ me.waiting # None /\ r # None
      /\ UNCHANGED <<lockStep, sock, backlog, up, player, world>>
  BY DEF BridgeInvariant, Receive, network
<1>2. r \in Replies /\ me \in Adapters /\ me.waiting \in Calls
  BY <1>1 DEF TypeOK, Adapters
<1>3. CASE r.body.kind = "ERROR"
  <2>1. r.body.arg \in {"SIMULATOR_FAULTED", "SCENARIO_DIGEST"} /\ (r.body.arg = "SIMULATOR_FAULTED" => player.broken)
    BY <1>1, <1>3 DEF Agreed, Replied
  <2>2. Problems(c, r) = {r.body.arg}
    BY <1>1, <1>3, ProblemsFacts
  <2>3. Fail(c, r.body.arg) /\ gate' = gate
    BY <2>2 DEF Receive
  <2> HIDE DEF r
  <2> QED BY <1>1, <2>1, <2>3, FailKeeps
<1>4. CASE r.body.kind # "ERROR"
  <2>1. Problems(c, r) = {}
    BY <1>1, <1>4, ProblemsFacts
  <2>2. /\ client' = [client EXCEPT ![c] = Accepted(c, r)] /\ down' = [down EXCEPT ![c] = None] /\ stream' = stream
        /\ gate' = IF asked = "COMMAND" /\ r.body.arg THEN [gate EXCEPT ![c].taken = @ \cup {me.waiting.arg.id}] ELSE gate
    BY <2>1 DEF Receive
  <2> DEFINE new == Accepted(c, r)
  <2>3. /\ new \in Adapters
        /\ new.waiting = None /\ new.reason = me.reason /\ new.seq = me.seq
        /\ new.state = IF asked = "HANDSHAKE" THEN "CONNECTED" ELSE me.state
        /\ new.session = IF asked = "HANDSHAKE" THEN r.session ELSE me.session
        /\ new.step = CASE asked = "RESET" -> 0 [] asked = "STEP" -> me.step + 1 [] OTHER -> me.step
        /\ new.time = IF asked \in {"HANDSHAKE", "RESET", "STEP"} \/ r.time > me.time THEN r.time ELSE me.time
    BY <1>1, <1>2, AcceptedFacts
  <2> HIDE DEF new
  <2>4. /\ client' \in [Clients -> Adapters] /\ client'[c] = new /\ down'[c] = None
        /\ down' \in [Clients -> Replies \cup {None}]
        /\ \A d \in Clients \ {c} : client'[d] = client[d] /\ down'[d] = down[d]
    BY <1>1, <2>2, <2>3 DEF TypeOK, new
  <2>5. /\ gate' \in [Clients -> Gates] /\ \A d \in Clients \ {c} : gate'[d] = gate[d]
        /\ gate'[c].seen = gate[c].seen
    <3>1. CASE asked = "COMMAND"
      <4>1. me.waiting.arg.id \in Ids
        BY <1>2, <3>1, CallTypes DEF Commands
      <4> DEFINE g == [gate[c] EXCEPT !.taken = @ \cup {me.waiting.arg.id}]
      <4>2. gate[c] \in Gates /\ gate \in [Clients -> Gates]
        BY <1>1 DEF TypeOK
      <4>3. g \in Gates /\ g.seen = gate[c].seen
        BY <4>1, <4>2 DEF Gates
      <4>4. gate' = [gate EXCEPT ![c] = g] \/ gate' = gate
        BY <2>2
      <4> HIDE DEF g
      <4> QED BY <4>2, <4>3, <4>4
    <3>2. CASE asked # "COMMAND"
      BY <1>1, <2>2, <3>2 DEF TypeOK
    <3> QED BY <3>1, <3>2
  <2>6. TypeOK'
    BY <1>1, <2>2, <2>4, <2>5 DEF TypeOK
  <2>7. \A d \in Clients \ {c} : Agreed(d)'
    BY <1>1, <2>4, <2>5, OthersAgree DEF BridgeInvariant
  <2>8. new.state = "CONNECTED" /\ up[c] = None
    BY <1>1, <1>2, <2>3 DEF Agreed, Wired, Gone, Adapters
  <2>9. (Wired(c) /\ Connected(c) /\ Replied(c))'
    BY <1>1, <2>3, <2>4, <2>8 DEF Agreed, Wired, Connected, Replied, Gone
  <2>10. Served(c)'
    <3> SUFFICES ASSUME c = player.owner
                 PROVE  /\ new.session = player.session /\ new.session # 0
                        /\ ~player.broken =>
                             /\ new.time <= world.now
                             /\ lockStep => new.step = player.expected /\ new.time = world.now
      BY <1>1, <2>4 DEF Served
    <3>1. ~Gone(c) /\ (asked = "HANDSHAKE" <=> me.state = "DISCONNECTED") /\ (asked # "HANDSHAKE" => me.state = "CONNECTED")
      BY <1>1, <1>2 DEF Agreed, Wired, Gone, Adapters
    <3>2. /\ IF asked = "HANDSHAKE" THEN r.session # 0 ELSE r.session = me.session
          /\ asked # "RESET" => r.time >= me.time
      BY <1>1, <1>4 DEF Agreed, Replied
    <3>3. new.session = player.session /\ new.session # 0
      BY <1>1, <1>4, <2>3, <3>1, <3>2 DEF Agreed, Served
    <3>4. new.time = r.time
      <4>1. r.time \in Nat /\ me.time \in Nat
        BY <1>2 DEF Replies, Adapters
      <4> QED BY <2>3, <3>2, <4>1
    <3>5. ~player.broken => r.time <= world.now /\ (lockStep => r.time = world.now)
      BY <1>1, <1>4, <3>1 DEF Agreed, Served
    <3>6. ~player.broken /\ lockStep => new.step = player.expected
      <4>1. asked = "HANDSHAKE" => me.step = 0
        BY <1>1, <3>1 DEF Agreed, Wired
      <4> QED BY <1>1, <1>4, <2>3, <3>1, <4>1 DEF Agreed, Served
    <3> QED BY <3>3, <3>4, <3>5, <3>6
  <2>11. Faulted(c)'
    BY <1>1, <2>3, <2>4 DEF Agreed, Faulted
  <2> QED BY <1>1, <2>6, <2>7, <2>9, <2>10, <2>11 DEF BridgeInvariant, Agreed
<1> QED BY <1>3, <1>4

-----------------------------------------------------------------------------
(***************************************************************************)
(* What happens to the world.                                              *)
(***************************************************************************)
LEMMA NewWorldFacts == NewWorld \in Worlds /\ NewWorld.now = 0 /\ WorldOK(NewWorld)
BY DEF NewWorld, Worlds, WorldOK

\* A step ends the thrust whose deadline has come.
LEMMA StepOnceFacts ==
  ASSUME NEW w \in Worlds, WorldOK(w)
  PROVE  StepOnce(w) \in Worlds /\ StepOnce(w).now = w.now + 1 /\ WorldOK(StepOnce(w))
<1> DEFINE watched == IF Expired(w) THEN [w EXCEPT !.thrust = FALSE, !.deadline = None] ELSE w
<1>1. /\ watched \in Worlds /\ watched.now = w.now /\ watched.known = w.known /\ watched.applied = w.applied
      /\ watched.thrust => w.thrust /\ ~Expired(w) /\ watched.deadline = w.deadline
  <2>1. [w EXCEPT !.thrust = FALSE] \in Worlds
    BY DEF Worlds
  <2>2. \A v \in Worlds : [v EXCEPT !.deadline = None] \in Worlds
    BY DEF Worlds
  <2>3. [w EXCEPT !.thrust = FALSE, !.deadline = None] \in Worlds
    BY <2>1, <2>2
  <2> QED BY <2>3 DEF Worlds
<1>2. StepOnce(w) = [watched EXCEPT !.now = @ + 1]
  BY DEF StepOnce
<1> HIDE DEF watched
<1>3. /\ StepOnce(w) \in Worlds /\ StepOnce(w).now = w.now + 1 /\ StepOnce(w).known = w.known
      /\ StepOnce(w).applied = w.applied /\ StepOnce(w).deadline = watched.deadline
      /\ StepOnce(w).thrust = watched.thrust
  BY <1>1, <1>2 DEF Worlds
<1>4. watched.thrust => w.deadline \in Nat /\ w.now \in Nat /\ w.now + 1 <= w.deadline
  BY <1>1, NoneIsApart DEF WorldOK, Worlds, Expired
<1> QED BY <1>1, <1>3, <1>4 DEF WorldOK

\* An admitted command is new to the world, and its deadline is ahead.
LEMMA ApplyFacts ==
  ASSUME NEW w \in Worlds, WorldOK(w), NEW command \in Commands, NEW admissible,
         Admits(w, command, admissible)
  PROVE  Apply(w, command) \in Worlds /\ Apply(w, command).now = w.now /\ WorldOK(Apply(w, command))
<1> DEFINE known == w.known \cup {command.id}
           applied == [w.applied EXCEPT ![command.id] = @ + 1]
           new == Apply(w, command)
<1>1. /\ command.id \in Ids /\ command.deadline \in Nat /\ command.drive \in BOOLEAN
      /\ w.known \subseteq Ids /\ w.applied \in [Ids -> Nat] /\ w.now \in Nat
  BY DEF Commands, Worlds
<1>2. /\ known \in SUBSET Ids /\ applied \in [Ids -> Nat]
      /\ \A i \in Ids : applied[i] = IF i \in known THEN 1 ELSE 0
  BY <1>1 DEF WorldOK, Admits
<1>3. new = [w EXCEPT !.known = known, !.deadline = command.deadline, !.thrust = command.drive, !.applied = applied]
  BY DEF Apply, Worlds
<1> HIDE DEF known, applied, new
<1>4. new \in Worlds
  <2>1. [w EXCEPT !.known = known] \in Worlds
    BY <1>2 DEF Worlds
  <2>2. \A v \in Worlds : [v EXCEPT !.deadline = command.deadline] \in Worlds
    BY <1>1 DEF Worlds
  <2>3. [w EXCEPT !.known = known, !.deadline = command.deadline] \in Worlds
    BY <2>1, <2>2
  <2>4. \A v \in Worlds : [v EXCEPT !.thrust = command.drive] \in Worlds
    BY <1>1 DEF Worlds
  <2>5. [w EXCEPT !.known = known, !.deadline = command.deadline, !.thrust = command.drive] \in Worlds
    BY <2>3, <2>4
  <2>6. \A v \in Worlds : [v EXCEPT !.applied = applied] \in Worlds
    BY <1>2 DEF Worlds
  <2> QED BY <1>3, <2>5, <2>6
<1>5. /\ new.known = known /\ new.applied = applied /\ new.now = w.now
      /\ new.deadline = command.deadline /\ new.thrust = command.drive
  BY <1>3 DEF Worlds
<1>6. command.deadline # None /\ w.now <= command.deadline
  BY <1>1, NoneIsApart DEF Admits
<1>7. WorldOK(new)
  BY <1>2, <1>5, <1>6 DEF WorldOK
<1> QED BY <1>4, <1>5, <1>7 DEF new

-----------------------------------------------------------------------------
(***************************************************************************)
(* The player's steps.                                                     *)
(***************************************************************************)
LEMMA AnswerFacts ==
  ASSUME TypeOK, NEW c \in Clients, c = player.owner, up[c] # None, NEW kind, NEW arg,
         [kind |-> kind, arg |-> arg] \in Bodies, Answer(kind, arg),
         player'.session \in Nat, world'.now \in Nat
  PROVE  /\ up' \in [Clients -> Requests \cup {None}] /\ down' \in [Clients -> Replies \cup {None}]
         /\ \A d \in Clients \ {c} : up'[d] = up[d] /\ down'[d] = down[d]
         /\ up'[c] = None
         /\ Gone(c) => down'[c] = None
         /\ ~Gone(c) => /\ down'[c] = [body |-> [kind |-> kind, arg |-> arg],
                                       seq |-> IF player'.broken THEN 0 ELSE up[c].seq,
                                       session |-> player'.session, time |-> world'.now]
                        /\ down'[c] # None
<1> DEFINE body == [kind |-> kind, arg |-> arg]
           reply == [body |-> body, seq |-> IF player'.broken THEN 0 ELSE up[c].seq,
                     session |-> player'.session, time |-> world'.now]
<1>1. up[c] \in Requests /\ up \in [Clients -> Requests \cup {None}] /\ down \in [Clients -> Replies \cup {None}]
  BY DEF TypeOK
<1>2. body \in Bodies
  OBVIOUS
<1> HIDE DEF body
<1>3. reply \in Replies
  BY <1>1, <1>2 DEF Requests, Replies
<1>4. up' = [up EXCEPT ![c] = None] /\ down' = [down EXCEPT ![c] = IF Gone(c) THEN None ELSE reply]
  BY DEF Answer, body
<1>5. reply # None
  BY <1>3, NoneIsApart
<1> HIDE DEF reply
<1>6. (~Gone(c) => down'[c] = reply) /\ (Gone(c) => down'[c] = None) /\ up'[c] = None
  BY <1>1, <1>4
<1>7. /\ up' \in [Clients -> Requests \cup {None}] /\ down' \in [Clients -> Replies \cup {None}]
      /\ \A d \in Clients \ {c} : up'[d] = up[d] /\ down'[d] = down[d]
  BY <1>1, <1>3, <1>4
<1> QED BY <1>5, <1>6, <1>7 DEF reply, body

(***************************************************************************)
(* The owner's request in an invariant state: a client that has not given  *)
(* up asks in the session of the player and, once it has shaken hands,     *)
(* knows where the player is.                                              *)
(***************************************************************************)
LEMMA OwnersRequest ==
  ASSUME BridgeInvariant, NEW kinds, Serving(kinds), NEW c, c = player.owner
  PROVE  /\ c \in Clients /\ up[c] \in Requests /\ up[c] # None /\ Asked \in Calls /\ Asked.kind \in kinds
         /\ sock[c] = "open"
         /\ ~Gone(c) =>
              /\ down[c] = None /\ client[c].waiting = Asked /\ up[c].seq = client[c].seq
              /\ client[c].state = IF Asked.kind = "HANDSHAKE" THEN "DISCONNECTED" ELSE "CONNECTED"
              /\ Asked.kind # "HANDSHAKE" => InSession /\ client[c].session = player.session
              /\ ~player.broken /\ Asked.kind # "HANDSHAKE" =>
                   /\ client[c].time <= world.now
                   /\ lockStep => client[c].step = player.expected /\ client[c].time = world.now
              /\ Asked.kind = "STEP" => lockStep /\ Asked.arg = client[c].step
              /\ Asked.kind = "HANDSHAKE" => client[c].step = 0 /\ client[c].time = 0 /\ client[c].session = 0
<1>1. c \in Clients /\ up[c] # None /\ Asked = up[c].call /\ Asked.kind \in kinds
  BY DEF BridgeInvariant, TypeOK, Serving, Asked
<1>2. Agreed(c) /\ up[c] \in Requests /\ client[c] \in Adapters /\ sock[c] = "open"
  BY <1>1 DEF BridgeInvariant, TypeOK
<1>3. Asked \in Calls
  BY <1>1, <1>2 DEF Requests
<1>4. ASSUME ~Gone(c)
      PROVE  /\ down[c] = None /\ client[c].waiting # None
             /\ up[c] = [call |-> client[c].waiting, seq |-> client[c].seq, session |-> client[c].session]
  BY <1>1, <1>2, <1>4 DEF Agreed, Wired
<1>5. ASSUME ~Gone(c)
      PROVE  client[c].waiting = Asked /\ up[c].seq = client[c].seq /\ up[c].session = client[c].session
  BY <1>1, <1>4, <1>5
<1>6. ASSUME ~Gone(c)
      PROVE  /\ client[c].state = IF Asked.kind = "HANDSHAKE" THEN "DISCONNECTED" ELSE "CONNECTED"
             /\ Asked.kind = "STEP" => lockStep /\ Asked.arg = client[c].step
             /\ Asked.kind = "HANDSHAKE" => client[c].step = 0 /\ client[c].time = 0 /\ client[c].session = 0
  BY <1>2, <1>4, <1>5, <1>6 DEF Agreed, Wired, Gone, Adapters
<1>7. ASSUME ~Gone(c), Asked.kind # "HANDSHAKE"
      PROVE  /\ InSession /\ client[c].session = player.session
             /\ ~player.broken => /\ client[c].time <= world.now
                                  /\ lockStep => client[c].step = player.expected /\ client[c].time = world.now
  BY <1>2, <1>4, <1>5, <1>6, <1>7 DEF Agreed, Served, InSession
<1> QED BY <1>1, <1>2, <1>3, <1>4, <1>5, <1>6, <1>7

(***************************************************************************)
(* A request of the owner is answered: with an error that the adapter      *)
(* expects, or with the reply to it.                                       *)
(***************************************************************************)
LEMMA ServeKeeps ==
  ASSUME BridgeInvariant, NEW kinds, Serving(kinds), NEW kind, NEW arg,
         [kind |-> kind, arg |-> arg] \in Bodies, Answer(kind, arg),
         world' \in Worlds, WorldOK(world'),
         player' \in [owner : Clients \cup {None}, session : Nat, expected : Nat, broken : BOOLEAN],
         player'.owner = player.owner, player'.session >= player.session, player.broken => player'.broken,
         NEW c, c = player.owner,
         ~Gone(c) /\ kind = "ERROR" =>
           /\ arg \in {"SIMULATOR_FAULTED", "SCENARIO_DIGEST"}
           /\ arg = "SIMULATOR_FAULTED" => player'.broken
           /\ arg = "SCENARIO_DIGEST" => ~player'.broken
           /\ player'.session = player.session,
         ~Gone(c) /\ kind # "ERROR" =>
           /\ kind = Answers[Asked.kind] /\ ~player'.broken
           /\ IF Asked.kind = "HANDSHAKE" THEN player'.session # 0 ELSE player'.session = player.session
           /\ Asked.kind = "STEP" => arg = client[c].step
           /\ Asked.kind # "RESET" => world'.now >= client[c].time
           /\ lockStep => player'.expected = CASE Asked.kind \in {"HANDSHAKE", "RESET"} -> 0
                                               [] Asked.kind = "STEP" -> client[c].step + 1
                                               [] OTHER -> client[c].step
  PROVE  BridgeInvariant'
<1>1. /\ TypeOK /\ c \in Clients /\ Agreed(c)
      /\ UNCHANGED <<lockStep, client, gate, sock, backlog, stream>>
  BY OwnersRequest DEF BridgeInvariant, Serving, network
<1>2. /\ up[c] # None /\ sock[c] = "open"
      /\ ~Gone(c) =>
           /\ client[c].waiting = Asked /\ client[c].waiting # None /\ up[c].seq = client[c].seq
           /\ client[c].state = IF Asked.kind = "HANDSHAKE" THEN "DISCONNECTED" ELSE "CONNECTED"
           /\ Asked.kind # "HANDSHAKE" => client[c].session = player.session /\ player.session # 0
  BY OwnersRequest, NoneIsApart DEF InSession
<1> DEFINE body == [kind |-> kind, arg |-> arg]
           reply == [body |-> body, seq |-> IF player'.broken THEN 0 ELSE up[c].seq,
                     session |-> player'.session, time |-> world'.now]
<1>3. /\ up' \in [Clients -> Requests \cup {None}] /\ down' \in [Clients -> Replies \cup {None}]
      /\ \A d \in Clients \ {c} : up'[d] = up[d] /\ down'[d] = down[d]
      /\ up'[c] = None
      /\ Gone(c) => down'[c] = None
      /\ ~Gone(c) => down'[c] = reply /\ down'[c] # None
  BY <1>1, <1>2, AnswerFacts DEF Worlds
<1>4. ~Gone(c) => /\ down'[c].body.kind = kind /\ down'[c].body.arg = arg
                  /\ down'[c].seq = IF player'.broken THEN 0 ELSE up[c].seq
                  /\ down'[c].session = player'.session /\ down'[c].time = world'.now
  BY <1>3
<1> HIDE DEF reply
<1>5. TypeOK'
  <2>1. stream' \in [Clients -> SUBSET (1..player'.session)]
    BY <1>1 DEF TypeOK
  <2> QED BY <1>1, <1>3, <2>1 DEF TypeOK
<1>6. \A d \in Clients \ {c} : Agreed(d)'
  BY <1>1, <1>3, OthersAgree DEF BridgeInvariant
<1>7. Agreed(c)'
  <2>1. (Wired(c) /\ Connected(c))'
    BY <1>1, <1>2, <1>3 DEF Agreed, Wired, Connected, Gone
  <2>2. Replied(c)'
    BY <1>1, <1>2, <1>3, <1>4 DEF Replied
  <2>3. Served(c)'
    <3>1. client[c].state = "CONNECTED" => client[c].session = player'.session /\ client[c].session # 0
      BY <1>2 DEF Gone
    <3>2. client[c].state = "CONNECTED" => down'[c] # None
      BY <1>3 DEF Gone
    <3>3. ~Gone(c) /\ kind # "ERROR" /\ lockStep =>
            player'.expected = CASE client[c].waiting.kind \in {"HANDSHAKE", "RESET"} -> 0
                                 [] client[c].waiting.kind = "STEP" -> client[c].step + 1
                                 [] OTHER -> client[c].step
      BY <1>2
    <3>4. world'.now <= world'.now
      BY DEF Worlds
    <3> QED BY <1>1, <1>4, <3>1, <3>2, <3>3, <3>4 DEF Served, Gone
  <2>4. Faulted(c)'
    BY <1>1 DEF Agreed, Faulted
  <2> QED BY <2>1, <2>2, <2>3, <2>4 DEF Agreed
<1> QED BY <1>1, <1>5, <1>6, <1>7 DEF BridgeInvariant

LEMMA ServeHandshakeKeeps ==
  ASSUME BridgeInvariant, ServeHandshake PROVE BridgeInvariant'
<1> DEFINE c == player.owner
<1>1. /\ Serving({"HANDSHAKE"}) /\ ~player.broken /\ Answer("HANDSHAKE_ACK", None) /\ world' = world
      /\ player' = [player EXCEPT !.session = @ + 1, !.expected = 0]
  BY DEF ServeHandshake
<1>2. /\ player \in [owner : Clients \cup {None}, session : Nat, expected : Nat, broken : BOOLEAN]
      /\ world \in Worlds /\ WorldOK(world)
  BY DEF BridgeInvariant, TypeOK
<1>3. /\ player' \in [owner : Clients \cup {None}, session : Nat, expected : Nat, broken : BOOLEAN]
      /\ player'.owner = player.owner /\ player'.session = player.session + 1 /\ player'.expected = 0
      /\ player'.broken = player.broken
  <2> DEFINE next == [player EXCEPT !.session = @ + 1]
  <2>1. /\ next \in [owner : Clients \cup {None}, session : Nat, expected : Nat, broken : BOOLEAN]
        /\ next.owner = player.owner /\ next.session = player.session + 1 /\ next.broken = player.broken
    BY <1>2
  <2>2. player' = [next EXCEPT !.expected = 0]
    BY <1>1
  <2> HIDE DEF next
  <2> QED BY <2>1, <2>2
<1>4. [kind |-> "HANDSHAKE_ACK", arg |-> None] \in Bodies
  BY DEF Bodies
<1>5. Asked.kind = "HANDSHAKE" /\ (~Gone(c) => client[c].time = 0)
  BY <1>1, OwnersRequest
<1>6. /\ player'.session # 0 /\ player'.session >= player.session /\ world.now >= 0
  BY <1>2, <1>3 DEF Worlds
<1> QED BY <1>1, <1>2, <1>3, <1>4, <1>5, <1>6, ServeKeeps DEF Answers

\* A request outside of the session is one of a client that has gone.
LEMMA RefusedKeeps ==
  ASSUME BridgeInvariant, NEW kinds, Serving(kinds), "HANDSHAKE" \notin kinds, ~InSession,
         UNCHANGED <<player, world>>, Answer("ERROR", "NO_SESSION")
  PROVE  BridgeInvariant'
<1> DEFINE c == player.owner
<1>1. Gone(c)
  BY OwnersRequest
<1>2. [kind |-> "ERROR", arg |-> "NO_SESSION"] \in Bodies
  BY DEF Bodies, Reasons
<1>3. /\ player \in [owner : Clients \cup {None}, session : Nat, expected : Nat, broken : BOOLEAN]
      /\ world \in Worlds /\ WorldOK(world)
  BY DEF BridgeInvariant, TypeOK
<1>4. player.session >= player.session
  BY <1>3
<1> QED BY <1>1, <1>2, <1>3, <1>4, ServeKeeps

LEMMA ServeResetKeeps ==
  ASSUME BridgeInvariant, ServeReset PROVE BridgeInvariant'
<1> DEFINE c == player.owner
<1>1. Serving({"RESET"}) /\ ~player.broken
  BY DEF ServeReset
<1>2. /\ player \in [owner : Clients \cup {None}, session : Nat, expected : Nat, broken : BOOLEAN]
      /\ player.session >= player.session
  BY DEF BridgeInvariant, TypeOK
<1>3. Asked.kind = "RESET" /\ (~Gone(c) => client[c].session = player.session)
  BY <1>1, OwnersRequest
<1>4. CASE ~InSession
  BY <1>1, <1>4, RefusedKeeps DEF ServeReset, InSessionOnly
<1>5. CASE InSession /\ Asked.arg
  <2>1. /\ world' = NewWorld /\ player' = [player EXCEPT !.expected = 0] /\ Answer("RESET_ACK", None)
    BY <1>5 DEF ServeReset, InSessionOnly
  <2>2. /\ player' \in [owner : Clients \cup {None}, session : Nat, expected : Nat, broken : BOOLEAN]
        /\ player'.owner = player.owner /\ player'.session = player.session /\ player'.expected = 0
        /\ player'.broken = player.broken
    BY <1>2, <2>1
  <2>3. [kind |-> "RESET_ACK", arg |-> None] \in Bodies
    BY DEF Bodies
  <2> QED BY <1>1, <1>2, <1>3, <2>1, <2>2, <2>3, NewWorldFacts, ServeKeeps DEF Answers
<1>6. CASE InSession /\ ~Asked.arg
  <2>1. world' = NewWorld /\ player' = player /\ Answer("ERROR", "SCENARIO_DIGEST")
    BY <1>6 DEF ServeReset, InSessionOnly
  <2>2. [kind |-> "ERROR", arg |-> "SCENARIO_DIGEST"] \in Bodies
    BY DEF Bodies, Reasons
  <2> QED BY <1>1, <1>2, <2>1, <2>2, NewWorldFacts, ServeKeeps
<1> QED BY <1>4, <1>5, <1>6

LEMMA ServeStepKeeps ==
  ASSUME BridgeInvariant, ServeStep PROVE BridgeInvariant'
<1> DEFINE c == player.owner
<1>1. Serving({"STEP"}) /\ ~player.broken
  BY DEF ServeStep
<1>2. /\ player \in [owner : Clients \cup {None}, session : Nat, expected : Nat, broken : BOOLEAN]
      /\ player.session >= player.session /\ world \in Worlds /\ WorldOK(world)
  BY DEF BridgeInvariant, TypeOK
<1>3. /\ Asked.kind = "STEP" /\ c \in Clients /\ Asked \in Calls
      /\ ~Gone(c) => /\ client[c].session = player.session /\ Asked.arg = client[c].step /\ lockStep
                     /\ client[c].step = player.expected /\ client[c].time <= world.now
  BY <1>1, OwnersRequest
<1>4. CASE ~InSession
  BY <1>1, <1>4, RefusedKeeps DEF ServeStep, InSessionOnly
<1>5. CASE InSession /\ Asked.arg # player.expected
  <2>1. UNCHANGED <<player, world>> /\ Answer("ERROR", "STEP_INDEX")
    BY <1>5 DEF ServeStep, InSessionOnly
  <2>2. [kind |-> "ERROR", arg |-> "STEP_INDEX"] \in Bodies
    BY DEF Bodies, Reasons
  <2>3. Gone(c)
    BY <1>3, <1>5
  <2> QED BY <1>1, <1>2, <2>1, <2>2, <2>3, ServeKeeps
<1>6. CASE InSession /\ Asked.arg = player.expected
  <2>1. /\ world' = StepOnce(world) /\ player' = [player EXCEPT !.expected = @ + 1]
        /\ Answer("STATE", Asked.arg)
    BY <1>6 DEF ServeStep, InSessionOnly
  <2>2. /\ player' \in [owner : Clients \cup {None}, session : Nat, expected : Nat, broken : BOOLEAN]
        /\ player'.owner = player.owner /\ player'.session = player.session
        /\ player'.expected = player.expected + 1 /\ player'.broken = player.broken
    BY <1>2, <2>1
  <2>3. [kind |-> "STATE", arg |-> Asked.arg] \in Bodies
    <3>1. Asked.arg \in Nat
      BY <1>3, CallTypes
    <3> QED BY <3>1 DEF Bodies
  <2>4. world' \in Worlds /\ WorldOK(world') /\ world'.now = world.now + 1
    BY <1>2, <2>1, StepOnceFacts
  <2>5. ~Gone(c) => world'.now >= client[c].time
    BY <1>2, <1>3, <2>4 DEF BridgeInvariant, TypeOK, Adapters, Worlds
  <2> QED BY <1>1, <1>2, <1>3, <2>1, <2>2, <2>3, <2>4, <2>5, ServeKeeps DEF Answers
<1> QED BY <1>4, <1>5, <1>6

LEMMA ServePollKeeps ==
  ASSUME BridgeInvariant, ServePoll PROVE BridgeInvariant'
<1> DEFINE c == player.owner
<1>1. Serving({"POLL"}) /\ ~player.broken
  BY DEF ServePoll
<1>2. /\ player \in [owner : Clients \cup {None}, session : Nat, expected : Nat, broken : BOOLEAN]
      /\ player.session >= player.session /\ world \in Worlds /\ WorldOK(world)
  BY DEF BridgeInvariant, TypeOK
<1>3. /\ Asked.kind = "POLL" /\ c \in Clients
      /\ ~Gone(c) => /\ client[c].session = player.session /\ client[c].time <= world.now
                     /\ lockStep => client[c].step = player.expected
  BY <1>1, OwnersRequest
<1>4. CASE ~InSession
  BY <1>1, <1>4, RefusedKeeps DEF ServePoll, InSessionOnly
<1>5. CASE InSession
  <2>1. UNCHANGED <<player, world>> /\ Answer("STATE", None)
    BY <1>5 DEF ServePoll, InSessionOnly
  <2>2. [kind |-> "STATE", arg |-> None] \in Bodies
    BY DEF Bodies
  <2>3. ~Gone(c) => world.now >= client[c].time
    BY <1>2, <1>3 DEF BridgeInvariant, TypeOK, Adapters, Worlds
  <2> QED BY <1>1, <1>2, <1>3, <2>1, <2>2, <2>3, ServeKeeps DEF Answers
<1> QED BY <1>4, <1>5

LEMMA ServeCommandKeeps ==
  ASSUME BridgeInvariant, NEW admissible \in BOOLEAN, ServeCommand(admissible) PROVE BridgeInvariant'
<1> DEFINE c == player.owner
           admitted == Admits(world, Asked.arg, admissible)
<1>1. Serving({"COMMAND"}) /\ ~player.broken
  BY DEF ServeCommand
<1>2. /\ player \in [owner : Clients \cup {None}, session : Nat, expected : Nat, broken : BOOLEAN]
      /\ player.session >= player.session /\ world \in Worlds /\ WorldOK(world)
  BY DEF BridgeInvariant, TypeOK
<1>3. /\ Asked.kind = "COMMAND" /\ c \in Clients /\ Asked \in Calls
      /\ ~Gone(c) => /\ client[c].session = player.session /\ client[c].time <= world.now
                     /\ lockStep => client[c].step = player.expected
  BY <1>1, OwnersRequest
<1>4. CASE ~InSession
  BY <1>1, <1>4, RefusedKeeps DEF ServeCommand, InSessionOnly
<1>5. CASE InSession
  <2>1. /\ world' = IF admitted THEN Apply(world, Asked.arg) ELSE world
        /\ player' = player /\ Answer("COMMAND_ACK", admitted)
    BY <1>5 DEF ServeCommand, InSessionOnly
  <2>2. [kind |-> "COMMAND_ACK", arg |-> admitted] \in Bodies
    <3>1. admitted \in BOOLEAN
      BY DEF Admits
    <3> HIDE DEF admitted
    <3> QED BY <3>1 DEF Bodies
  <2>3. Asked.arg \in Commands
    BY <1>3, CallTypes
  <2>4. world' \in Worlds /\ WorldOK(world') /\ world'.now = world.now
    BY <1>2, <2>1, <2>3, ApplyFacts
  <2>5. ~Gone(c) => world'.now >= client[c].time
    BY <1>2, <1>3, <2>4 DEF BridgeInvariant, TypeOK, Adapters, Worlds
  <2> HIDE DEF admitted
  <2> QED BY <1>1, <1>2, <1>3, <2>1, <2>2, <2>4, <2>5, ServeKeeps DEF Answers
<1> QED BY <1>4, <1>5

LEMMA FaultKeeps ==
  ASSUME BridgeInvariant, Crash \/ ServeBroken PROVE BridgeInvariant'
<1>1. /\ player \in [owner : Clients \cup {None}, session : Nat, expected : Nat, broken : BOOLEAN]
      /\ player.session >= player.session /\ world \in Worlds /\ WorldOK(world)
  BY DEF BridgeInvariant, TypeOK
<1>2. PICK kinds : Serving(kinds)
  BY DEF Crash, ServeBroken
<1>3. Answer("ERROR", "SIMULATOR_FAULTED") /\ [kind |-> "ERROR", arg |-> "SIMULATOR_FAULTED"] \in Bodies
  BY DEF Crash, ServeBroken, Bodies, Reasons
<1>4. /\ player' \in [owner : Clients \cup {None}, session : Nat, expected : Nat, broken : BOOLEAN]
      /\ player'.owner = player.owner /\ player'.session = player.session /\ player'.broken
  BY <1>1 DEF Crash, ServeBroken
<1>5. world' \in Worlds /\ WorldOK(world')
  BY <1>1, StepOnceFacts, NewWorldFacts DEF Crash, ServeBroken
<1> QED BY <1>1, <1>2, <1>3, <1>4, <1>5, ServeKeeps

(***************************************************************************)
(* A newer client takes the endpoint over before it has shaken hands.      *)
(***************************************************************************)
LEMMA AcceptKeeps ==
  ASSUME BridgeInvariant, Accept PROVE BridgeInvariant'
<1> DEFINE newest == backlog[Len(backlog)]
           others == {c \in Clients \ {newest} : sock[c] \in {"backlog", "open"}}
<1>1. TypeOK /\ backlog # <<>>
  BY DEF BridgeInvariant, Accept
<1>2. newest \in Clients /\ sock[newest] = "backlog"
  <2>1. Len(backlog) \in 1..Len(backlog)
    BY <1>1 DEF TypeOK
  <2> QED BY <1>1, <2>1 DEF BridgeInvariant, TypeOK
<1>3. /\ backlog' = <<>> /\ player' = [player EXCEPT !.owner = newest]
      /\ sock' = [c \in Clients |-> IF c = newest THEN "open" ELSE IF c \in others THEN "dropped" ELSE sock[c]]
      /\ up' = [c \in Clients |-> IF c \in others THEN None ELSE up[c]]
      /\ UNCHANGED <<lockStep, client, gate, down, stream, world>>
  BY DEF Accept
<1> HIDE DEF newest
<1>4. /\ player' \in [owner : Clients \cup {None}, session : Nat, expected : Nat, broken : BOOLEAN]
      /\ player'.owner = newest /\ player'.session = player.session /\ player'.expected = player.expected
      /\ player'.broken = player.broken
  BY <1>1, <1>2, <1>3 DEF TypeOK
<1>5. /\ sock' \in [Clients -> {"none", "backlog", "open", "dropped"}]
      /\ up' \in [Clients -> Requests \cup {None}]
      /\ \A c \in Clients : sock[c] # "none" <=> sock'[c] # "none"
  BY <1>1, <1>2, <1>3 DEF TypeOK
<1>6. TypeOK'
  <2>1. \A c \in Clients : sock'[c] = "open" <=> c = player'.owner
    BY <1>2, <1>3, <1>4
  <2>2. backlog' \in Seq(Clients)
    BY <1>3
  <2> QED BY <1>1, <1>3, <1>4, <1>5, <2>1, <2>2 DEF TypeOK
<1>7. ASSUME NEW c \in Clients
      PROVE  Agreed(c)'
  <2>1. Agreed(c)
    BY DEF BridgeInvariant
  <2>2. CASE c = newest
    <3>1. sock'[c] = "open" /\ up'[c] = up[c] /\ down[c] = None /\ client[c].state # "CONNECTED"
      BY <1>2, <1>3, <2>1, <2>2 DEF Agreed, Connected
    <3>2. (Wired(c) /\ Connected(c) /\ Replied(c) /\ Served(c))'
      BY <1>2, <1>3, <2>1, <2>2, <3>1 DEF Agreed, Wired, Connected, Replied, Served, Gone
    <3>3. Faulted(c)'
      BY <1>3, <1>4, <1>5, <2>1 DEF Agreed, Faulted
    <3> QED BY <3>2, <3>3 DEF Agreed
  <2>3. CASE c \in others
    <3>1. sock'[c] = "dropped" /\ up'[c] = None /\ sock'[newest] = "open" /\ c # newest
      BY <1>2, <1>3, <2>3
    <3>2. (Wired(c) /\ Connected(c) /\ Replied(c) /\ Served(c))'
      BY <1>2, <1>3, <1>4, <2>1, <3>1 DEF Agreed, Wired, Connected, Replied, Served, Gone
    <3>3. Faulted(c)'
      BY <1>3, <1>4, <1>5, <2>1 DEF Agreed, Faulted
    <3> QED BY <3>2, <3>3 DEF Agreed
  <2>4. CASE c # newest /\ c \notin others
    <3>1. sock'[c] = sock[c] /\ up'[c] = up[c] /\ c # player'.owner
      BY <1>3, <1>4, <2>4
    <3> QED BY <1>3, <1>4, <1>5, <2>1, <3>1, OthersAgree
  <2> QED BY <2>2, <2>3, <2>4
<1> QED BY <1>3, <1>6, <1>7 DEF BridgeInvariant

LEMMA DropKeeps ==
  ASSUME BridgeInvariant, Drop PROVE BridgeInvariant'
<1> PICK c \in Clients : c = player.owner
  BY DEF BridgeInvariant, TypeOK, Drop
<1>1. /\ TypeOK /\ Gone(c) /\ up[c] = None /\ sock[c] = "open"
      /\ sock' = [sock EXCEPT ![c] = "dropped"] /\ player' = [player EXCEPT !.owner = None]
      /\ UNCHANGED <<lockStep, client, gate, backlog, up, down, stream, world>>
  BY DEF BridgeInvariant, TypeOK, Drop
<1>2. /\ player' \in [owner : Clients \cup {None}, session : Nat, expected : Nat, broken : BOOLEAN]
      /\ player'.owner = None /\ player'.session = player.session /\ player'.broken = player.broken
      /\ sock' \in [Clients -> {"none", "backlog", "open", "dropped"}] /\ sock'[c] = "dropped"
      /\ \A d \in Clients \ {c} : sock'[d] = sock[d]
      /\ \A d \in Clients : d # None
  BY <1>1, NoneIsApart DEF TypeOK
<1>3. TypeOK'
  BY <1>1, <1>2 DEF TypeOK
<1>4. \A d \in Clients \ {c} : Agreed(d)'
  BY <1>1, <1>2, OthersAgree DEF BridgeInvariant
<1>5. Agreed(c)'
  <2>1. Agreed(c)
    BY <1>1 DEF BridgeInvariant
  <2>2. (Wired(c) /\ Connected(c) /\ Replied(c) /\ Served(c))'
    BY <1>1, <1>2, <2>1 DEF Agreed, Wired, Connected, Replied, Served, Gone
  <2>3. Faulted(c)'
    BY <1>1, <1>2, <2>1 DEF Agreed, Faulted
  <2> QED BY <2>2, <2>3 DEF Agreed
<1>6. \A i \in 1..Len(backlog) : sock'[backlog[i]] = "backlog"
  <2> SUFFICES ASSUME NEW i \in 1..Len(backlog) PROVE sock'[backlog[i]] = "backlog"
    OBVIOUS
  <2>1. backlog[i] \in Clients /\ sock[backlog[i]] = "backlog"
    BY <1>1 DEF BridgeInvariant, TypeOK
  <2> QED BY <1>1, <1>2, <2>1
<1> QED BY <1>1, <1>3, <1>4, <1>5, <1>6 DEF BridgeInvariant

LEMMA PumpKeeps ==
  ASSUME BridgeInvariant, Pump PROVE BridgeInvariant'
<1>1. /\ TypeOK /\ player.session # 0
      /\ stream' = [c \in Clients |-> IF sock[c] = "none" \/ Gone(c) THEN {} ELSE stream[c] \cup {player.session}]
      /\ UNCHANGED <<lockStep, client, gate, sock, backlog, up, down, player, world>>
  BY DEF BridgeInvariant, Pump, network
<1>2. stream' \in [Clients -> SUBSET (1..player.session)]
  BY <1>1 DEF TypeOK
<1>3. TypeOK'
  BY <1>1, <1>2 DEF TypeOK
<1>4. \A d \in Clients : Agreed(d)'
  BY <1>1, OthersAgree DEF BridgeInvariant
<1> QED BY <1>1, <1>3, <1>4 DEF BridgeInvariant

\* The clock of a free-running player only moves away from what its client knows.
LEMMA FixedUpdateKeeps ==
  ASSUME BridgeInvariant, FixedUpdate PROVE BridgeInvariant'
<1>1. /\ TypeOK /\ ~lockStep /\ world' = StepOnce(world)
      /\ UNCHANGED <<lockStep, client, gate, sock, backlog, up, down, stream, player>>
  BY DEF BridgeInvariant, FixedUpdate, network
<1>2. world \in Worlds /\ world.now \in Nat /\ world' \in Worlds /\ world'.now = world.now + 1 /\ WorldOK(world')
  BY <1>1, StepOnceFacts DEF BridgeInvariant, TypeOK, Worlds
<1>3. TypeOK'
  BY <1>1, <1>2 DEF TypeOK
<1>4. ASSUME NEW c \in Clients PROVE Agreed(c)'
  <2>1. Agreed(c) /\ client[c].time \in Nat /\ (down[c] # None => down[c].time \in Nat)
    BY <1>1 DEF BridgeInvariant, TypeOK, Adapters, Replies
  <2>2. (Wired(c) /\ Connected(c) /\ Replied(c) /\ Faulted(c))'
    BY <1>1, <2>1 DEF Agreed, Wired, Connected, Replied, Faulted, Gone
  <2>3. Served(c)'
    BY <1>1, <1>2, <2>1 DEF Agreed, Served, Gone
  <2> QED BY <2>2, <2>3 DEF Agreed
<1> QED BY <1>1, <1>2, <1>3, <1>4 DEF BridgeInvariant

-----------------------------------------------------------------------------
LEMMA BridgeInvariantInit == Init => BridgeInvariant
<1> SUFFICES ASSUME Init PROVE BridgeInvariant
  OBVIOUS
<1>1. NewWorld \in Worlds /\ WorldOK(NewWorld) /\ NewClient \in Adapters
  BY NewWorldFacts DEF NewClient, Adapters
<1>2. \A c \in Clients : c # None
  BY NoneIsApart
<1>3. TypeOK
  <2>1. [seen |-> {}, taken |-> {}, offered |-> [i \in Ids |-> 0]] \in Gates
    BY DEF Gates
  <2>2. gate \in [Clients -> Gates]
    BY <2>1 DEF Init
  <2>3. /\ client \in [Clients -> Adapters] /\ world \in Worlds /\ lockStep \in BOOLEAN
        /\ player \in [owner : Clients \cup {None}, session : Nat, expected : Nat, broken : BOOLEAN]
    BY <1>1 DEF Init
  <2>4. /\ sock \in [Clients -> {"none", "backlog", "open", "dropped"}] /\ backlog \in Seq(Clients)
        /\ up \in [Clients -> Requests \cup {None}] /\ down \in [Clients -> Replies \cup {None}]
        /\ stream \in [Clients -> SUBSET (1..player.session)]
    BY DEF Init
  <2>5. \A c \in Clients : sock[c] = "open" <=> c = player.owner
    BY <1>2 DEF Init
  <2> QED BY <2>2, <2>3, <2>4, <2>5 DEF TypeOK
<1>4. ASSUME NEW c \in Clients PROVE Agreed(c)
  <2>1. client[c] = NewClient /\ sock[c] = "none" /\ up[c] = None /\ down[c] = None /\ player.owner = None
    BY DEF Init
  <2>2. Wired(c) /\ Connected(c) /\ Replied(c) /\ Served(c)
    BY <1>2, <2>1 DEF NewClient, Wired, Connected, Replied, Served, Gone
  <2>3. Faulted(c)
    BY <2>1, NoneIsApart DEF NewClient, Faulted, Reasons
  <2> QED BY <2>2, <2>3 DEF Agreed
<1> QED BY <1>1, <1>3, <1>4 DEF Init, BridgeInvariant

LEMMA BridgeStep == BridgeInvariant /\ [Next]_vars => BridgeInvariant'
<1> SUFFICES ASSUME BridgeInvariant, [Next]_vars PROVE BridgeInvariant'
  OBVIOUS
<1>1. ASSUME NEW c \in Clients, Adapter(c) PROVE BridgeInvariant'
  BY <1>1, ConnectKeeps, StepKeeps, PollKeeps, ReceiveKeeps, TimeoutKeeps, DrainKeeps, CloseKeeps, ResetKeeps,
     PrecheckedKeeps, SubmitKeeps
     DEF Adapter
<1>2. CASE Server
  BY <1>2, AcceptKeeps, DropKeeps, ServeHandshakeKeeps, ServeResetKeeps, ServeStepKeeps, ServePollKeeps,
     ServeCommandKeeps, FaultKeeps, PumpKeeps, FixedUpdateKeeps
     DEF Server
<1>3. CASE UNCHANGED vars
  <2>1. UNCHANGED <<lockStep, client, gate, sock, backlog, up, down, stream, player, world>>
    BY <1>3 DEF vars
  <2>2. TypeOK'
    BY <2>1 DEF BridgeInvariant, TypeOK
  <2>3. \A d \in Clients : Agreed(d)'
    BY <2>1, OthersAgree DEF BridgeInvariant
  <2> QED BY <2>1, <2>2, <2>3 DEF BridgeInvariant
<1> QED BY <1>1, <1>2, <1>3 DEF Next

\* Every reachable state of adapters, sockets and simulator satisfies the inductive invariant.
THEOREM BridgeInductive == Spec => []BridgeInvariant
BY BridgeInvariantInit, BridgeStep, PTL DEF Spec

-----------------------------------------------------------------------------
(***************************************************************************)
(* The variables of the bridge have their types, and the player one open   *)
(* control connection at most.                                             *)
(***************************************************************************)
THEOREM BridgeTypeCorrect == Spec => []TypeOK
BY BridgeInductive, PTL DEF BridgeInvariant

(***************************************************************************)
(* A reply always belongs to the request it is read for, however many      *)
(* adapters fault, and whatever is left of theirs in a socket.             *)
(***************************************************************************)
THEOREM RepliesInStep == Spec => []InStep
<1>1. BridgeInvariant => InStep
  <2> SUFFICES ASSUME BridgeInvariant, NEW c \in Clients
               PROVE  /\ up[c] = None \/ down[c] = None
                      /\ client[c].state = "CONNECTED" /\ client[c].waiting = None => up[c] = None /\ down[c] = None
                      /\ down[c] # None /\ down[c].body.kind # "ERROR"
                           => client[c].waiting # None /\ down[c].body.kind = Answers[client[c].waiting.kind]
    BY DEF InStep
  <2> QED BY DEF BridgeInvariant, Agreed, Wired, Replied, Gone
<1> QED BY <1>1, BridgeInductive, PTL

(***************************************************************************)
(* However many runs share the player, whatever they retry and whatever    *)
(* replies are lost, a command id is executed once in a world.             *)
(***************************************************************************)
THEOREM ExecutedOnce == Spec => []AppliedAtMostOnce
<1>1. BridgeInvariant => AppliedAtMostOnce
  BY DEF BridgeInvariant, WorldOK, AppliedAtMostOnce
<1> QED BY <1>1, BridgeInductive, PTL

(***************************************************************************)
(* Commanded thrust ends with its deadline, without any adapter.           *)
(***************************************************************************)
THEOREM ThrustEndsInTime == Spec => []ThrustBounded
<1>1. BridgeInvariant => ThrustBounded
  BY DEF BridgeInvariant, WorldOK, ThrustBounded
<1> QED BY <1>1, BridgeInductive, PTL

(***************************************************************************)
(* In lock step the two sides count the same steps and the same time.      *)
(***************************************************************************)
THEOREM LockStepKept == Spec => []LockStepAgrees
<1>1. BridgeInvariant => LockStepAgrees
  BY DEF BridgeInvariant, Agreed, Wired, Served, LockStepAgrees
<1> QED BY <1>1, BridgeInductive, PTL

(***************************************************************************)
(* An adapter faults for a timeout, a newer client, a simulator fault, a   *)
(* foreign scenario or a foreign stream, never because the two sides       *)
(* disagree on sequence, session, step or time.                            *)
(***************************************************************************)
THEOREM OnlyEarnedFaults == Spec => []FaultsAreEarned
<1>1. BridgeInvariant => FaultsAreEarned
  <2> SUFFICES ASSUME BridgeInvariant, NEW c \in Clients, client[c].reason = "LOST"
               PROVE  Cardinality({d \in Clients : sock[d] # "none"}) > 1
    BY DEF FaultsAreEarned, BridgeInvariant, Agreed, Faulted
  <2>1. PICK d \in Clients \ {c} : sock[c] # "none" /\ sock[d] # "none"
    BY DEF BridgeInvariant, Agreed, Faulted
  <2> DEFINE S == {e \in Clients : sock[e] # "none"}
  <2>2. IsFiniteSet(S)
    BY BridgeAssumption, FS_Subset
  <2>3. {c, d} \subseteq S
    BY <2>1
  <2>4. Cardinality({c, d}) = 2
    <3>1. IsFiniteSet({c}) /\ Cardinality({c}) = 1
      BY FS_Singleton
    <3>2. Cardinality({c} \cup {d}) = Cardinality({c}) + 1
      BY <2>1, <3>1, FS_AddElement
    <3>3. {c} \cup {d} = {c, d}
      OBVIOUS
    <3> QED BY <3>1, <3>2, <3>3
  <2>5. Cardinality({c, d}) <= Cardinality(S)
    BY <2>2, <2>3, FS_Subset
  <2>6. Cardinality(S) \in Nat
    BY <2>2, FS_CardinalityType
  <2> QED BY <2>4, <2>5, <2>6
<1> QED BY <1>1, BridgeInductive, PTL

-----------------------------------------------------------------------------
(***************************************************************************)
(* The refinement of the gateway: step by step, each adapter's view of its *)
(* own gateway.                                                            *)
(***************************************************************************)
LEMMA InFlightFacts ==
  ASSUME NEW c, client[c].waiting = None \/ client[c].waiting.kind # "COMMAND"
  PROVE  InFlight(c) = {}
BY DEF InFlight

LEMMA GatewayStutters ==
  ASSUME NEW c \in Clients, gate'[c] = gate[c], InFlight(c)' = InFlight(c)
  PROVE  [Gateway(c)!Next]_(Gateway(c)!vars)
BY DEF Gateway!vars

LEMMA GatewaySends ==
  ASSUME TypeOK, NEW c \in Clients, NEW i \in gate[c].seen, InFlight(c) = {i}, InFlight(c)' = {},
         gate'[c].seen = gate[c].seen, gate'[c].offered = gate[c].offered,
         gate'[c].taken \in {gate[c].taken, gate[c].taken \cup {i}}
  PROVE  [Gateway(c)!Next]_(Gateway(c)!vars)
<1>1. gate[c] \in Gates
  BY DEF TypeOK
<1>2. i \in Ids /\ gate[c].offered \in [Ids -> Nat]
  BY <1>1 DEF Gates
<1> DEFINE before == [j \in Ids |-> gate[c].offered[j] - (IF j \in InFlight(c) THEN 1 ELSE 0)]
           after == [j \in Ids |-> gate[c].offered[j] - (IF j \in InFlight(c)' THEN 1 ELSE 0)]
<1>3. after = [before EXCEPT ![i] = @ + 1]
  <2>1. ASSUME NEW j \in Ids PROVE after[j] = IF j = i THEN before[j] + 1 ELSE before[j]
    <3>1. gate[c].offered[j] \in Nat
      BY <1>2
    <3>2. before[j] = gate[c].offered[j] - (IF j = i THEN 1 ELSE 0) /\ after[j] = gate[c].offered[j] - 0
      OBVIOUS
    <3> QED BY <3>1, <3>2
  <2>2. after = [j \in Ids |-> after[j]] /\ before = [j \in Ids |-> before[j]]
    OBVIOUS
  <2> HIDE DEF before, after
  <2> QED BY <2>1, <2>2
<1>4. Gateway(c)!Send(i, FALSE) \/ Gateway(c)!Send(i, TRUE)
  <2>1. i \notin gate[c].seen \ InFlight(c)
    OBVIOUS
  <2>2. gate'[c].seen \ InFlight(c)' = (gate[c].seen \ InFlight(c)) \cup {i}
    OBVIOUS
  <2>3. [j \in Ids |-> gate'[c].offered[j] - (IF j \in InFlight(c)' THEN 1 ELSE 0)] = after
    OBVIOUS
  <2> QED BY <1>3, <2>1, <2>2, <2>3 DEF Gateway!Send
<1> QED BY <1>2, <1>4, Zenon DEF Gateway!Next

\* A command whose call begins is not handed over yet.
LEMMA GatewayWaits ==
  ASSUME TypeOK, NEW c \in Clients, NEW i \in Ids, i \notin gate[c].seen, gate' = Offer(c, i),
         InFlight(c) = {}, InFlight(c)' = {i}
  PROVE  [Gateway(c)!Next]_(Gateway(c)!vars)
<1>1. /\ gate'[c].seen = gate[c].seen \cup {i} /\ gate'[c].taken = gate[c].taken
      /\ gate'[c].offered = [gate[c].offered EXCEPT ![i] = @ + 1]
      /\ gate[c].offered \in [Ids -> Nat]
  BY OfferFacts DEF TypeOK, Gates
<1>2. [j \in Ids |-> gate'[c].offered[j] - (IF j \in InFlight(c)' THEN 1 ELSE 0)]
        = [j \in Ids |-> gate[c].offered[j] - (IF j \in InFlight(c) THEN 1 ELSE 0)]
  <2> SUFFICES ASSUME NEW j \in Ids
               PROVE  gate'[c].offered[j] - (IF j \in InFlight(c)' THEN 1 ELSE 0)
                        = gate[c].offered[j] - (IF j \in InFlight(c) THEN 1 ELSE 0)
    OBVIOUS
  <2>1. gate[c].offered[j] \in Nat /\ gate'[c].offered[j] = IF j = i THEN gate[c].offered[j] + 1 ELSE gate[c].offered[j]
    BY <1>1
  <2> QED BY <2>1
<1>3. gate'[c].seen \ InFlight(c)' = gate[c].seen \ InFlight(c)
  BY <1>1
<1> QED BY <1>1, <1>2, <1>3 DEF Gateway!vars

\* A command that is refused without a call is handed over at once.
LEMMA GatewayRefuses ==
  ASSUME TypeOK, NEW c \in Clients, NEW i \in Ids, i \notin gate[c].seen, gate' = Offer(c, i),
         InFlight(c) = {}, InFlight(c)' = {}
  PROVE  [Gateway(c)!Next]_(Gateway(c)!vars)
<1>1. /\ gate'[c].seen = gate[c].seen \cup {i} /\ gate'[c].taken = gate[c].taken
      /\ gate'[c].offered = [gate[c].offered EXCEPT ![i] = @ + 1]
      /\ gate[c].offered \in [Ids -> Nat]
  BY OfferFacts DEF TypeOK, Gates
<1> DEFINE before == [j \in Ids |-> gate[c].offered[j] - (IF j \in InFlight(c) THEN 1 ELSE 0)]
           after == [j \in Ids |-> gate'[c].offered[j] - (IF j \in InFlight(c)' THEN 1 ELSE 0)]
<1>2. after = [before EXCEPT ![i] = @ + 1]
  <2>1. ASSUME NEW j \in Ids PROVE after[j] = IF j = i THEN before[j] + 1 ELSE before[j]
    <3>1. gate[c].offered[j] \in Nat /\ gate'[c].offered[j] = IF j = i THEN gate[c].offered[j] + 1 ELSE gate[c].offered[j]
      BY <1>1
    <3>2. before[j] = gate[c].offered[j] - 0 /\ after[j] = gate'[c].offered[j] - 0
      OBVIOUS
    <3> QED BY <3>1, <3>2
  <2>2. after = [j \in Ids |-> after[j]] /\ before = [j \in Ids |-> before[j]]
    OBVIOUS
  <2> HIDE DEF before, after
  <2> QED BY <2>1, <2>2
<1>3. Gateway(c)!Send(i, FALSE)
  <2>1. i \notin gate[c].seen \ InFlight(c)
    OBVIOUS
  <2>2. gate'[c].seen \ InFlight(c)' = (gate[c].seen \ InFlight(c)) \cup {i}
    BY <1>1
  <2> QED BY <1>1, <1>2, <2>1, <2>2 DEF Gateway!Send
<1> QED BY <1>3, Zenon DEF Gateway!Next

\* What ends a call.
LEMMA CallEnds ==
  ASSUME BridgeInvariant, NEW c \in Clients, client[c].waiting # None, client'[c].waiting = None,
         gate'[c].seen = gate[c].seen, gate'[c].offered = gate[c].offered,
         IF client[c].waiting.kind = "COMMAND"
         THEN gate'[c].taken \in {gate[c].taken, gate[c].taken \cup {client[c].waiting.arg.id}}
         ELSE gate'[c] = gate[c]
  PROVE  [Gateway(c)!Next]_(Gateway(c)!vars)
<1>1. TypeOK /\ Agreed(c) /\ InFlight(c)' = {}
  BY DEF BridgeInvariant, InFlight
<1>2. CASE client[c].waiting.kind = "COMMAND"
  <2>1. client[c].waiting.arg.id \in gate[c].seen /\ InFlight(c) = {client[c].waiting.arg.id}
    BY <1>1, <1>2 DEF Agreed, Wired, InFlight
  <2> QED BY <1>1, <1>2, <2>1, GatewaySends
<1>3. CASE client[c].waiting.kind # "COMMAND"
  BY <1>1, <1>3, InFlightFacts, GatewayStutters
<1> QED BY <1>2, <1>3

LEMMA AdapterRefines ==
  ASSUME BridgeInvariant, NEW c \in Clients, Adapter(c)
  PROVE  [Gateway(c)!Next]_(Gateway(c)!vars)
<1>1. TypeOK
  BY DEF BridgeInvariant
<1>2. CASE Timeout(c) \/ Lose(c)
  <2>1. PICK reason \in Reasons : Fail(c, reason)
    BY <1>2 DEF Timeout, Lose, Reasons
  <2>2. client[c].waiting # None /\ gate' = gate
    BY <1>2 DEF Timeout, Lose
  <2> QED BY <1>1, <2>1, <2>2, FailFacts, CallEnds
<1>3. CASE Receive(c)
  <2>1. client[c].waiting # None /\ down[c] # None /\ gate[c] \in Gates /\ gate \in [Clients -> Gates]
    BY <1>1, <1>3 DEF Receive, TypeOK
  <2>2. CASE gate' = gate /\ \E p \in Problems(c, down[c]) : Fail(c, p)
    <3>1. PICK p \in Problems(c, down[c]) : Fail(c, p)
      BY <2>2
    <3>2. p \in Reasons
      <4>1. Agreed(c)
        BY DEF BridgeInvariant
      <4> QED BY <2>1, <3>1, <4>1, ProblemsFacts DEF Agreed, Replied, Reasons
    <3> QED BY <1>1, <2>1, <2>2, <3>1, <3>2, FailFacts, CallEnds
  <2>3. CASE /\ client' = [client EXCEPT ![c] = Accepted(c, down[c])]
             /\ gate' = IF client[c].waiting.kind = "COMMAND" /\ down[c].body.arg
                        THEN [gate EXCEPT ![c].taken = @ \cup {client[c].waiting.arg.id}] ELSE gate
    <3>1. client'[c].waiting = None
      BY <1>1, <2>1, <2>3, AcceptedFacts DEF TypeOK
    <3>2. /\ gate'[c].seen = gate[c].seen /\ gate'[c].offered = gate[c].offered
          /\ gate'[c].taken \in {gate[c].taken, gate[c].taken \cup {client[c].waiting.arg.id}}
          /\ client[c].waiting.kind # "COMMAND" => gate'[c] = gate[c]
      <4> DEFINE g == [gate[c] EXCEPT !.taken = @ \cup {client[c].waiting.arg.id}]
      <4>1. g.seen = gate[c].seen /\ g.offered = gate[c].offered /\ g.taken = gate[c].taken \cup {client[c].waiting.arg.id}
        BY <2>1 DEF Gates
      <4>2. gate' = gate \/ (client[c].waiting.kind = "COMMAND" /\ gate' = [gate EXCEPT ![c] = g])
        BY <2>3
      <4> HIDE DEF g
      <4> QED BY <2>1, <4>1, <4>2
    <3> QED BY <2>1, <3>1, <3>2, CallEnds
  <2> QED BY <1>3, <2>2, <2>3 DEF Receive
<1>4. CASE \E i \in Ids : SubmitPrechecked(c, i) \/ \E drive \in BOOLEAN : Submit(c, i, drive)
  <2>1. PICK i \in Ids : SubmitPrechecked(c, i) \/ \E drive \in BOOLEAN : Submit(c, i, drive)
    BY <1>4
  <2>2. i \notin gate[c].seen /\ gate' = Offer(c, i) /\ client[c].waiting = None
    BY <2>1 DEF Submit, SubmitPrechecked, Ready
  <2>3. InFlight(c) = {}
    BY <2>2, InFlightFacts
  <2>4. CASE SubmitPrechecked(c, i)
    <3>1. InFlight(c)' = {}
      BY <2>2, <2>4 DEF SubmitPrechecked, InFlight
    <3> QED BY <1>1, <2>2, <2>3, <3>1, GatewayRefuses
  <2>5. CASE \E drive \in BOOLEAN : Submit(c, i, drive)
    <3>1. PICK drive \in BOOLEAN : Submit(c, i, drive)
      BY <2>5
    <3> DEFINE command == [id |-> i, drive |-> drive, issued |-> client[c].time,
                           deadline |-> client[c].time + Lifetime]
    <3>2. client[c].time \in Nat /\ Lifetime \in Nat
      BY <1>1, BridgeAssumption DEF TypeOK, Adapters
    <3>3. command \in Commands /\ command.id = i /\ Request(c, "COMMAND", command)
      BY <3>1, <3>2 DEF Commands, Submit
    <3> HIDE DEF command
    <3>4. [kind |-> "COMMAND", arg |-> command] \in Calls
      BY <3>3 DEF Calls
    <3>5. client'[c].waiting = [kind |-> "COMMAND", arg |-> command]
      <4>1. client \in [Clients -> Adapters]
        BY <1>1 DEF TypeOK
      <4> QED BY <3>3, <4>1 DEF Request, Adapters
    <3>6. InFlight(c)' = {i}
      <4>1. client'[c].waiting # None
        BY <3>4, <3>5, NoneIsApart
      <4> QED BY <3>3, <3>5, <4>1 DEF InFlight
    <3> QED BY <1>1, <2>2, <2>3, <3>6, GatewayWaits
  <2> QED BY <2>1, <2>4, <2>5
<1>5. CASE Connect(c) \/ Step(c) \/ Poll(c) \/ Drain(c) \/ Close(c) \/ \E match \in BOOLEAN : Reset(c, match)
  <2>1. gate' = gate
    BY <1>5 DEF Connect, Step, Poll, Drain, Close, Reset
  <2>2. client[c].waiting = None
    BY <1>5 DEF BridgeInvariant, Agreed, Connected, Connect, Step, Poll, Drain, Close, Reset, Ready
  <2>3. client'[c].waiting = None \/ client'[c].waiting.kind # "COMMAND"
    <3>1. client \in [Clients -> Adapters]
      BY <1>1 DEF TypeOK
    <3>2. CASE Drain(c) \/ Close(c)
      <4>1. CASE Close(c)
        <5>1. client'[c] = [NewClient EXCEPT !.state = "CLOSED"]
          BY <3>1, <4>1 DEF Close
        <5> QED BY <5>1 DEF NewClient
      <4>2. CASE Drain(c) /\ client' = client
        BY <2>2, <4>2
      <4>3. CASE Drain(c) /\ Fail(c, "FOREIGN_STREAM")
        <5>1. client'[c] = [NewClient EXCEPT !.state = "FAULTED", !.reason = "FOREIGN_STREAM"]
          BY <3>1, <4>3 DEF Fail
        <5> QED BY <5>1 DEF NewClient
      <4>4. Drain(c) => client' = client \/ Fail(c, "FOREIGN_STREAM")
        BY DEF Drain
      <4> QED BY <3>2, <4>1, <4>2, <4>3, <4>4
    <3>3. CASE Connect(c) \/ Step(c) \/ Poll(c) \/ \E match \in BOOLEAN : Reset(c, match)
      <4>1. PICK kind \in {"HANDSHAKE", "STEP", "POLL", "RESET"} : \E arg : Request(c, kind, arg)
        BY <3>3 DEF Connect, Step, Poll, Reset
      <4>2. PICK arg : Request(c, kind, arg)
        BY <4>1
      <4>3. client'[c].waiting = [kind |-> kind, arg |-> arg]
        BY <3>1, <4>2 DEF Request, Adapters
      <4> QED BY <4>3
    <3> QED BY <1>5, <3>2, <3>3
  <2>4. InFlight(c) = {} /\ InFlight(c)' = {}
    BY <2>2, <2>3 DEF InFlight
  <2> QED BY <2>1, <2>4, GatewayStutters
<1> QED BY <1>2, <1>3, <1>4, <1>5 DEF Adapter

(***************************************************************************)
(* The bridge, with all that may be lost, late or foreign on it, is for    *)
(* every adapter's gateway an adapter that accepts, refuses or raises.     *)
(***************************************************************************)
THEOREM BridgeRefinesGateway == Spec => ImplementsGateway
<1>1. Init => \A c \in Clients : Gateway(c)!Init
  <2> SUFFICES ASSUME Init, NEW c \in Clients PROVE Gateway(c)!Init
    OBVIOUS
  <2>1. client[c].waiting = None /\ gate[c] = [seen |-> {}, taken |-> {}, offered |-> [i \in Ids |-> 0]]
    BY DEF Init, NewClient
  <2>2. InFlight(c) = {}
    BY <2>1, InFlightFacts
  <2> QED BY <2>1, <2>2 DEF Gateway!Init
<1>2. BridgeInvariant /\ [Next]_vars => [\A c \in Clients : [Gateway(c)!Next]_(Gateway(c)!vars)]_vars
  <2> SUFFICES ASSUME BridgeInvariant, Next, NEW d \in Clients PROVE [Gateway(d)!Next]_(Gateway(d)!vars)
    OBVIOUS
  <2>1. CASE Server
    <3>1. client' = client /\ gate' = gate
      BY <2>1 DEF Server, Accept, Drop, ServeHandshake, ServeReset, ServeStep, ServePoll, ServeCommand, Crash,
                  ServeBroken, Pump, FixedUpdate, Serving
    <3> QED BY <3>1, GatewayStutters DEF InFlight
  <2>2. ASSUME NEW c \in Clients, Adapter(c), c # d PROVE [Gateway(d)!Next]_(Gateway(d)!vars)
    <3>1. client'[d] = client[d] /\ gate'[d] = gate[d]
      <4>1. client \in [Clients -> Adapters] /\ gate \in [Clients -> Gates]
        BY DEF BridgeInvariant, TypeOK
      <4> QED BY <2>2, <4>1
               DEF Adapter, Connect, Step, Poll, Receive, Timeout, Lose, Drain, Close, Reset, SubmitPrechecked,
                   Submit, Request, Fail, Offer
    <3> QED BY <3>1, GatewayStutters DEF InFlight
  <2> QED BY <2>1, <2>2, AdapterRefines DEF Next
<1> QED BY <1>1, <1>2, BridgeInductive, PTL DEF Spec, ImplementsGateway
=============================================================================
