---------------------------- MODULE MatchProofs ----------------------------
(***************************************************************************)
(* Theorems about a whole match: what the two kinds of clients may rely    *)
(* on, over a network that delays, repeats, reorders and loses packets,    *)
(* for any number of clients, slots and inputs.                            *)
(***************************************************************************)
EXTENDS Match, TickLoopProofs, SequenceTheorems, WellFoundedInduction

-----------------------------------------------------------------------------
(***************************************************************************)
(* The inductive invariant.                                                *)
(***************************************************************************)

\* The server is in a state the loop can bring it to.
ServerInv == SafetyInv /\ next_session_id <= MaxAccepts + 1 /\ BindingsInv

\* Connections are numbered as they are made, and each is accepted at most once: as
\* long as it holds its slot, the slot is bound to the session accepted on it.
ConnectionsInv ==
    /\ connects \in Nat
    /\ connects <= MaxConnects
    /\ connection \in [DOMAIN connection -> 1 .. connects]
    /\ IsInjective(connection)
    /\ accepted_on \in [DOMAIN accepted_on -> 1 .. connects]
    /\ IsInjective(accepted_on)
    /\ DOMAIN accepted_on \subseteq 1 .. next_session_id - 1
    /\ \A q \in connected :
           connection[q] \in Range(accepted_on) =>
               q \in DOMAIN peer_sessions /\ accepted_on[peer_sessions[q]] = connection[q]
    /\ pc = "welcome" =>
           \E q \in connected :
               /\ q \in DOMAIN peer_sessions
               /\ peer_sessions[q] = welcoming
               /\ accepted_on[welcoming] = connection[q]

ViewMaps == UNION {[S -> BOOLEAN] : S \in SUBSET Nat}

GodotRecords ==
    [state                : {"CONNECTING", "AWAITING_BASELINE", "READY", "DISCONNECTED"},
     hello_sent           : BOOLEAN,
     tick_floor           : Nat,
     input_seq            : Nat,
     welcome_entity       : Int,
     controlled_entity_id : Int,
     latest_tick          : Int,
     entities             : SUBSET Nat,
     views                : ViewMaps]

ReceivedStates == [tick : Nat, entities : SUBSET Nat]

Welcomes ==
    [target_tick_floor : Nat, tick_rate_hz : Nat, player_id : Nat, controlled_entity_id : Nat]

TestRecords ==
    [state          : {"CONNECTING", "CONNECTED", "FAILED"},
     hello_sent     : BOOLEAN,
     peer_connected : BOOLEAN,
     welcome        : Welcomes \cup {None},
     tick_floor     : Nat,
     baseline       : ReceivedStates \cup {None},
     snapshot       : ReceivedStates \cup {None},
     input_seq      : Nat,
     polled_early   : BOOLEAN]

SentInputs == [tick : Nat, input_seq : Nat, move_dir : MoveDirs]

\* A snapshot of some earlier state of the world.
IsSnapshot(packet) ==
    LET s == decode(SnapshotProto_fields, packet) IN
    /\ s.tick \in 0 .. world.tick
    /\ s.entities \in SUBSET Nat
    /\ s.target_tick_floor = target_tick_floor(s.tick)

NetInv ==
    /\ clients = [c \in Clients |-> clients[c]]
    /\ control = [c \in Clients |-> control[c]]
    /\ realtime = [c \in Clients |-> realtime[c]]
    /\ inflight \in [Clients -> SUBSET SentInputs]

\* Client c is a client of its kind, and what was broadcast to it are snapshots.
WellFormed(c) ==
    /\ c \in GodotClients => clients[c] \in GodotRecords
    /\ c \in TestClients  => clients[c] \in TestRecords
    /\ \A packet \in realtime[c] : IsSnapshot(packet)

\* Nobody has answered client c, or it had stopped listening by then.
NotJoined(c) ==
    /\ control[c] = << >>
    /\ clients[c].state \in {"CONNECTING", "DISCONNECTED", "FAILED"}
    /\ c \in GodotClients => clients[c].latest_tick = -1 /\ DOMAIN clients[c].views = {}
    /\ c \in TestClients  => clients[c].baseline = None /\ clients[c].snapshot = None

\* The welcome of a session that joined at the given tick, controlling entity e.
IsWelcome(packet, tick, e) ==
    /\ decodes(ServerWelcome_fields, packet)
    /\ ~decodes(JoinBaseline_fields, packet)
    /\ decode(ServerWelcome_fields, packet) \in Welcomes
    /\ decode(ServerWelcome_fields, packet).target_tick_floor = target_tick_floor(tick)
    /\ decode(ServerWelcome_fields, packet).controlled_entity_id = e

IsBaseline(packet, tick, e) ==
    LET joined == decode(JoinBaseline_fields, packet) IN
    /\ decodes(JoinBaseline_fields, packet)
    /\ ~decodes(ServerWelcome_fields, packet)
    /\ joined.tick = tick
    /\ joined.entities \in SUBSET Nat
    /\ e \in joined.entities

WelcomeQueued(c, tick, e) ==
    \E w, b \in Range(control[c]) :
        control[c] = <<w, b>> /\ IsWelcome(w, tick, e) /\ IsBaseline(b, tick, e)

BaselineQueued(c, tick, e) ==
    \E b \in Range(control[c]) : control[c] = <<b>> /\ IsBaseline(b, tick, e)

\* What client c was told: that it joined as session sid at the given tick, as entity e.
Told(c, sid, tick, e) ==
    /\ sid \in DOMAIN accepted_on
    /\ accepted_on[sid] = c
    /\ ~(pc = "welcome" /\ welcoming = sid)
    /\ sid \in DOMAIN sessions => sessions[sid].controlled_entity_id = e
    /\ tick \in 0 .. world.tick
    /\ e \in 1 .. world.next_entity_id - 1
    /\ \A packet \in realtime[c] :
           LET s == decode(SnapshotProto_fields, packet) IN
           s.tick > tick => e \in s.entities

\* How far a Godot client has come with it.
GodotJoined(c, tick, e) ==
    LET client == clients[c] IN
    /\ client.state = "CONNECTING" =>
           WelcomeQueued(c, tick, e) /\ client.latest_tick = -1 /\ DOMAIN client.views = {}
    /\ client.state = "AWAITING_BASELINE" =>
           /\ BaselineQueued(c, tick, e)
           /\ client.latest_tick = -1
           /\ DOMAIN client.views = {}
           /\ client.tick_floor = target_tick_floor(tick)
           /\ client.welcome_entity = e
    /\ client.state = "READY" =>
           /\ control[c] = << >>
           /\ client.latest_tick \in tick .. world.tick
           /\ client.tick_floor = target_tick_floor(client.latest_tick)
           /\ client.controlled_entity_id = e
           /\ e \in client.entities
           /\ \A x \in DOMAIN client.views : client.views[x] <=> x = e
    /\ client.state = "DISCONNECTED" => control[c] = << >>

\* How far a test client has come with it.
TestJoined(c, tick, e) ==
    LET client == clients[c] IN
    /\ client.state = "CONNECTING" =>
           WelcomeQueued(c, tick, e) /\ client.baseline = None /\ client.snapshot = None
    /\ client.state = "CONNECTED" =>
           /\ control[c] = << >> \/ BaselineQueued(c, tick, e)
           /\ client.welcome \in Welcomes
           /\ client.welcome.target_tick_floor = target_tick_floor(tick)
           /\ client.welcome.controlled_entity_id = e
           /\ client.peer_connected /\ ~client.polled_early =>
                  client.baseline # None \/ BaselineQueued(c, tick, e)
           /\ client.snapshot # None =>
                  /\ client.snapshot \in ReceivedStates
                  /\ client.snapshot.tick > tick => e \in client.snapshot.entities
    /\ client.state = "FAILED" => control[c] = << >> /\ client.snapshot = None

Joined(c) ==
    \E sid \in DOMAIN accepted_on, tick \in 0 .. world.tick,
       e \in 1 .. world.next_entity_id - 1 :
           /\ Told(c, sid, tick, e)
           /\ c \in GodotClients => GodotJoined(c, tick, e)
           /\ c \in TestClients  => TestJoined(c, tick, e)

\* No session accepted on the connection of client c has been welcomed.
Unwelcomed(c) ==
    \A sid \in DOMAIN accepted_on :
        accepted_on[sid] = c => pc = "welcome" /\ welcoming = sid

ClientInv(c) ==
    /\ WellFormed(c)
    /\ NotJoined(c) \/ Joined(c)
    /\ Unwelcomed(c) => NotJoined(c)

\* Inputs only come from clients that were accepted, and a Godot client's are aimed at
\* a floor that the server has reached.
InflightInv ==
    /\ \A c \in Clients : inflight[c] # {} => c \in Range(accepted_on)
    /\ AimsAtTheFloor

MatchInv ==
    /\ ServerInv
    /\ ConnectionsInv
    /\ NetInv
    /\ \A c \in Clients : ClientInv(c)
    /\ InflightInv

\* Client c has no two inputs of one number on their way, and none yet to be used.
SentOnce(c) ==
    \A i, j \in inflight[c] :
        /\ i.input_seq <= clients[c].input_seq
        /\ i.input_seq = j.input_seq => i = j

\* The greatest number received for an entry of a session's player is one its client has
\* used, for an input that is not on its way any more.
ReceivedOnce(sid, key) ==
    LET c == accepted_on[sid] IN
    key[1] = sessions[sid].player_id =>
        /\ input_buffer[key].max_input_seq <= clients[c].input_seq
        /\ \A i \in inflight[c] : i.input_seq # input_buffer[key].max_input_seq

FreshInv ==
    /\ \A c \in Clients : SentOnce(c)
    /\ \A sid \in DOMAIN sessions, key \in DOMAIN input_buffer : ReceivedOnce(sid, key)
    /\ ClientsNeverTie

-----------------------------------------------------------------------------
(***************************************************************************)
(* Packets.                                                                *)
(***************************************************************************)

\* The fields of a message are told apart by their tags, and by their names.
WellNumbered(fields) ==
    \A f, g \in fields : f.tag = g.tag \/ f.name = g.name => f = g

\* What is left of a message that has them.
Message(fields, m) == [name \in {f.name : f \in fields} |-> m[name]]

\* What is encoded has the fields that are not default, and decodes to itself.
LEMMA EncodeDecode ==
    ASSUME NEW fields, WellNumbered(fields), NEW m
    PROVE  LET packet == encode(fields, m) IN
           /\ \A f \in fields :
                  /\ f.tag \in DOMAIN packet <=> ~IsDefault(f, m[f.name])
                  /\ f.tag \in DOMAIN packet => packet[f.tag].wire = f.wire
           /\ decodes(fields, packet)
           /\ decode(fields, packet) = Message(fields, m)
<1> DEFINE packet == encode(fields, m)
           present == {f \in fields : ~IsDefault(f, m[f.name])}
<1>1. DOMAIN packet = {f.tag : f \in present}
  BY DEF encode
<1>2. ASSUME NEW f \in fields PROVE FieldOf(fields, f.tag) = f
  BY DEF FieldOf, WellNumbered
<1>3. ASSUME NEW f \in present
      PROVE  packet[f.tag] = [wire |-> f.wire, value |-> m[f.name]]
  <2>1. f.tag \in {g.tag : g \in present}
    OBVIOUS
  <2>2. FieldOf(fields, f.tag) = f
    BY <1>2
  <2>3. packet[f.tag] = LET g == FieldOf(fields, f.tag)
                        IN  [wire |-> g.wire, value |-> m[g.name]]
    BY <2>1 DEF encode
  <2> QED
    BY <2>2, <2>3
<1>4. ASSUME NEW f \in fields, f.tag \in DOMAIN packet PROVE f \in present
  BY <1>1, <1>4 DEF WellNumbered
<1>5. ASSUME NEW f \in fields, f.tag \notin DOMAIN packet
      PROVE  m[f.name] = IF f.wire = "varint" THEN 0 ELSE {}
  BY <1>1, <1>5 DEF IsDefault
<1> HIDE DEF packet
<1>6. decode(fields, packet) = Message(fields, m)
  <2>1. ASSUME NEW name \in {f.name : f \in fields}
        PROVE  LET f == CHOOSE f \in fields : f.name = name
               IN  (IF f.tag \in DOMAIN packet THEN packet[f.tag].value
                    ELSE IF f.wire = "varint" THEN 0 ELSE {}) = m[name]
    <3>1. PICK g \in fields : g = CHOOSE f \in fields : f.name = name
      OBVIOUS
    <3>2. g.name = name
      BY <3>1
    <3>3. (IF g.tag \in DOMAIN packet THEN packet[g.tag].value
           ELSE IF g.wire = "varint" THEN 0 ELSE {}) = m[name]
      <4>1. CASE g.tag \in DOMAIN packet
        <5>1. packet[g.tag] = [wire |-> g.wire, value |-> m[g.name]]
          BY <1>3, <1>4, <4>1
        <5> QED
          BY <3>2, <4>1, <5>1
      <4>2. CASE g.tag \notin DOMAIN packet
        BY <1>5, <3>2, <4>2
      <4> QED
        BY <4>1, <4>2
    <3> QED
      BY <3>1, <3>3
  <2> QED
    BY <2>1 DEF decode, Message
<1>7. ASSUME NEW f \in fields, f.tag \in DOMAIN packet PROVE packet[f.tag].wire = f.wire
  <2>1. packet[f.tag] = [wire |-> f.wire, value |-> m[f.name]]
    BY <1>3, <1>4, <1>7
  <2> QED
    BY <2>1
<1>8. \A f \in fields : f.tag \in DOMAIN packet <=> ~IsDefault(f, m[f.name])
  BY <1>1, <1>4
<1> QED
  BY <1>6, <1>7, <1>8 DEF packet, decodes

\* What the server sends as a welcome is one, and nothing else.
LEMMA WelcomeDecodes ==
    ASSUME NEW m \in Welcomes, m.tick_rate_hz # 0
    PROVE  LET packet == encode(ServerWelcome_fields, m) IN
           /\ decodes(ServerWelcome_fields, packet)
           /\ ~decodes(JoinBaseline_fields, packet)
           /\ decode(ServerWelcome_fields, packet) = m
<1> DEFINE packet == encode(ServerWelcome_fields, m)
<1>1. WellNumbered(ServerWelcome_fields)
  BY DEF WellNumbered, ServerWelcome_fields, Varint
<1>2. {f.name : f \in ServerWelcome_fields}
          = {"target_tick_floor", "tick_rate_hz", "player_id", "controlled_entity_id"}
  BY DEF ServerWelcome_fields, Varint
<1>3. Varint(2, "tick_rate_hz") \in ServerWelcome_fields
  BY DEF ServerWelcome_fields
<1>4. Delimited(2, "entities") \in JoinBaseline_fields
  BY DEF JoinBaseline_fields
<1>5. 2 \in DOMAIN packet /\ packet[2].wire = "varint"
  <2>1. PICK f : f = Varint(2, "tick_rate_hz")
    OBVIOUS
  <2>2. f.tag = 2 /\ f.wire = "varint" /\ ~IsDefault(f, m[f.name])
    BY <2>1 DEF Varint, IsDefault
  <2>3. f.tag \in DOMAIN packet /\ packet[f.tag].wire = f.wire
    BY <1>1, <1>3, <2>1, <2>2, EncodeDecode
  <2> QED
    BY <2>2, <2>3
<1>6. decodes(ServerWelcome_fields, packet)
  BY <1>1, EncodeDecode
<1>7. decode(ServerWelcome_fields, packet)
          = Message(ServerWelcome_fields, m)
  BY <1>1, EncodeDecode
<1> HIDE DEF packet
<1>8. ~decodes(JoinBaseline_fields, packet)
  BY <1>4, <1>5 DEF decodes, Delimited
<1>9. Message(ServerWelcome_fields, m) = m
  BY <1>2 DEF Message, Welcomes
<1> QED
  BY <1>6, <1>7, <1>8, <1>9 DEF packet

\* A baseline with an entity in it is one, and nothing else.
LEMMA BaselineDecodes ==
    ASSUME NEW m \in ReceivedStates, m.entities # {}
    PROVE  LET packet == encode(JoinBaseline_fields, m) IN
           /\ decodes(JoinBaseline_fields, packet)
           /\ ~decodes(ServerWelcome_fields, packet)
           /\ decode(JoinBaseline_fields, packet) = m
<1> DEFINE packet == encode(JoinBaseline_fields, m)
<1>1. WellNumbered(JoinBaseline_fields)
  BY DEF WellNumbered, JoinBaseline_fields, Varint, Delimited
<1>2. {f.name : f \in JoinBaseline_fields} = {"tick", "entities"}
  BY DEF JoinBaseline_fields, Varint, Delimited
<1>3. Delimited(2, "entities") \in JoinBaseline_fields
  BY DEF JoinBaseline_fields
<1>4. Varint(2, "tick_rate_hz") \in ServerWelcome_fields
  BY DEF ServerWelcome_fields
<1>5. 2 \in DOMAIN packet /\ packet[2].wire = "length_delimited"
  <2>1. PICK f : f = Delimited(2, "entities")
    OBVIOUS
  <2>2. f.tag = 2 /\ f.wire = "length_delimited" /\ ~IsDefault(f, m[f.name])
    BY <2>1 DEF Delimited, IsDefault
  <2>3. f.tag \in DOMAIN packet /\ packet[f.tag].wire = f.wire
    BY <1>1, <1>3, <2>1, <2>2, EncodeDecode
  <2> QED
    BY <2>2, <2>3
<1>6. decodes(JoinBaseline_fields, packet)
  BY <1>1, EncodeDecode
<1>7. decode(JoinBaseline_fields, packet)
          = Message(JoinBaseline_fields, m)
  BY <1>1, EncodeDecode
<1> HIDE DEF packet
<1>8. ~decodes(ServerWelcome_fields, packet)
  BY <1>4, <1>5 DEF decodes, Varint
<1>9. Message(JoinBaseline_fields, m) = m
  BY <1>2 DEF Message, ReceivedStates
<1> QED
  BY <1>6, <1>7, <1>8, <1>9 DEF packet

\* A client reads in a snapshot what the server has put into it.
LEMMA SnapshotDecodes ==
    ASSUME NEW m \in [tick : Nat, entities : SUBSET Nat, target_tick_floor : Nat]
    PROVE  decode(SnapshotProto_fields, encode(SnapshotProto_fields, m)) = m
<1>1. WellNumbered(SnapshotProto_fields)
  BY DEF WellNumbered, SnapshotProto_fields, Varint, Delimited
<1>2. {f.name : f \in SnapshotProto_fields} = {"tick", "entities", "target_tick_floor"}
  BY DEF SnapshotProto_fields, Varint, Delimited
<1>3. Message(SnapshotProto_fields, m) = m
  BY <1>2 DEF Message
<1> QED
  BY <1>1, <1>3, EncodeDecode

-----------------------------------------------------------------------------
(***************************************************************************)
(* The server's side of a match.                                           *)
(***************************************************************************)

\* A step of the loop, whatever input arrives.
LoopStep ==
    \/ [LoopNext]_all_vars
    \/ \E q \in Peers, input \in AnyInput : ServiceInput(q, input)

\* Clients send what the server takes for inputs.
LEMMA SentIsInput == SentInputs \subseteq AnyInput
BY InputAssumption DEF SentInputs, AnyInput

\* The clients and the network do nothing to the server but through the loop.
LEMMA MatchStepIsLoopStep == NetInv /\ [MatchNext]_match_vars => LoopStep
<1> SUFFICES ASSUME NetInv, [MatchNext]_match_vars PROVE LoopStep
  OBVIOUS
<1>1. CASE \E q \in Peers : ReceiveHello(q) \/ PeerGone(q)
  BY <1>1 DEF ReceiveHello, PeerGone, LoopStep, LoopNext, ServiceEvent
<1>2. CASE SendWelcome \/ Broadcast
  BY <1>2 DEF SendWelcome, Broadcast, LoopStep, LoopNext, ThreadStep
<1>3. CASE ServerStep
  BY <1>3 DEF ServerStep, LoopStep, LoopNext, ThreadStep, ServiceEvent
<1>4. CASE \E q \in Peers : \E input \in UNION Range(inflight) : ReceiveInput(q, input)
  <2>1. UNION Range(inflight) \subseteq AnyInput
    BY SentIsInput DEF NetInv, Range
  <2> QED
    BY <1>4, <2>1 DEF ReceiveInput, LoopStep
<1>5. CASE UNCHANGED all_vars
  BY <1>5 DEF LoopStep
<1>6. CASE \E c \in GodotClients :
               \/ ClientConnected(c)
               \/ ClientControl(c)
               \/ \E packets \in (SUBSET realtime[c]) \ {{}} : ClientSnapshots(c, packets)
               \/ \E move_dir \in MoveDirs : ClientSends(c, move_dir)
               \/ ClientDisconnected(c)
  BY <1>5, <1>6 DEF ClientConnected, ClientControl, ClientSnapshots, ClientSends,
                    ClientDisconnected, StopsListening
<1>7. CASE \E c \in TestClients :
               \/ TestConnected(c)
               \/ TestWelcomed(c)
               \/ TestConnectFails(c)
               \/ TestReceivesBaseline(c)
               \/ \E arrived \in 0 .. Len(control[c]), packets \in SUBSET realtime[c] :
                      TestPolls(c, arrived, packets)
               \/ \E start_tick \in InputTicks, count \in 1 .. MaxInputs, move_dir \in MoveDirs :
                      TestDrives(c, start_tick, count, move_dir)
               \/ TestDisconnected(c)
  BY <1>5, <1>7 DEF TestConnected, TestWelcomed, TestConnectFails, TestReceivesBaseline,
                    TestPolls, TestDrives, TestDisconnected, StopsListening
<1>8. CASE MatchOver \/ UNCHANGED match_vars
  BY <1>5, <1>8 DEF MatchOver, match_vars
<1> QED
  BY <1>1, <1>2, <1>3, <1>4, <1>6, <1>7, <1>8 DEF MatchNext

\* An input that arrives is an input for the session its slot is bound to.
LEMMA InputReaches ==
    ASSUME ServerInv, NEW q \in Peers, NEW input \in AnyInput, ServiceInput(q, input)
    PROVE  /\ peer_sessions[q] \in SessionIds
           /\ receive_input(peer_sessions[q], input)
<1>1. receive_input(peer_sessions[q], input)
  BY DEF ServiceInput
<1>2. DOMAIN session_players = DOMAIN sessions /\ CallerInv
  BY DEF ServerInv, SafetyInv, TypeOK, IdentityTypeOK, CallerInv
<1> QED
  BY <1>1, <1>2, SessionsAreIds DEF receive_input

\* The server's invariants hold with any inputs.
LEMMA LoopStepSafe == ServerInv /\ LoopStep => ServerInv'
<1> SUFFICES ASSUME ServerInv, LoopStep PROVE ServerInv'
  OBVIOUS
<1>1. CallerInv /\ TypeOK
  BY DEF ServerInv, SafetyInv, CallerInv
<1>2. CASE [LoopNext]_all_vars
  <2>1. [ServerNext]_server_vars
    BY <1>1, <1>2, LoopStepIsServerStep
  <2> QED
    BY <1>1, <1>2, <2>1, NextSafe, AcceptsBounded, NextBindings DEF ServerInv
<1>3. CASE \E q \in Peers, input \in AnyInput : ServiceInput(q, input)
  <2>1. PICK q \in Peers, input \in AnyInput : ServiceInput(q, input)
    BY <1>3
  <2>2. peer_sessions[q] \in SessionIds /\ receive_input(peer_sessions[q], input)
    BY <2>1, InputReaches
  <2>3. SafetyInv'
    BY <2>2, ReceiveSafe DEF ServerInv
  <2>4. /\ UNCHANGED <<sessions, last_emitted_floor, next_session_id>>
        /\ UNCHANGED <<peer_sessions, connected, connection, accepted_on, early_sessions>>
        /\ UNCHANGED <<pc, resume>> /\ pc = "drain"
    BY <2>1, <2>2 DEF ServiceInput, receive_input, identity_vars, loop_vars, enet_vars,
                      history_vars
  <2>5. BindingsInv'
    <3>1. DOMAIN last_emitted_floor = DOMAIN sessions
      BY <2>4 DEF ServerInv, BindingsInv, WelcomesInOrder
    <3> QED
      BY <2>4, <3>1, QuietKeepsBindings DEF ServerInv, binding_vars, history_vars, Awaiting
  <2> QED
    BY <2>3, <2>4, <2>5 DEF ServerInv
<1> QED
  BY <1>2, <1>3 DEF LoopStep

\* The steps in which somebody connects, is accepted or welcomed, or leaves.
BindingStep ==
    \/ Welcome
    \/ \E q \in Peers :
           \/ ServiceConnect(q) \/ ServiceHello(q) \/ ServiceDisconnect(q)
           \/ ServiceDisconnectIgnored(q)

\* The other steps change nothing of connections and sessions.
LEMMA OtherSteps ==
    ASSUME LoopStep, ~BindingStep
    PROVE  /\ UNCHANGED <<sessions, next_session_id, peer_sessions, welcoming, connected,
                          connection, connects, accepted_on>>
           /\ pc' = "welcome" <=> pc = "welcome"
<1>1. CASE \/ AwaitFirstSession \/ ServiceNone \/ LoopContinues \/ ServiceError
           \/ DeadlinePasses
  BY <1>1 DEF AwaitFirstSession, ServiceNone, LoopContinues, ServiceError,
     DeadlinePasses, server_vars, identity_vars, loop_vars, enet_vars, history_vars,
     Draining, AfterDrain
<1>2. CASE \/ Advance \/ LoopEnds
           \/ \E q \in Peers : ServiceHelloPanics(q)
           \/ \E q \in Peers, input \in AnyInput : ServiceInput(q, input)
  BY <1>2 DEF Advance, LoopEnds, ServiceHelloPanics, ServiceInput, accept_session_fails,
     Panic, step, finalize, receive_input, identity_vars, loop_vars, enet_vars,
     history_vars, Draining
<1>3. CASE Terminated \/ UNCHANGED all_vars
  BY <1>3 DEF Terminated, all_vars, server_vars, identity_vars, loop_vars, enet_vars,
     history_vars
<1> QED
  BY <1>1, <1>2, <1>3, InputCmdIsInput
     DEF LoopStep, BindingStep, LoopNext, ThreadStep, ServiceEvent

\* A session is accepted under a new number, on a connection that had none.
LEMMA HelloAccepts ==
    ASSUME ServerInv, ConnectionsInv, NEW q \in Peers, ServiceHello(q)
    PROVE  /\ next_session_id \notin DOMAIN accepted_on
           /\ next_session_id \notin DOMAIN sessions
           /\ connection[q] \notin Range(accepted_on)
           /\ DOMAIN accepted_on' = DOMAIN accepted_on \cup {next_session_id}
           /\ accepted_on'[next_session_id] = connection[q]
           /\ \A sid \in DOMAIN accepted_on : accepted_on'[sid] = accepted_on[sid]
           /\ \A sid \in DOMAIN sessions :
                  sid \in DOMAIN sessions' /\ sessions'[sid] = sessions[sid]
           /\ DOMAIN sessions' = DOMAIN sessions \cup {next_session_id}
           /\ pc' = "welcome" /\ welcoming' = next_session_id /\ pc # "welcome"
           /\ next_session_id' = next_session_id + 1
           /\ next_session_id \in Nat
           /\ DOMAIN peer_sessions' = DOMAIN peer_sessions \cup {q}
           /\ peer_sessions'[q] = next_session_id
           /\ \A x \in DOMAIN peer_sessions : x # q /\ peer_sessions'[x] = peer_sessions[x]
           /\ q \in connected
           /\ UNCHANGED <<connected, connection, connects>>
<1>1. PICK n, here : n = next_session_id /\ here = connection[q]
  OBVIOUS
<1>2. n \in Nat /\ n \notin DOMAIN sessions /\ n \notin DOMAIN accepted_on
  BY <1>1 DEF ServerInv, SafetyInv, TypeOK, IdentityTypeOK, ConnectionsInv
<1>3. q \in connected /\ q \notin DOMAIN peer_sessions
  BY DEF ServiceHello
<1>4. here \notin Range(accepted_on)
  BY <1>1, <1>3 DEF ConnectionsInv
<1>5. /\ peer_sessions' = MapInsert(peer_sessions, q, n)
      /\ accepted_on' = MapInsert(accepted_on, n, here)
      /\ pc' = "welcome" /\ welcoming' = n /\ pc # "welcome"
      /\ UNCHANGED <<connected, connection, connects>>
  BY <1>1 DEF ServiceHello, accept_session, enet_vars, Draining
<1>6. next_session_id' = n + 1
  BY <1>1 DEF ServiceHello, accept_session
<1>7. PICK v : sessions' = MapInsert(sessions, n, v)
  BY <1>1 DEF ServiceHello, accept_session
<1> QED
  BY <1>1, <1>2, <1>3, <1>4, <1>5, <1>6, <1>7 DEF MapInsert

\* Who leaves a slot takes nobody else's session along.
LEMMA DisconnectForgets ==
    ASSUME ServerInv, NEW q \in Peers, ServiceDisconnect(q)
    PROVE  /\ DOMAIN sessions' \subseteq DOMAIN sessions
           /\ \A sid \in DOMAIN sessions' : sessions'[sid] = sessions[sid]
           /\ connected' = connected \ {q}
           /\ DOMAIN peer_sessions' = DOMAIN peer_sessions \ {q}
           /\ \A x \in DOMAIN peer_sessions' : peer_sessions'[x] = peer_sessions[x]
           /\ UNCHANGED <<connection, connects, accepted_on, next_session_id, pc, welcoming>>
           /\ pc # "welcome"
<1>1. /\ connected' = connected \ {q}
      /\ peer_sessions' = MapRemove(peer_sessions, {q})
      /\ UNCHANGED <<connection, connects, accepted_on, pc, welcoming>>
      /\ pc = "drain"
  BY DEF ServiceDisconnect, history_vars
<1>2. CASE q \in DOMAIN peer_sessions
  BY <1>1, <1>2 DEF ServiceDisconnect, disconnect_session, MapRemove, Restrict
<1>3. CASE q \notin DOMAIN peer_sessions
  BY <1>1, <1>3 DEF ServiceDisconnect, server_vars, identity_vars, MapRemove, Restrict
<1> QED
  BY <1>2, <1>3

\* Every step keeps the history of connections.
LEMMA ConnectionsKept == ServerInv /\ ConnectionsInv /\ LoopStep => ConnectionsInv'
<1> SUFFICES ASSUME ServerInv, ConnectionsInv, LoopStep PROVE ConnectionsInv'
  OBVIOUS
<1>1. CASE ~BindingStep
  <2>1. /\ UNCHANGED <<sessions, next_session_id, peer_sessions, welcoming, connected,
                       connection, connects, accepted_on>>
        /\ pc' = "welcome" <=> pc = "welcome"
    BY <1>1, OtherSteps
  <2> QED
    BY <2>1 DEF ConnectionsInv
<1>2. CASE Welcome
  <2>1. /\ UNCHANGED <<next_session_id, peer_sessions, connected, connection, connects,
                       accepted_on>>
        /\ pc = "welcome" /\ pc' = resume
    BY <1>2 DEF Welcome, welcome_for, identity_vars, enet_vars, history_vars
  <2>2. resume # "welcome"
    BY <2>1 DEF ServerInv, BindingsInv, WelcomesInOrder
  <2> QED
    BY <2>1, <2>2 DEF ConnectionsInv
<1>3. CASE \E q \in Peers : ServiceConnect(q)
  <2>1. PICK q \in Peers : ServiceConnect(q)
    BY <1>3
  <2>2. PICK n : n = connects
    OBVIOUS
  <2>3. /\ n < MaxConnects /\ connects' = n + 1
        /\ connected' = connected \cup {q}
        /\ connection' = MapInsert(connection, q, n + 1)
        /\ UNCHANGED <<next_session_id, peer_sessions, accepted_on, pc, welcoming>>
        /\ pc # "welcome"
    BY <2>1, <2>2 DEF ServiceConnect, server_vars, identity_vars, loop_vars, history_vars,
                      Draining
  <2>4. /\ n \in Nat /\ MaxConnects \in Nat
        /\ connection \in [DOMAIN connection -> 1 .. n]
        /\ accepted_on \in [DOMAIN accepted_on -> 1 .. n]
    BY <2>2, LoopAssumption DEF ConnectionsInv
  <2>5. /\ DOMAIN connection' = DOMAIN connection \cup {q}
        /\ connection'[q] = n + 1
        /\ \A x \in DOMAIN connection : x # q => connection'[x] = connection[x]
    BY <2>3 DEF MapInsert
  <2>6. connection' \in [DOMAIN connection' -> 1 .. n + 1]
    <3>1. ASSUME NEW x \in DOMAIN connection' PROVE connection'[x] \in 1 .. n + 1
      BY <2>4, <2>5
    <3>2. connection' = [x \in DOMAIN connection' |-> connection'[x]]
      BY <2>3 DEF MapInsert
    <3> QED
      BY <3>1, <3>2
  <2>7. accepted_on \in [DOMAIN accepted_on -> 1 .. n + 1]
    BY <2>4
  <2>8. IsInjective(connection')
    BY <2>4, <2>5 DEF ConnectionsInv, IsInjective
  <2>9. ASSUME NEW x \in connected', connection'[x] \in Range(accepted_on)
        PROVE  x \in DOMAIN peer_sessions /\ accepted_on[peer_sessions[x]] = connection'[x]
    <3>1. x # q
      BY <2>4, <2>5, <2>9 DEF Range
    <3>2. x \in connected /\ x \in DOMAIN connection
      BY <2>3, <3>1, <2>9 DEF ServerInv, BindingsInv, SessionHistory
    <3> QED
      BY <2>5, <2>9, <3>1, <3>2 DEF ConnectionsInv
  <2> QED
    BY <2>3, <2>4, <2>6, <2>7, <2>8, <2>9 DEF ConnectionsInv
<1>4. CASE \E q \in Peers : ServiceHello(q)
  <2>1. PICK q \in Peers : ServiceHello(q)
    BY <1>4
  <2>2. PICK n, here : n = next_session_id /\ here = connection[q]
    OBVIOUS
  <2>3. /\ n \notin DOMAIN accepted_on
        /\ here \notin Range(accepted_on)
        /\ DOMAIN accepted_on' = DOMAIN accepted_on \cup {n}
        /\ accepted_on'[n] = here
        /\ \A sid \in DOMAIN accepted_on : accepted_on'[sid] = accepted_on[sid]
        /\ pc' = "welcome" /\ welcoming' = n
        /\ next_session_id' = n + 1 /\ n \in Nat
        /\ DOMAIN peer_sessions' = DOMAIN peer_sessions \cup {q}
        /\ peer_sessions'[q] = n
        /\ \A x \in DOMAIN peer_sessions : x # q /\ peer_sessions'[x] = peer_sessions[x]
        /\ q \in connected
        /\ UNCHANGED <<connected, connection, connects>>
    BY <2>1, <2>2, HelloAccepts
  <2>4. q \in DOMAIN connection /\ here \in 1 .. connects
    BY <2>2, <2>3 DEF ServerInv, BindingsInv, SessionHistory, ConnectionsInv
  <2>5. accepted_on' \in [DOMAIN accepted_on' -> 1 .. connects]
    <3>1. ASSUME NEW x \in DOMAIN accepted_on' PROVE accepted_on'[x] \in 1 .. connects
      BY <2>3, <2>4 DEF ConnectionsInv
    <3>2. accepted_on' = [x \in DOMAIN accepted_on' |-> accepted_on'[x]]
      BY <2>1 DEF ServiceHello, MapInsert
    <3> QED
      BY <3>1, <3>2
  <2>6. IsInjective(accepted_on')
    BY <2>3 DEF ConnectionsInv, IsInjective, Range
  <2>7. DOMAIN accepted_on' \subseteq 1 .. next_session_id' - 1
    <3>1. DOMAIN accepted_on \subseteq 1 .. n - 1
      BY <2>2 DEF ConnectionsInv
    <3>2. n \in Nat \ {0}
      BY <2>2 DEF ServerInv, SafetyInv, TypeOK, IdentityTypeOK
    <3>3. ASSUME NEW x \in DOMAIN accepted_on' PROVE x \in 1 .. n
      BY <2>3, <3>1, <3>2
    <3>4. next_session_id' - 1 = n
      BY <2>3
    <3> QED
      BY <3>3, <3>4
  <2>8. ASSUME NEW x \in connected, connection[x] \in Range(accepted_on')
        PROVE  x \in DOMAIN peer_sessions' /\ accepted_on'[peer_sessions'[x]] = connection[x]
    <3>1. CASE x = q
      BY <2>2, <2>3, <3>1
    <3>2. CASE x # q
      <4>1. x \in DOMAIN connection
        BY DEF ServerInv, BindingsInv, SessionHistory
      <4>2. connection[x] # here
        BY <2>2, <2>4, <3>2, <4>1 DEF ConnectionsInv, IsInjective
      <4>3. connection[x] \in Range(accepted_on)
        BY <2>3, <2>8, <4>2 DEF Range
      <4>4. x \in DOMAIN peer_sessions /\ accepted_on[peer_sessions[x]] = connection[x]
        BY <4>3 DEF ConnectionsInv
      <4>5. peer_sessions[x] \in DOMAIN accepted_on
        BY <4>4 DEF ServerInv, BindingsInv, PeerBindings, Range, SessionHistory
      <4> QED
        BY <2>3, <4>4, <4>5
    <3> QED
      BY <3>1, <3>2
  <2>9. /\ q \in DOMAIN peer_sessions'
        /\ peer_sessions'[q] = welcoming'
        /\ accepted_on'[welcoming'] = connection[q]
    BY <2>2, <2>3
  <2> QED
    BY <2>3, <2>5, <2>6, <2>7, <2>8, <2>9 DEF ConnectionsInv
<1>5. CASE \E q \in Peers : ServiceDisconnect(q)
  <2>1. PICK q \in Peers : ServiceDisconnect(q)
    BY <1>5
  <2>2. /\ connected' = connected \ {q}
        /\ DOMAIN peer_sessions' = DOMAIN peer_sessions \ {q}
        /\ \A x \in DOMAIN peer_sessions' : peer_sessions'[x] = peer_sessions[x]
        /\ UNCHANGED <<connection, connects, accepted_on, next_session_id, pc, welcoming>>
        /\ pc # "welcome"
    BY <2>1, DisconnectForgets
  <2> QED
    BY <2>2 DEF ConnectionsInv
<1>6. CASE \E q \in Peers : ServiceDisconnectIgnored(q)
  <2>1. PICK q \in Peers : ServiceDisconnectIgnored(q)
    BY <1>6
  <2>2. /\ connected' = connected \ {q}
        /\ UNCHANGED <<peer_sessions, connection, connects, accepted_on, next_session_id, pc,
                       welcoming>>
        /\ pc # "welcome"
    BY <2>1 DEF ServiceDisconnectIgnored, server_vars, identity_vars, loop_vars, history_vars
  <2> QED
    BY <2>2 DEF ConnectionsInv
<1> QED
  BY <1>1, <1>2, <1>3, <1>4, <1>5, <1>6 DEF BindingStep

\* The tick, the entities, the sessions and who was accepted only go forward.
Progress ==
    /\ world.tick <= world'.tick
    /\ world.next_entity_id <= world'.next_entity_id
    /\ \A sid \in DOMAIN accepted_on :
           /\ sid \in DOMAIN accepted_on'
           /\ accepted_on'[sid] = accepted_on[sid]
           /\ sid \in DOMAIN sessions' =>
                  sid \in DOMAIN sessions /\ sessions'[sid] = sessions[sid]
           /\ pc' = "welcome" /\ welcoming' = sid => pc = "welcome" /\ welcoming = sid
    /\ \A c : Unwelcomed(c)' => Unwelcomed(c)

\* No operation of the server turns the world back.
LEMMA WorldProgresses ==
    ASSUME ServerInv, LoopStep
    PROVE  /\ world.tick <= world'.tick /\ world.next_entity_id <= world'.next_entity_id
           /\ world.tick \in Nat /\ world'.tick \in Nat
           /\ world.next_entity_id \in Nat /\ world'.next_entity_id \in Nat
<1>1. TypeOK /\ TypeOK' /\ CallerInv
  BY LoopStepSafe DEF ServerInv, SafetyInv, CallerInv
<1>2. /\ world.tick \in Nat /\ world'.tick \in Nat
      /\ world.next_entity_id \in Nat /\ world'.next_entity_id \in Nat
  BY <1>1 DEF TypeOK, WorldTypeOK
<1>3. world.tick <= world'.tick /\ world.next_entity_id <= world'.next_entity_id
  <2>1. [ServerNext]_server_vars \/ \E sid, input : receive_input(sid, input)
    BY <1>1, LoopStepIsServerStep DEF LoopStep, ServiceInput
  <2>2. CASE accept_session
    <3>1. PICK a, b, d : world = [tick |-> a, next_entity_id |-> b, characters |-> d]
      BY <1>1 DEF TypeOK, WorldTypeOK
    <3>2. PICK m : world' = [tick |-> a, next_entity_id |-> b + 1, characters |-> m]
      BY <2>2, <3>1 DEF accept_session, spawn_character
    <3> QED
      BY <1>2, <3>1, <3>2
  <2>3. CASE step
    BY <1>1, <1>2, <2>3, StepEffect
  <2>4. CASE ~accept_session /\ ~step
    <3>1. world' = world
      BY <2>1, <2>4 DEF ServerNext, accept_session_fails, Panic, welcome_for,
         disconnect_session, receive_input, finalize, set_build_fingerprint, Stopped,
         server_vars
    <3> QED
      BY <1>2, <3>1
  <2> QED
    BY <2>2, <2>3, <2>4
<1> QED
  BY <1>2, <1>3

\* No step of a match takes back anything of these.
LEMMA StepProgresses == ServerInv /\ ConnectionsInv /\ LoopStep => Progress
<1> SUFFICES ASSUME ServerInv, ConnectionsInv, LoopStep PROVE Progress
  OBVIOUS
<1>1. world.tick <= world'.tick /\ world.next_entity_id <= world'.next_entity_id
  BY WorldProgresses
<1>2. CASE ~BindingStep
  <2>1. /\ UNCHANGED <<sessions, welcoming, accepted_on>>
        /\ pc' = "welcome" <=> pc = "welcome"
    BY <1>2, OtherSteps
  <2> QED
    BY <1>1, <2>1 DEF Progress, Unwelcomed
<1>3. CASE Welcome
  <2>1. /\ UNCHANGED <<sessions, accepted_on>>
        /\ pc = "welcome" /\ pc' = resume
    BY <1>3 DEF Welcome, welcome_for, identity_vars, history_vars
  <2>2. resume # "welcome"
    BY <2>1 DEF ServerInv, BindingsInv, WelcomesInOrder
  <2> QED
    BY <1>1, <2>1, <2>2 DEF Progress, Unwelcomed
<1>4. CASE \E q \in Peers : ServiceHello(q)
  <2>1. PICK q \in Peers : ServiceHello(q)
    BY <1>4
  <2>2. PICK n : n = next_session_id
    OBVIOUS
  <2>3. /\ n \notin DOMAIN accepted_on
        /\ n \notin DOMAIN sessions
        /\ DOMAIN accepted_on' = DOMAIN accepted_on \cup {n}
        /\ \A sid \in DOMAIN accepted_on : accepted_on'[sid] = accepted_on[sid]
        /\ \A sid \in DOMAIN sessions : sessions'[sid] = sessions[sid]
        /\ DOMAIN sessions' = DOMAIN sessions \cup {n}
        /\ pc' = "welcome" /\ welcoming' = n
    BY <2>1, <2>2, HelloAccepts
  <2> QED
    BY <1>1, <2>3 DEF Progress, Unwelcomed
<1>5. CASE \E q \in Peers : ServiceDisconnect(q)
  <2>1. /\ DOMAIN sessions' \subseteq DOMAIN sessions
        /\ \A sid \in DOMAIN sessions' : sessions'[sid] = sessions[sid]
        /\ UNCHANGED <<accepted_on, pc, welcoming>>
    BY <1>5, DisconnectForgets
  <2> QED
    BY <1>1, <2>1 DEF Progress, Unwelcomed
<1>6. CASE \E q \in Peers : ServiceConnect(q) \/ ServiceDisconnectIgnored(q)
  <2>1. UNCHANGED <<sessions, accepted_on, pc, welcoming>>
    BY <1>6 DEF ServiceConnect, ServiceDisconnectIgnored, server_vars, identity_vars,
                loop_vars, history_vars
  <2> QED
    BY <1>1, <2>1 DEF Progress, Unwelcomed
<1> QED
  BY <1>2, <1>3, <1>4, <1>5, <1>6 DEF BindingStep

-----------------------------------------------------------------------------
(***************************************************************************)
(* What the clients' operations do.                                        *)
(***************************************************************************)

\* A set of natural numbers below a bound has a greatest one, if it has any.
LEMMA GreatestExists ==
    ASSUME NEW bound \in Nat, NEW S, S \subseteq 0 .. bound, S # {}
    PROVE  \E n \in S : \A m \in S : m <= n
<1> DEFINE less == OpToRel(<, Nat)
           gaps == {k \in 0 .. bound : bound - k \in S}
<1>1. IsWellFoundedOn(less, Nat)
  BY NatLessThanWellFounded
<1>2. \A m, n \in Nat : m < n => <<m, n>> \in less
  BY DEF OpToRel
<1> HIDE DEF less
<1>3. gaps # {} /\ gaps \subseteq Nat
  <2>1. PICK s \in S : TRUE
    OBVIOUS
  <2>2. bound - s \in 0 .. bound /\ bound - (bound - s) = s
    BY <2>1
  <2>3. bound - s \in gaps
    BY <2>2
  <2>4. gaps \subseteq Nat
    OBVIOUS
  <2>5. gaps # {}
    <3> HIDE DEF gaps
    <3> QED
      BY <2>3
  <2> QED
    BY <2>4, <2>5
<1>4. PICK k \in gaps : \A j \in gaps : <<j, k>> \notin less
  <2>1. \E k \in gaps : \A j \in gaps : <<j, k>> \notin less
    <3> HIDE DEF gaps
    <3> QED
      BY <1>1, <1>3, WFMin
  <2> QED
    BY <2>1
<1>5. ASSUME NEW m \in S PROVE m <= bound - k
  <2>1. bound - m \in 0 .. bound /\ bound - (bound - m) = m
    OBVIOUS
  <2>2. bound - m \in gaps
    BY <2>1
  <2>3. k \in Nat /\ k \in 0 .. bound /\ <<bound - m, k>> \notin less
    BY <1>4, <2>2
  <2>4. ~(bound - m < k)
    BY <1>2, <2>1, <2>3
  <2> QED
    BY <2>1, <2>3, <2>4
<1>6. bound - k \in S
  BY <1>4
<1> QED
  BY <1>5, <1>6

\* What a drain finds is one of the snapshots in it, and none is of a later tick.
LEMMA LatestIsLatest ==
    ASSUME NEW bound \in Nat, NEW packets, packets # {},
           \A packet \in packets : decode(SnapshotProto_fields, packet).tick \in 0 .. bound
    PROVE  /\ latest_of_drain(packets) = LatestSnapshot(packets)
           /\ \E packet \in packets :
                  LatestSnapshot(packets) = decode(SnapshotProto_fields, packet)
           /\ \A packet \in packets :
                  decode(SnapshotProto_fields, packet).tick <= LatestSnapshot(packets).tick
<1> DEFINE snapshots == {decode(SnapshotProto_fields, packet) : packet \in packets}
           ticks == {s.tick : s \in snapshots}
<1>1. ticks # {} /\ ticks \subseteq 0 .. bound
  OBVIOUS
<1>2. \E n \in ticks : \A m \in ticks : m <= n
  <2> HIDE DEF ticks
  <2> QED
    BY <1>1, GreatestExists
<1>3. \E s \in snapshots : \A t \in snapshots : t.tick <= s.tick
  BY <1>2
<1>4. /\ LatestSnapshot(packets) \in snapshots
      /\ \A t \in snapshots : t.tick <= LatestSnapshot(packets).tick
  BY <1>3 DEF LatestSnapshot
<1> QED
  BY <1>4 DEF LatestSnapshot, latest_of_drain

\* A Godot client that waits for its welcome remembers what the welcome says.
LEMMA TakesWelcome ==
    ASSUME NEW client \in GodotRecords, client.state = "CONNECTING", NEW packet,
           decode(ServerWelcome_fields, packet) \in Welcomes
    PROVE  LET next    == handle_control_packet(client, packet)
               welcome == decode(ServerWelcome_fields, packet)
           IN  /\ next \in GodotRecords
               /\ next.state = "AWAITING_BASELINE"
               /\ next.tick_floor = welcome.target_tick_floor
               /\ next.welcome_entity = welcome.controlled_entity_id
               /\ next.latest_tick = client.latest_tick
               /\ next.views = client.views
               /\ next.input_seq = client.input_seq
<1> DEFINE welcome == decode(ServerWelcome_fields, packet)
<1>1. PICK a, b, d, e, f, g, h, i, j :
          /\ client = [state |-> a, hello_sent |-> b, tick_floor |-> d, input_seq |-> e,
                       welcome_entity |-> f, controlled_entity_id |-> g, latest_tick |-> h,
                       entities |-> i, views |-> j]
          /\ a = "CONNECTING" /\ b \in BOOLEAN /\ d \in Nat /\ e \in Nat /\ f \in Int
          /\ g \in Int /\ h \in Int /\ i \in SUBSET Nat /\ j \in ViewMaps
  BY DEF GodotRecords
<1>2. welcome.target_tick_floor \in Nat /\ welcome.controlled_entity_id \in Nat
  BY DEF Welcomes
<1>3. handle_control_packet(client, packet)
          = [client EXCEPT !.state = "AWAITING_BASELINE",
                           !.tick_floor = welcome.target_tick_floor,
                           !.welcome_entity = welcome.controlled_entity_id]
  BY DEF handle_control_packet
<1> HIDE DEF welcome
<1>4. handle_control_packet(client, packet)
          = [state |-> "AWAITING_BASELINE", hello_sent |-> b,
             tick_floor |-> welcome.target_tick_floor, input_seq |-> e,
             welcome_entity |-> welcome.controlled_entity_id, controlled_entity_id |-> g,
             latest_tick |-> h, entities |-> i, views |-> j]
  BY <1>1, <1>3
<1> QED
  BY <1>1, <1>2, <1>4 DEF GodotRecords, welcome

\* It marks the views of new entities only.
ViewsOf(views, entities, own) ==
    [x \in DOMAIN views \cup entities |-> IF x \in DOMAIN views THEN views[x] ELSE x = own]

\* A view is a Boolean per entity.
LEMMA ViewsOfType ==
    ASSUME NEW views \in ViewMaps, NEW entities \in SUBSET Nat, NEW own
    PROVE  /\ ViewsOf(views, entities, own) \in ViewMaps
           /\ DOMAIN ViewsOf(views, entities, own) = DOMAIN views \cup entities
           /\ \A x \in DOMAIN views : ViewsOf(views, entities, own)[x] <=> views[x]
           /\ \A x \in entities \ DOMAIN views :
                  ViewsOf(views, entities, own)[x] <=> x = own
<1> DEFINE all == ViewsOf(views, entities, own)
           S == DOMAIN views \cup entities
<1>1. PICK T \in SUBSET Nat : views \in [T -> BOOLEAN]
  BY DEF ViewMaps
<1>2. S \in SUBSET Nat
  BY <1>1
<1>3. all \in [S -> BOOLEAN]
  <2>1. \A x \in S : (IF x \in DOMAIN views THEN views[x] ELSE x = own) \in BOOLEAN
    BY <1>1
  <2> QED
    BY <2>1, Zenon DEF ViewsOf
<1> QED
  BY <1>2, <1>3 DEF ViewsOf, ViewMaps

\* A Godot client that waits for its baseline shows it.
LEMMA ShowsBaseline ==
    ASSUME NEW client \in GodotRecords, client.state = "AWAITING_BASELINE", NEW packet,
           NEW joined, joined = decode(JoinBaseline_fields, packet),
           joined.tick \in Nat, joined.entities \in SUBSET Nat
    PROVE  LET next == handle_control_packet(client, packet)
           IN  /\ next \in GodotRecords
               /\ next.state = "READY"
               /\ next.tick_floor = client.tick_floor
               /\ next.controlled_entity_id = client.welcome_entity
               /\ next.latest_tick = joined.tick
               /\ next.entities = joined.entities
               /\ next.views = ViewsOf(client.views, joined.entities, client.welcome_entity)
               /\ next.input_seq = client.input_seq
<1>1. PICK a, b, d, e, f, g, h, i, j :
          /\ client = [state |-> a, hello_sent |-> b, tick_floor |-> d, input_seq |-> e,
                       welcome_entity |-> f, controlled_entity_id |-> g, latest_tick |-> h,
                       entities |-> i, views |-> j]
          /\ a = "AWAITING_BASELINE" /\ b \in BOOLEAN /\ d \in Nat /\ e \in Nat /\ f \in Int
          /\ g \in Int /\ h \in Int /\ i \in SUBSET Nat /\ j \in ViewMaps
  BY DEF GodotRecords
<1>2. handle_control_packet(client, packet)
          = on_baseline_received([client EXCEPT !.state = "READY"], joined)
  BY DEF handle_control_packet
<1>3. [client EXCEPT !.state = "READY"]
          = [state |-> "READY", hello_sent |-> b, tick_floor |-> d, input_seq |-> e,
             welcome_entity |-> f, controlled_entity_id |-> g, latest_tick |-> h,
             entities |-> i, views |-> j]
  BY <1>1
<1>4. PICK t, S : t = joined.tick /\ S = joined.entities
  OBVIOUS
<1>5. handle_control_packet(client, packet)
          = [state |-> "READY", hello_sent |-> b, tick_floor |-> d, input_seq |-> e,
             welcome_entity |-> f, controlled_entity_id |-> f, latest_tick |-> t,
             entities |-> S, views |-> ViewsOf(j, S, f)]
  <2>1. PICK ready : ready = [state |-> "READY", hello_sent |-> b, tick_floor |-> d,
                              input_seq |-> e, welcome_entity |-> f,
                              controlled_entity_id |-> g, latest_tick |-> h,
                              entities |-> i, views |-> j]
    OBVIOUS
  <2>2. PICK told : told = [ready EXCEPT !.controlled_entity_id = ready.welcome_entity]
    OBVIOUS
  <2>3. told = [state |-> "READY", hello_sent |-> b, tick_floor |-> d, input_seq |-> e,
                welcome_entity |-> f, controlled_entity_id |-> f, latest_tick |-> h,
                entities |-> i, views |-> j]
    BY <2>1, <2>2
  <2>4. PICK seen : seen = apply_baseline(told, joined)
    OBVIOUS
  <2>5. seen = [state |-> "READY", hello_sent |-> b, tick_floor |-> d, input_seq |-> e,
                welcome_entity |-> f, controlled_entity_id |-> f, latest_tick |-> t,
                entities |-> S, views |-> j]
    BY <1>4, <2>3, <2>4 DEF apply_baseline
  <2>6. on_baseline_received(ready, joined) = spawn_or_update_views(seen)
    BY <2>2, <2>4 DEF on_baseline_received
  <2>7. spawn_or_update_views(seen) = [seen EXCEPT !.views = ViewsOf(j, S, f)]
    BY <2>5 DEF spawn_or_update_views, ViewsOf
  <2> QED
    BY <1>2, <1>3, <2>1, <2>5, <2>6, <2>7
<1>6. ViewsOf(j, S, f) \in ViewMaps
  BY <1>1, <1>4, ViewsOfType
<1> QED
  BY <1>1, <1>4, <1>5, <1>6 DEF GodotRecords

\* A Godot client that is ready takes the latest snapshot of a drain, if it is later
\* than what it shows, and its floor never goes back.
LEMMA ShowsSnapshot ==
    ASSUME NEW client \in GodotRecords, client.state = "READY", NEW packets,
           NEW latest, latest = LatestSnapshot(packets),
           latest.tick \in Nat, latest.entities \in SUBSET Nat,
           latest.target_tick_floor \in Nat
    PROVE  LET next == process_snapshots(client, packets)
               later == latest.tick > client.latest_tick
           IN  /\ next \in GodotRecords
               /\ next.state = "READY"
               /\ next.tick_floor = TickFloor_observe(client.tick_floor,
                                                      latest.target_tick_floor)
               /\ next.controlled_entity_id = client.controlled_entity_id
               /\ next.latest_tick = IF later THEN latest.tick ELSE client.latest_tick
               /\ next.entities = IF later THEN latest.entities ELSE client.entities
               /\ next.views = ViewsOf(client.views, next.entities,
                                       client.controlled_entity_id)
               /\ next.input_seq = client.input_seq
<1>1. PICK a, b, d, e, f, g, h, i, j :
          /\ client = [state |-> a, hello_sent |-> b, tick_floor |-> d, input_seq |-> e,
                       welcome_entity |-> f, controlled_entity_id |-> g, latest_tick |-> h,
                       entities |-> i, views |-> j]
          /\ a = "READY" /\ b \in BOOLEAN /\ d \in Nat /\ e \in Nat /\ f \in Int
          /\ g \in Int /\ h \in Int /\ i \in SUBSET Nat /\ j \in ViewMaps
  BY DEF GodotRecords
<1>2. PICK t, S, r : t = latest.tick /\ S = latest.entities /\ r = latest.target_tick_floor
  OBVIOUS
<1>3. PICK floor : floor = TickFloor_observe(d, r)
  OBVIOUS
<1>4. floor \in Nat
  BY <1>1, <1>2, <1>3 DEF TickFloor_observe
<1>5. PICK aimed : aimed = [client EXCEPT !.tick_floor = TickFloor_observe(@, r)]
  OBVIOUS
<1>6. aimed = [state |-> "READY", hello_sent |-> b, tick_floor |-> floor, input_seq |-> e,
               welcome_entity |-> f, controlled_entity_id |-> g, latest_tick |-> h,
               entities |-> i, views |-> j]
  BY <1>1, <1>3, <1>5
<1>7. PICK n, E : /\ n = IF t > h THEN t ELSE h
                  /\ E = IF t > h THEN S ELSE i
  OBVIOUS
<1>8. PICK seen : seen = apply_snapshot(aimed, latest)
  OBVIOUS
<1>9. seen = [state |-> "READY", hello_sent |-> b, tick_floor |-> floor, input_seq |-> e,
              welcome_entity |-> f, controlled_entity_id |-> g, latest_tick |-> n,
              entities |-> E, views |-> j]
  <2>1. CASE t > h
    <3>1. aimed.latest_tick = h /\ ~(t <= h)
      BY <1>1, <1>2, <1>6, <2>1
    <3>2. seen = [aimed EXCEPT !.latest_tick = t, !.entities = S]
      BY <1>2, <1>8, <3>1 DEF apply_snapshot
    <3> QED
      BY <1>6, <1>7, <2>1, <3>2
  <2>2. CASE ~(t > h)
    BY <1>1, <1>2, <1>6, <1>7, <1>8, <2>2 DEF apply_snapshot
  <2> QED
    BY <2>1, <2>2
<1>10. process_snapshots(client, packets) = spawn_or_update_views(seen)
  BY <1>2, <1>5, <1>8 DEF process_snapshots, on_snapshot_received
<1>11. spawn_or_update_views(seen) = [seen EXCEPT !.views = ViewsOf(j, E, g)]
  BY <1>9 DEF spawn_or_update_views, ViewsOf
<1>12. process_snapshots(client, packets)
           = [state |-> "READY", hello_sent |-> b, tick_floor |-> floor, input_seq |-> e,
              welcome_entity |-> f, controlled_entity_id |-> g, latest_tick |-> n,
              entities |-> E, views |-> ViewsOf(j, E, g)]
  BY <1>9, <1>10, <1>11
<1>13. n \in Int /\ E \in SUBSET Nat
  BY <1>1, <1>2, <1>7
<1>14. ViewsOf(j, E, g) \in ViewMaps
  BY <1>1, <1>13, ViewsOfType
<1>15. process_snapshots(client, packets) \in GodotRecords
  <2>1. PICK views : views = ViewsOf(j, E, g)
    OBVIOUS
  <2>2. views \in ViewMaps
    BY <1>14, <2>1
  <2>3. [state |-> "READY", hello_sent |-> b, tick_floor |-> floor, input_seq |-> e,
         welcome_entity |-> f, controlled_entity_id |-> g, latest_tick |-> n,
         entities |-> E, views |-> views] \in GodotRecords
    BY <1>1, <1>4, <1>13, <2>2 DEF GodotRecords
  <2> QED
    BY <1>12, <2>1, <2>3
<1> QED
  BY <1>1, <1>2, <1>3, <1>7, <1>12, <1>15

\* What else a Godot client does to its record: it says hello, counts an input or stops.
LEMMA GodotFields ==
    ASSUME NEW client \in GodotRecords
    PROVE  /\ LET next == on_connect(client)
              IN  next \in GodotRecords /\ next = [client EXCEPT !.hello_sent = TRUE]
           /\ LET next == AfterSend(client)
              IN  /\ next \in GodotRecords
                  /\ next = [client EXCEPT !.input_seq = client.input_seq + 1]
           /\ LET next == on_disconnect(client)
              IN  /\ next \in GodotRecords
                  /\ next = [client EXCEPT !.state = "DISCONNECTED"]
<1>1. LET next == on_connect(client)
      IN  next \in GodotRecords /\ next = [client EXCEPT !.hello_sent = TRUE]
  BY DEF GodotRecords, on_connect
<1>2. LET next == AfterSend(client)
      IN  next \in GodotRecords /\ next = [client EXCEPT !.input_seq = client.input_seq + 1]
  BY DEF GodotRecords, AfterSend, InputSeqGen_advance
<1>3. LET next == on_disconnect(client)
      IN  next \in GodotRecords /\ next = [client EXCEPT !.state = "DISCONNECTED"]
  BY DEF GodotRecords, on_disconnect
<1> QED
  BY <1>1, <1>2, <1>3

\* A test client that waits for its welcome remembers it.
LEMMA TestTakesWelcome ==
    ASSUME NEW client \in TestRecords, NEW packet, decodes(ServerWelcome_fields, packet),
           decode(ServerWelcome_fields, packet) \in Welcomes
    PROVE  LET next == connect_on_control(client, packet)
           IN  /\ next \in TestRecords
               /\ next.state = "CONNECTED"
               /\ next.welcome = decode(ServerWelcome_fields, packet)
               /\ next.baseline = client.baseline
               /\ next.snapshot = client.snapshot
               /\ next.input_seq = client.input_seq
<1>1. PICK a, b, d, e, f, g, h, i, j :
          /\ client = [state |-> a, hello_sent |-> b, peer_connected |-> d, welcome |-> e,
                       tick_floor |-> f, baseline |-> g, snapshot |-> h, input_seq |-> i,
                       polled_early |-> j]
          /\ b \in BOOLEAN /\ d \in BOOLEAN /\ f \in Nat
          /\ g \in ReceivedStates \cup {None} /\ h \in ReceivedStates \cup {None}
          /\ i \in Nat /\ j \in BOOLEAN
  BY DEF TestRecords
<1>2. PICK w : w = decode(ServerWelcome_fields, packet)
  OBVIOUS
<1>3. w \in Welcomes /\ w.target_tick_floor \in Nat
  BY <1>2 DEF Welcomes
<1>4. connect_on_control(client, packet)
          = [client EXCEPT !.state = "CONNECTED",
                           !.welcome = w,
                           !.tick_floor = w.target_tick_floor]
  BY <1>2 DEF connect_on_control
<1>5. connect_on_control(client, packet)
          = [state |-> "CONNECTED", hello_sent |-> b, peer_connected |-> d, welcome |-> w,
             tick_floor |-> w.target_tick_floor, baseline |-> g, snapshot |-> h,
             input_seq |-> i, polled_early |-> j]
  BY <1>1, <1>4
<1> QED
  BY <1>1, <1>2, <1>3, <1>5 DEF TestRecords

\* recv_baseline keeps a baseline.
LEMMA TestTakesBaseline ==
    ASSUME NEW client \in TestRecords, NEW packet, decodes(JoinBaseline_fields, packet),
           NEW joined, joined = decode(JoinBaseline_fields, packet),
           joined.tick \in Nat, joined.entities \in SUBSET Nat
    PROVE  LET next == recv_baseline_on_control(client, packet)
           IN  /\ next \in TestRecords
               /\ next.baseline # None
               /\ next.state = client.state
               /\ next.welcome = client.welcome
               /\ next.peer_connected = client.peer_connected
               /\ next.snapshot = client.snapshot
               /\ next.input_seq = client.input_seq
               /\ next.polled_early = client.polled_early
<1>1. PICK a, b, d, e, f, g, h, i, j :
          /\ client = [state |-> a, hello_sent |-> b, peer_connected |-> d, welcome |-> e,
                       tick_floor |-> f, baseline |-> g, snapshot |-> h, input_seq |-> i,
                       polled_early |-> j]
          /\ a \in {"CONNECTING", "CONNECTED", "FAILED"} /\ b \in BOOLEAN /\ d \in BOOLEAN
          /\ e \in Welcomes \cup {None} /\ f \in Nat
          /\ h \in ReceivedStates \cup {None} /\ i \in Nat /\ j \in BOOLEAN
  BY DEF TestRecords
<1>2. PICK state : state = [tick |-> joined.tick, entities |-> joined.entities]
  OBVIOUS
<1>3. state \in ReceivedStates
  BY <1>2 DEF ReceivedStates
<1>4. state # None
  BY <1>3, NoneIsNoReceivedState DEF ReceivedStates
<1>5. recv_baseline_on_control(client, packet) = [client EXCEPT !.baseline = state]
  BY <1>2 DEF recv_baseline_on_control, Baseline_try_from
<1>6. recv_baseline_on_control(client, packet)
          = [state |-> a, hello_sent |-> b, peer_connected |-> d, welcome |-> e,
             tick_floor |-> f, baseline |-> state, snapshot |-> h, input_seq |-> i,
             polled_early |-> j]
  BY <1>1, <1>5
<1> QED
  BY <1>1, <1>3, <1>4, <1>6 DEF TestRecords

\* poll_snapshot keeps the latest snapshot of a drain, and what was kept if there is none.
LEMMA TestPolled ==
    ASSUME NEW client \in TestRecords, NEW packets,
           packets # {} => /\ latest_of_drain(packets).tick \in Nat
                           /\ latest_of_drain(packets).entities \in SUBSET Nat
                           /\ latest_of_drain(packets).target_tick_floor \in Nat,
           NEW next, next = poll_snapshot(client, packets)
    PROVE  /\ next \in TestRecords
           /\ packets = {} => next.snapshot = client.snapshot
           /\ packets # {} =>
                  next.snapshot = [tick     |-> latest_of_drain(packets).tick,
                                   entities |-> latest_of_drain(packets).entities]
           /\ next.polled_early <=> client.polled_early \/ client.baseline = None
           /\ next.baseline = client.baseline
           /\ next.state = client.state
           /\ next.welcome = client.welcome
           /\ next.peer_connected = client.peer_connected
           /\ next.input_seq = client.input_seq
<1>1. PICK a, b, d, e, f, g, h, i, j :
          /\ client = [state |-> a, hello_sent |-> b, peer_connected |-> d, welcome |-> e,
                       tick_floor |-> f, baseline |-> g, snapshot |-> h, input_seq |-> i,
                       polled_early |-> j]
          /\ a \in {"CONNECTING", "CONNECTED", "FAILED"} /\ b \in BOOLEAN /\ d \in BOOLEAN
          /\ e \in Welcomes \cup {None} /\ f \in Nat
          /\ g \in ReceivedStates \cup {None} /\ h \in ReceivedStates \cup {None}
          /\ i \in Nat /\ j \in BOOLEAN
  BY DEF TestRecords
<1>2. PICK early : early = (j \/ g = None)
  OBVIOUS
<1>3. early \in BOOLEAN /\ (early <=> client.polled_early \/ client.baseline = None)
  BY <1>1, <1>2
<1>4. CASE packets = {}
  <2>1. poll_snapshot(client, packets) = [client EXCEPT !.polled_early = early]
    BY <1>1, <1>2, <1>4 DEF poll_snapshot
  <2>2. poll_snapshot(client, packets)
            = [state |-> a, hello_sent |-> b, peer_connected |-> d, welcome |-> e,
               tick_floor |-> f, baseline |-> g, snapshot |-> h, input_seq |-> i,
               polled_early |-> early]
    BY <1>1, <2>1
  <2>3. poll_snapshot(client, packets) \in TestRecords
    BY <1>1, <1>3, <2>2 DEF TestRecords
  <2> QED
    BY <1>1, <1>3, <1>4, <2>2, <2>3
<1>5. CASE packets # {}
  <2>1. PICK latest, kept, floor :
            /\ latest = latest_of_drain(packets)
            /\ kept = [tick |-> latest.tick, entities |-> latest.entities]
            /\ floor = TickFloor_max(f, latest.target_tick_floor)
    OBVIOUS
  <2>2. kept \in ReceivedStates /\ floor \in Nat
    BY <1>1, <1>5, <2>1 DEF ReceivedStates, TickFloor_max
  <2>3. poll_snapshot(client, packets)
            = [client EXCEPT !.polled_early = early, !.tick_floor = floor, !.snapshot = kept]
    BY <1>1, <1>2, <1>5, <2>1 DEF poll_snapshot, Snapshot_try_from
  <2>4. poll_snapshot(client, packets)
            = [state |-> a, hello_sent |-> b, peer_connected |-> d, welcome |-> e,
               tick_floor |-> floor, baseline |-> g, snapshot |-> kept, input_seq |-> i,
               polled_early |-> early]
    BY <1>1, <2>3
  <2>5. poll_snapshot(client, packets) \in TestRecords
    BY <1>1, <1>3, <2>2, <2>4 DEF TestRecords
  <2> QED
    BY <1>1, <1>3, <1>5, <2>1, <2>4, <2>5
<1> QED
  BY <1>4, <1>5

\* What else a test client does to its record.
LEMMA TestFields ==
    ASSUME NEW client \in TestRecords
    PROVE  /\ LET next == connect_on_connect(client)
              IN  /\ next \in TestRecords
                  /\ next = [client EXCEPT !.hello_sent = TRUE, !.peer_connected = TRUE]
           /\ LET next == skip_disconnect(client)
              IN  /\ next \in TestRecords
                  /\ next = [client EXCEPT !.peer_connected = FALSE]
           /\ LET next == connect_fails(client)
              IN  next \in TestRecords /\ next = [client EXCEPT !.state = "FAILED"]
BY DEF TestRecords, connect_on_connect, skip_disconnect, connect_fails

\* drive_move_dir gives each input it sends a sequence number of its own, above all that
\* were used before.
LEMMA TestDrove ==
    ASSUME NEW client \in TestRecords, NEW start_tick \in Nat, NEW count \in Nat \ {0},
           NEW move_dir \in MoveDirs
    PROVE  LET drive == drive_move_dir(client, start_tick, count, move_dir)
           IN  /\ drive.client \in TestRecords
               /\ drive.client
                      = [client EXCEPT !.input_seq = client.input_seq
                                           + IF client.peer_connected THEN count ELSE 1]
               /\ drive.sent \subseteq SentInputs
               /\ \A input \in drive.sent :
                      input.input_seq \in
                          client.input_seq + 1 .. drive.client.input_seq
               /\ \A i, j \in drive.sent : i.input_seq = j.input_seq => i = j
<1>1. client.input_seq \in Nat /\ client.tick_floor \in Nat
  BY DEF TestRecords
<1>2. CASE ~client.peer_connected
  BY <1>1, <1>2 DEF drive_move_dir, TestRecords
<1>3. CASE client.peer_connected
  <2> DEFINE Sent(offset) ==
                 [tick      |-> target_tick(client.tick_floor, start_tick + offset),
                  input_seq |-> client.input_seq + 1 + offset,
                  move_dir  |-> move_dir]
  <2>1. drive_move_dir(client, start_tick, count, move_dir)
            = [client |-> [client EXCEPT !.input_seq = client.input_seq + count],
               sent   |-> {Sent(offset) : offset \in 0 .. count - 1}]
    BY <1>3 DEF drive_move_dir
  <2>2. ASSUME NEW offset \in 0 .. count - 1
        PROVE  /\ Sent(offset) \in SentInputs
               /\ Sent(offset).input_seq = client.input_seq + 1 + offset
    BY <1>1 DEF SentInputs, target_tick
  <2>3. [client EXCEPT !.input_seq = client.input_seq + count] \in TestRecords
    BY <1>1 DEF TestRecords
  <2>4. [client EXCEPT !.input_seq = client.input_seq + count].input_seq
            = client.input_seq + count
    BY DEF TestRecords
  <2>5. ASSUME NEW i \in {Sent(offset) : offset \in 0 .. count - 1},
               NEW j \in {Sent(offset) : offset \in 0 .. count - 1},
               i.input_seq = j.input_seq
        PROVE  i = j
    <3>1. PICK m \in 0 .. count - 1 : i = Sent(m)
      OBVIOUS
    <3>2. PICK n \in 0 .. count - 1 : j = Sent(n)
      OBVIOUS
    <3>3. m = n
      BY <1>1, <2>2, <2>5, <3>1, <3>2
    <3> QED
      BY <3>1, <3>2, <3>3
  <2>6. ASSUME NEW i \in {Sent(offset) : offset \in 0 .. count - 1}
        PROVE  /\ i \in SentInputs
               /\ i.input_seq \in client.input_seq + 1 .. client.input_seq + count
    <3>1. PICK m \in 0 .. count - 1 : i = Sent(m)
      OBVIOUS
    <3>2. i \in SentInputs /\ i.input_seq = client.input_seq + 1 + m
      BY <2>2, <3>1
    <3> QED
      BY <1>1, <3>2
  <2>7. PICK next, sent :
            /\ next = [client EXCEPT !.input_seq = client.input_seq + count]
            /\ sent = {Sent(offset) : offset \in 0 .. count - 1}
    OBVIOUS
  <2>8. \A i, j \in sent : i.input_seq = j.input_seq => i = j
    BY <2>5, <2>7
  <2>9. \A i \in sent : /\ i \in SentInputs
                       /\ i.input_seq \in client.input_seq + 1 .. next.input_seq
    BY <2>4, <2>6, <2>7
  <2> HIDE DEF Sent
  <2>10. drive_move_dir(client, start_tick, count, move_dir) = [client |-> next, sent |-> sent]
    BY <2>1, <2>7
  <2>11. next = [client EXCEPT !.input_seq = client.input_seq
                                  + IF client.peer_connected THEN count ELSE 1]
    BY <1>3, <2>7
  <2>12. next \in TestRecords
    BY <2>3, <2>7
  <2>13. PICK drive : drive = drive_move_dir(client, start_tick, count, move_dir)
    OBVIOUS
  <2>14. drive.client = next /\ drive.sent = sent
    BY <2>10, <2>13
  <2>15. sent \subseteq SentInputs
    BY <2>9
  <2>16. \A input \in drive.sent :
            input.input_seq \in client.input_seq + 1 .. drive.client.input_seq
    BY <2>9, <2>14
  <2> QED
    BY <2>8, <2>11, <2>12, <2>13, <2>14, <2>15, <2>16
<1> QED
  BY <1>2, <1>3

-----------------------------------------------------------------------------
(***************************************************************************)
(* Steps that a client does not notice, and steps of its own.              *)
(***************************************************************************)

\* A client's progress is kept when others move, and when a snapshot is broadcast to it.
LEMMA Bystander ==
    ASSUME ServerInv, ServerInv', Progress, NEW c \in Clients, ClientInv(c),
           clients'[c] = clients[c], control'[c] = control[c],
           \A packet \in realtime'[c] \ realtime[c] :
               /\ IsSnapshot(packet)'
               /\ decode(SnapshotProto_fields, packet).entities
                      = 1 .. world.next_entity_id - 1
    PROVE  ClientInv(c)'
<1>1. /\ world.tick \in Nat /\ world'.tick \in Nat /\ world.tick <= world'.tick
      /\ world.next_entity_id \in Nat /\ world'.next_entity_id \in Nat
      /\ world.next_entity_id <= world'.next_entity_id
  BY DEF Progress, ServerInv, SafetyInv, TypeOK, WorldTypeOK
<1>2. WellFormed(c)'
  <2>1. \A packet \in realtime'[c] : IsSnapshot(packet)'
    BY <1>1 DEF ClientInv, WellFormed, IsSnapshot
  <2> QED
    BY <2>1 DEF ClientInv, WellFormed
<1>3. NotJoined(c) => NotJoined(c)'
  BY DEF NotJoined
<1>4. Unwelcomed(c)' => NotJoined(c)'
  BY <1>3 DEF ClientInv, Progress
<1>5. Joined(c) => Joined(c)'
  <2> SUFFICES ASSUME NEW sid \in DOMAIN accepted_on, NEW tick \in 0 .. world.tick,
                      NEW e \in 1 .. world.next_entity_id - 1,
                      Told(c, sid, tick, e),
                      c \in GodotClients => GodotJoined(c, tick, e),
                      c \in TestClients => TestJoined(c, tick, e)
               PROVE  Joined(c)'
    BY DEF Joined
  <2>1. /\ tick \in 0 .. world'.tick
        /\ e \in 1 .. world'.next_entity_id - 1
        /\ sid \in DOMAIN accepted_on'
    BY <1>1 DEF Progress
  <2>2. \A packet \in realtime'[c] :
            LET s == decode(SnapshotProto_fields, packet) IN s.tick > tick => e \in s.entities
    BY DEF Told
  <2>3. Told(c, sid, tick, e)'
    BY <2>1, <2>2 DEF Told, Progress
  <2>4. WelcomeQueued(c, tick, e) => WelcomeQueued(c, tick, e)'
    BY DEF WelcomeQueued
  <2>5. BaselineQueued(c, tick, e) => BaselineQueued(c, tick, e)'
    BY DEF BaselineQueued
  <2>6. c \in GodotClients => GodotJoined(c, tick, e)'
    BY <1>1, <2>4, <2>5 DEF GodotJoined
  <2>7. c \in TestClients => TestJoined(c, tick, e)'
    BY <2>4, <2>5 DEF TestJoined
  <2> QED
    BY <2>1, <2>3, <2>6, <2>7 DEF Joined
<1> QED
  BY <1>2, <1>3, <1>4, <1>5 DEF ClientInv

\* The client whose session is welcomed, and what it is sent.
LEMMA WelcomeReaches ==
    ASSUME ServerInv, ConnectionsInv, NetInv, SendWelcome
    PROVE  \E c \in Clients :
               /\ welcoming \in DOMAIN accepted_on \cap DOMAIN sessions
               /\ accepted_on[welcoming] = c
               /\ control' = [control EXCEPT ![c] =
                                 IF Listening(c)
                                 THEN @ \o <<WelcomePacket(welcoming), BaselinePacket>>
                                 ELSE @]
<1>1. PICK q \in connected :
          /\ MapGet(peer_sessions, q, None) = welcoming
          /\ control' = [control EXCEPT ![connection[q]] =
                            IF Listening(connection[q])
                            THEN @ \o <<WelcomePacket(welcoming), BaselinePacket>>
                            ELSE @]
  BY DEF SendWelcome
<1>2. pc = "welcome" /\ welcoming \in DOMAIN sessions
  BY DEF SendWelcome, Welcome, welcome_for
<1>3. welcoming \in Nat
  BY <1>2 DEF ServerInv, SafetyInv, TypeOK, IdentityTypeOK
<1>4. q \in DOMAIN peer_sessions /\ peer_sessions[q] = welcoming
  BY <1>1, <1>3, NoneIsNoSession DEF MapGet
<1>5. PICK x \in connected : /\ x \in DOMAIN peer_sessions
                             /\ peer_sessions[x] = welcoming
                             /\ accepted_on[welcoming] = connection[x]
  BY <1>2 DEF ConnectionsInv
<1>6. x = q
  BY <1>4, <1>5 DEF ServerInv, BindingsInv, PeerBindings, IsInjective
<1>7. welcoming \in DOMAIN accepted_on
  BY <1>4 DEF ServerInv, BindingsInv, PeerBindings, Range, SessionHistory
<1>8. connection[q] \in Clients
  <2>1. accepted_on[welcoming] \in 1 .. connects
    BY <1>7 DEF ConnectionsInv
  <2>2. connects \in Nat /\ connects <= MaxConnects /\ MaxConnects \in Nat
    BY LoopAssumption DEF ConnectionsInv
  <2> QED
    BY <1>5, <1>6, <2>1, <2>2 DEF Clients
<1> QED
  BY <1>1, <1>2, <1>5, <1>6, <1>7, <1>8

\* What the world says of the entity a session controls.
LEMMA OwnEntity ==
    ASSUME ServerInv, NEW sid \in DOMAIN sessions
    PROVE  /\ sessions[sid].controlled_entity_id \in 1 .. world.next_entity_id - 1
           /\ sessions[sid].player_id \in Nat
           /\ entity_ids(world) = 1 .. world.next_entity_id - 1
           /\ world.tick \in Nat
           /\ world.next_entity_id \in Nat \ {0}
<1>1. /\ sessions[sid].controlled_entity_id \in DOMAIN entity_spawn_order
      /\ Len(entity_spawn_order) = world.next_entity_id - 1
  BY DEF ServerInv, SafetyInv, BindingsSpawned, CharactersFollowSpawnOrder
<1>2. DOMAIN entity_spawn_order = 1 .. Len(entity_spawn_order)
  BY DEF ServerInv, SafetyInv, TypeOK, SpawnTypeOK
<1>3. sessions[sid].player_id \in Nat
  BY ServerConfigAssumption DEF ServerInv, SafetyInv, TypeOK, IdentityTypeOK, PlayerIds
<1>4. /\ entity_ids(world) = 1 .. world.next_entity_id - 1
      /\ world.tick \in Nat /\ world.next_entity_id \in Nat \ {0}
  BY DEF entity_ids, ServerInv, SafetyInv, TypeOK, WorldTypeOK
<1> QED
  BY <1>1, <1>2, <1>3, <1>4

\* A client that is welcomed has joined.
LEMMA WelcomeJoins ==
    ASSUME ServerInv, ServerInv', ConnectionsInv, NetInv, Progress, SendWelcome,
           NEW c \in Clients, ClientInv(c)
    PROVE  ClientInv(c)'
<1>1. PICK d \in Clients :
          /\ welcoming \in DOMAIN accepted_on \cap DOMAIN sessions
          /\ accepted_on[welcoming] = d
          /\ control' = [control EXCEPT ![d] =
                            IF Listening(d)
                            THEN @ \o <<WelcomePacket(welcoming), BaselinePacket>>
                            ELSE @]
  BY WelcomeReaches
<1>2. clients' = clients /\ realtime' = realtime
  BY DEF SendWelcome
<1>3. CASE c # d \/ ~Listening(c)
  <2>1. control'[c] = control[c]
    BY <1>1, <1>3 DEF NetInv
  <2> QED
    BY <1>2, <2>1, Bystander
<1>4. CASE c = d /\ Listening(c)
  <2>1. PICK sid, w, b, tick, e :
            /\ sid = welcoming /\ w = WelcomePacket(welcoming) /\ b = BaselinePacket
            /\ tick = world.tick /\ e = sessions[welcoming].controlled_entity_id
    OBVIOUS
  <2>2. /\ pc = "welcome" /\ pc' # "welcome"
        /\ UNCHANGED <<world, sessions, accepted_on>>
    <3>1. /\ pc = "welcome" /\ pc' = resume
          /\ UNCHANGED <<world, sessions, accepted_on>>
      BY DEF SendWelcome, Welcome, welcome_for, identity_vars, history_vars
    <3> QED
      BY <3>1 DEF ServerInv, BindingsInv, WelcomesInOrder
  <2>3. Unwelcomed(c)
    BY <1>1, <1>4, <2>2 DEF Unwelcomed, ConnectionsInv, IsInjective
  <2>4. NotJoined(c)
    BY <2>3 DEF ClientInv
  <2>5. control'[c] = <<w, b>>
    <3>1. control[c] = << >>
      BY <2>4 DEF NotJoined
    <3>2. control'[c] = << >> \o <<w, b>>
      BY <1>1, <1>4, <2>1, <3>1 DEF NetInv
    <3> QED
      BY <3>2
  <2>6. /\ e \in 1 .. world.next_entity_id - 1
        /\ sessions[welcoming].player_id \in Nat
        /\ entity_ids(world) = 1 .. world.next_entity_id - 1
        /\ tick \in Nat
        /\ world.next_entity_id \in Nat \ {0}
    BY <1>1, <2>1, OwnEntity
  <2>7. IsWelcome(w, tick, e)
    <3>1. PICK m : m = [target_tick_floor    |-> target_tick_floor(tick),
                        tick_rate_hz         |-> tick_rate_hz,
                        player_id            |-> sessions[welcoming].player_id,
                        controlled_entity_id |-> e]
      OBVIOUS
    <3>2. target_tick_floor(tick) \in Nat /\ tick_rate_hz \in Nat \ {0} /\ e \in Nat
      BY <2>6, ServerConfigAssumption, ValidationConfigAssumption DEF target_tick_floor
    <3>3. /\ m \in Welcomes /\ m.tick_rate_hz # 0
          /\ m.target_tick_floor = target_tick_floor(tick)
          /\ m.controlled_entity_id = e
      BY <2>6, <3>1, <3>2 DEF Welcomes
    <3>4. w = encode(ServerWelcome_fields, m)
      BY <2>1, <3>1 DEF WelcomePacket
    <3> QED
      BY <3>3, <3>4, WelcomeDecodes DEF IsWelcome
  <2>8. IsBaseline(b, tick, e)
    <3>1. PICK m : m = [tick |-> tick, entities |-> entity_ids(world)]
      OBVIOUS
    <3>2. m \in ReceivedStates /\ e \in m.entities /\ m.entities # {} /\ m.tick = tick
      BY <2>6, <3>1 DEF ReceivedStates
    <3>3. b = encode(JoinBaseline_fields, m)
      BY <2>1, <3>1 DEF BaselinePacket, JoinBaseline
    <3>4. m.entities \in SUBSET Nat
      BY <3>2 DEF ReceivedStates
    <3> QED
      BY <3>2, <3>3, <3>4, BaselineDecodes DEF IsBaseline
  <2>9. WelcomeQueued(c, tick, e)'
    <3>1. w \in Range(<<w, b>>) /\ b \in Range(<<w, b>>)
      BY DEF Range
    <3> QED
      BY <2>5, <2>7, <2>8, <3>1 DEF WelcomeQueued
  <2>10. Told(c, sid, tick, e)'
    <3>1. \A packet \in realtime[c] : ~(decode(SnapshotProto_fields, packet).tick > tick)
      BY <2>1, <2>6 DEF ClientInv, WellFormed, IsSnapshot
    <3>2. tick \in 0 .. world'.tick /\ e \in 1 .. world'.next_entity_id - 1
      BY <2>1, <2>2, <2>6
    <3> QED
      BY <1>1, <1>2, <1>4, <2>1, <2>2, <3>1, <3>2 DEF Told
  <2>11. /\ c \in GodotClients => clients[c].state = "CONNECTING"
         /\ c \in TestClients => clients[c].state = "CONNECTING"
    BY <1>4, <2>4
       DEF Listening, NotJoined, ClientInv, WellFormed, GodotRecords, TestRecords, GodotClients
  <2>12. c \in GodotClients => GodotJoined(c, tick, e)'
    BY <1>2, <2>4, <2>9, <2>11 DEF GodotJoined, NotJoined
  <2>13. c \in TestClients => TestJoined(c, tick, e)'
    BY <1>2, <2>4, <2>9, <2>11 DEF TestJoined, NotJoined
  <2>14. Joined(c)'
    <3>1. /\ sid \in DOMAIN accepted_on'
          /\ tick \in 0 .. world'.tick /\ e \in 1 .. world'.next_entity_id - 1
      BY <2>10 DEF Told
    <3> QED
      BY <2>10, <2>12, <2>13, <3>1 DEF Joined
  <2>15. WellFormed(c)'
    BY <1>2, <2>2 DEF ClientInv, WellFormed, IsSnapshot
  <2>16. ~Unwelcomed(c)'
    BY <1>1, <1>4, <2>2 DEF Unwelcomed
  <2> QED
    BY <2>14, <2>15, <2>16 DEF ClientInv
<1> QED
  BY <1>3, <1>4

\* A snapshot that is broadcast has the entities of the world.
LEMMA BroadcastReaches ==
    ASSUME ServerInv, ServerInv', NetInv, Progress, Broadcast,
           NEW c \in Clients, ClientInv(c)
    PROVE  ClientInv(c)'
<1>1. /\ clients'[c] = clients[c] /\ control'[c] = control[c]
      /\ realtime'[c] \subseteq realtime[c] \cup {PostStepSnapshot}
  BY DEF Broadcast
<1>2. PICK m : m = [tick              |-> world.tick + 1,
                    entities          |-> entity_ids(world),
                    target_tick_floor |-> target_tick_floor(world.tick + 1)]
  OBVIOUS
<1>3. /\ world.tick \in Nat /\ world'.tick = world.tick + 1
      /\ entity_ids(world) = 1 .. world.next_entity_id - 1
      /\ world.next_entity_id \in Nat \ {0}
  BY StepEffect DEF Broadcast, Advance, entity_ids, ServerInv, SafetyInv, TypeOK, WorldTypeOK
<1>4. target_tick_floor(world.tick + 1) \in Nat
  BY <1>3, ServerConfigAssumption DEF target_tick_floor
<1>5. entity_ids(world) \in SUBSET Nat
  BY <1>3
<1>6. m \in [tick : Nat, entities : SUBSET Nat, target_tick_floor : Nat]
  BY <1>2, <1>3, <1>4, <1>5
<1>7. PICK packet : packet = PostStepSnapshot
  OBVIOUS
<1>8. decode(SnapshotProto_fields, packet) = m
  BY <1>2, <1>6, <1>7, SnapshotDecodes DEF PostStepSnapshot
<1>9. /\ m.tick \in 0 .. world'.tick /\ m.entities = 1 .. world.next_entity_id - 1
      /\ m.entities \in SUBSET Nat /\ m.target_tick_floor = target_tick_floor(m.tick)
  BY <1>2, <1>3, <1>5
<1>10. IsSnapshot(packet)'
  BY <1>8, <1>9 DEF IsSnapshot
<1> QED
  BY <1>1, <1>7, <1>8, <1>9, <1>10, Bystander

\* A step that leaves the server alone and keeps what the invariant says of client c.
LEMMA OwnStep ==
    ASSUME NEW c \in Clients, ClientInv(c), UNCHANGED all_vars,
           realtime'[c] \subseteq realtime[c],
           c \in GodotClients => clients'[c] \in GodotRecords,
           c \in TestClients => clients'[c] \in TestRecords,
           NotJoined(c) => NotJoined(c)',
           \A sid : \A tick \in 0 .. world.tick, e \in 1 .. world.next_entity_id - 1 :
               Told(c, sid, tick, e) =>
                   /\ c \in GodotClients /\ GodotJoined(c, tick, e) => GodotJoined(c, tick, e)'
                   /\ c \in TestClients /\ TestJoined(c, tick, e) => TestJoined(c, tick, e)'
    PROVE  ClientInv(c)'
<1>1. UNCHANGED <<world, sessions, accepted_on, pc, welcoming>>
  BY DEF all_vars, server_vars, identity_vars, loop_vars, history_vars
<1>2. WellFormed(c)'
  BY <1>1 DEF ClientInv, WellFormed, IsSnapshot
<1>3. Unwelcomed(c)' => NotJoined(c)'
  BY <1>1 DEF Unwelcomed, ClientInv
<1>4. Joined(c) => Joined(c)'
  <2> SUFFICES ASSUME NEW sid \in DOMAIN accepted_on, NEW tick \in 0 .. world.tick,
                      NEW e \in 1 .. world.next_entity_id - 1,
                      Told(c, sid, tick, e),
                      c \in GodotClients => GodotJoined(c, tick, e),
                      c \in TestClients => TestJoined(c, tick, e)
               PROVE  Joined(c)'
    BY DEF Joined
  <2>1. Told(c, sid, tick, e)'
    BY <1>1 DEF Told
  <2>2. /\ sid \in DOMAIN accepted_on' /\ tick \in 0 .. world'.tick
        /\ e \in 1 .. world'.next_entity_id - 1
    BY <1>1
  <2> QED
    BY <2>1, <2>2 DEF Joined
<1> QED
  BY <1>2, <1>3, <1>4 DEF ClientInv

\* What is at the head of the queue of a client that has joined.
LEMMA HeadOfQueue ==
    ASSUME NEW c \in Clients, NEW tick, NEW e
    PROVE  /\ WelcomeQueued(c, tick, e) =>
                  /\ IsWelcome(Head(control[c]), tick, e)
                  /\ \E b : Tail(control[c]) = <<b>> /\ IsBaseline(b, tick, e)
           /\ BaselineQueued(c, tick, e) =>
                  IsBaseline(Head(control[c]), tick, e) /\ Tail(control[c]) = << >>
<1>1. ASSUME WelcomeQueued(c, tick, e)
      PROVE  /\ IsWelcome(Head(control[c]), tick, e)
             /\ \E b : Tail(control[c]) = <<b>> /\ IsBaseline(b, tick, e)
  <2>1. PICK w, b : /\ control[c] = <<w, b>>
                    /\ IsWelcome(w, tick, e) /\ IsBaseline(b, tick, e)
    BY <1>1 DEF WelcomeQueued
  <2>2. Head(<<w, b>>) = w /\ Tail(<<w, b>>) = <<b>>
    OBVIOUS
  <2> QED
    BY <2>1, <2>2
<1>2. ASSUME BaselineQueued(c, tick, e)
      PROVE  IsBaseline(Head(control[c]), tick, e) /\ Tail(control[c]) = << >>
  <2>1. PICK b : control[c] = <<b>> /\ IsBaseline(b, tick, e)
    BY <1>2 DEF BaselineQueued
  <2>2. Head(<<b>>) = b /\ Tail(<<b>>) = << >>
    OBVIOUS
  <2> QED
    BY <2>1, <2>2
<1> QED
  BY <1>1, <1>2

\* The steps of a Godot client, with what they do to its record.
LEMMA GodotConnects ==
    ASSUME NetInv, NEW c \in GodotClients, ClientInv(c), ClientConnected(c)
    PROVE  /\ ClientInv(c)'
           /\ clients'[c].latest_tick = clients[c].latest_tick
           /\ clients'[c].input_seq = clients[c].input_seq
<1>1. c \in Clients /\ clients[c] \in GodotRecords
  BY DEF GodotClients, ClientInv, WellFormed
<1>2. clients'[c] = [clients[c] EXCEPT !.hello_sent = TRUE] /\ clients'[c] \in GodotRecords
  BY <1>1, GodotFields DEF ClientConnected, NetInv
<1>3. UNCHANGED <<all_vars, net_vars>>
  BY DEF ClientConnected
<1>4. control'[c] = control[c] /\ realtime'[c] = realtime[c]
  BY <1>3 DEF net_vars
<1>5. /\ clients'[c].state = clients[c].state
      /\ clients'[c].latest_tick = clients[c].latest_tick
      /\ clients'[c].views = clients[c].views
      /\ clients[c].state = "CONNECTING"
      /\ clients'[c].input_seq = clients[c].input_seq
  BY <1>1, <1>2 DEF GodotRecords, ClientConnected
<1>6. c \notin TestClients
  BY DEF GodotClients
<1>7. NotJoined(c) => NotJoined(c)'
  BY <1>4, <1>5, <1>6 DEF NotJoined
<1>8. ASSUME NEW tick, NEW e, GodotJoined(c, tick, e) PROVE GodotJoined(c, tick, e)'
  BY <1>4, <1>5, <1>8 DEF GodotJoined, WelcomeQueued
<1> QED
  BY <1>1, <1>2, <1>3, <1>4, <1>5, <1>6, <1>7, <1>8, OwnStep

\* handle_control_packet: the welcome, then the baseline.
LEMMA GodotTakesControl ==
    ASSUME ServerInv, NetInv, NEW c \in GodotClients, ClientInv(c), ClientControl(c)
    PROVE  /\ ClientInv(c)'
           /\ clients'[c].latest_tick >= clients[c].latest_tick
           /\ clients'[c].input_seq = clients[c].input_seq
<1>1. /\ c \in Clients /\ c \notin TestClients
      /\ clients[c] \in GodotRecords
      /\ control[c] # << >>
  BY DEF GodotClients, ClientInv, WellFormed, ClientControl
<1>2. /\ clients'[c] = handle_control_packet(clients[c], Head(control[c]))
      /\ control'[c] = Tail(control[c])
      /\ realtime'[c] = realtime[c]
      /\ UNCHANGED all_vars
  BY <1>1 DEF ClientControl, NetInv
<1>3. ~NotJoined(c)
  BY <1>1 DEF NotJoined
<1>4. ASSUME NEW tick \in 0 .. world.tick, NEW e \in 1 .. world.next_entity_id - 1,
             GodotJoined(c, tick, e)
      PROVE  /\ clients'[c] \in GodotRecords
             /\ GodotJoined(c, tick, e)'
             /\ clients'[c].latest_tick >= clients[c].latest_tick
             /\ clients'[c].input_seq = clients[c].input_seq
  <2>1. clients[c].state \in {"CONNECTING", "AWAITING_BASELINE"}
    BY <1>1, <1>4 DEF GodotJoined, GodotRecords
  <2>2. CASE clients[c].state = "CONNECTING"
    <3>1. WelcomeQueued(c, tick, e)
      BY <1>4, <2>2 DEF GodotJoined
    <3>2. PICK w, b : /\ w = Head(control[c]) /\ IsWelcome(w, tick, e)
                      /\ Tail(control[c]) = <<b>> /\ IsBaseline(b, tick, e)
      BY <1>1, <3>1, HeadOfQueue
    <3>3. /\ clients'[c] \in GodotRecords
          /\ clients'[c].state = "AWAITING_BASELINE"
          /\ clients'[c].tick_floor = target_tick_floor(tick)
          /\ clients'[c].welcome_entity = e
          /\ clients'[c].latest_tick = clients[c].latest_tick
          /\ clients'[c].views = clients[c].views
          /\ clients'[c].input_seq = clients[c].input_seq
      <4>1. clients'[c] = handle_control_packet(clients[c], w)
        BY <1>2, <3>2
      <4> QED
        BY <1>1, <2>2, <3>2, <4>1, TakesWelcome DEF IsWelcome
    <3>4. BaselineQueued(c, tick, e)'
      <4>1. control'[c] = <<b>>
        BY <1>2, <3>2
      <4>2. b \in Range(<<b>>)
        BY DEF Range
      <4> QED
        BY <3>2, <4>1, <4>2 DEF BaselineQueued
    <3>5. clients[c].latest_tick \in Int
      BY <1>1 DEF GodotRecords
    <3> QED
      BY <1>4, <2>2, <3>3, <3>4, <3>5 DEF GodotJoined
  <2>3. CASE clients[c].state = "AWAITING_BASELINE"
    <3>1. BaselineQueued(c, tick, e)
      BY <1>4, <2>3 DEF GodotJoined
    <3>2. PICK b : b = Head(control[c]) /\ IsBaseline(b, tick, e) /\ Tail(control[c]) = << >>
      BY <1>1, <3>1, HeadOfQueue
    <3>3. PICK joined : joined = decode(JoinBaseline_fields, b)
      OBVIOUS
    <3>4. /\ joined.tick = tick /\ joined.entities \in SUBSET Nat /\ e \in joined.entities
          /\ tick \in Nat
      BY <3>2, <3>3 DEF IsBaseline
    <3>5. clients'[c] = handle_control_packet(clients[c], b)
      BY <1>2, <3>2
    <3>6. /\ clients'[c] \in GodotRecords
          /\ clients'[c].state = "READY"
          /\ clients'[c].tick_floor = clients[c].tick_floor
          /\ clients'[c].controlled_entity_id = clients[c].welcome_entity
          /\ clients'[c].latest_tick = joined.tick
          /\ clients'[c].entities = joined.entities
          /\ clients'[c].input_seq = clients[c].input_seq
          /\ clients'[c].views = ViewsOf(clients[c].views, joined.entities,
                                         clients[c].welcome_entity)
      BY <1>1, <2>3, <3>3, <3>4, <3>5, ShowsBaseline
    <3>7. /\ clients[c].tick_floor = target_tick_floor(tick)
          /\ clients[c].welcome_entity = e
          /\ DOMAIN clients[c].views = {}
          /\ clients[c].views \in ViewMaps
      BY <1>1, <1>4, <2>3 DEF GodotJoined, GodotRecords
    <3>8. \A x \in DOMAIN clients'[c].views : clients'[c].views[x] <=> x = e
      <4>1. PICK views, E : views = clients[c].views /\ E = joined.entities
        OBVIOUS
      <4>2. /\ DOMAIN ViewsOf(views, E, e) = DOMAIN views \cup E
            /\ \A x \in E \ DOMAIN views : ViewsOf(views, E, e)[x] <=> x = e
        <5>1. views \in ViewMaps
          BY <3>7, <4>1
        <5>2. E \in SUBSET Nat
          BY <3>4, <4>1
        <5> QED
          BY <5>1, <5>2, ViewsOfType
      <4>3. clients'[c].views = ViewsOf(views, E, e)
        BY <3>6, <3>7, <4>1
      <4> QED
        BY <3>7, <4>1, <4>2, <4>3
    <3>9. tick \in tick .. world'.tick
      BY <1>2, <3>4 DEF all_vars, server_vars
    <3>10. clients'[c].latest_tick >= clients[c].latest_tick
      BY <1>4, <2>3, <3>4, <3>6 DEF GodotJoined
    <3> QED
      BY <1>2, <3>2, <3>4, <3>6, <3>7, <3>8, <3>9, <3>10 DEF GodotJoined
  <2> QED
    BY <2>1, <2>2, <2>3
<1>5. /\ clients'[c] \in GodotRecords
      /\ clients'[c].latest_tick >= clients[c].latest_tick
      /\ clients'[c].input_seq = clients[c].input_seq
  BY <1>1, <1>3, <1>4 DEF ClientInv, Joined
<1> QED
  BY <1>1, <1>2, <1>3, <1>4, <1>5, OwnStep

\* The latest of the snapshots a client finds is one that was broadcast to it.
LEMMA LatestBroadcast ==
    ASSUME ServerInv, NEW c \in Clients, ClientInv(c),
           NEW packets \in SUBSET realtime[c], packets # {}
    PROVE  \E packet, s :
               /\ packet \in realtime[c]
               /\ s = decode(SnapshotProto_fields, packet)
               /\ s = LatestSnapshot(packets) /\ s = latest_of_drain(packets)
               /\ s.tick \in 0 .. world.tick /\ s.tick \in Nat
               /\ s.entities \in SUBSET Nat
               /\ s.target_tick_floor = target_tick_floor(s.tick)
               /\ s.target_tick_floor \in Nat
<1>1. world.tick \in Nat
  BY DEF ServerInv, SafetyInv, TypeOK, WorldTypeOK
<1>2. \A packet \in packets : decode(SnapshotProto_fields, packet).tick \in 0 .. world.tick
  BY DEF ClientInv, WellFormed, IsSnapshot
<1>3. /\ latest_of_drain(packets) = LatestSnapshot(packets)
      /\ \E packet \in packets : LatestSnapshot(packets) = decode(SnapshotProto_fields, packet)
  BY <1>1, <1>2, LatestIsLatest
<1>4. PICK packet \in realtime[c] :
          LatestSnapshot(packets) = decode(SnapshotProto_fields, packet)
  BY <1>3
<1>5. PICK s : s = decode(SnapshotProto_fields, packet)
  OBVIOUS
<1>6. /\ s.tick \in 0 .. world.tick
      /\ s.entities \in SUBSET Nat
      /\ s.target_tick_floor = target_tick_floor(s.tick)
  BY <1>5 DEF ClientInv, WellFormed, IsSnapshot
<1>7. s.tick \in Nat
  BY <1>1, <1>6
<1>8. s.target_tick_floor \in Nat
  BY <1>6, <1>7, ServerConfigAssumption DEF target_tick_floor
<1> QED
  BY <1>3, <1>4, <1>5, <1>6, <1>7, <1>8

\* process_snapshots: a client that is ready takes the latest, one that is not, nothing.
LEMMA GodotTakesSnapshots ==
    ASSUME ServerInv, NetInv, NEW c \in GodotClients, ClientInv(c),
           NEW packets \in (SUBSET realtime[c]) \ {{}}, ClientSnapshots(c, packets)
    PROVE  /\ ClientInv(c)'
           /\ clients'[c].latest_tick >= clients[c].latest_tick
           /\ clients'[c].input_seq = clients[c].input_seq
<1>1. c \in Clients /\ c \notin TestClients /\ clients[c] \in GodotRecords
  BY DEF GodotClients, ClientInv, WellFormed
<1>2. /\ clients'[c] = process_snapshots(clients[c], packets)
      /\ control'[c] = control[c]
      /\ realtime'[c] = realtime[c]
      /\ UNCHANGED all_vars
  BY <1>1 DEF ClientSnapshots, NetInv, net_vars
<1>3. clients[c].latest_tick \in Int
  BY <1>1 DEF GodotRecords
<1>4. CASE clients[c].state # "READY"
  <2>1. clients'[c] = clients[c]
    BY <1>2, <1>4 DEF process_snapshots
  <2>2. NotJoined(c) => NotJoined(c)'
    BY <1>2, <2>1 DEF NotJoined
  <2>3. ASSUME NEW tick, NEW e, GodotJoined(c, tick, e), clients[c].state # "READY"
        PROVE  GodotJoined(c, tick, e)'
    BY <1>2, <2>1, <2>3 DEF GodotJoined, WelcomeQueued, BaselineQueued
  <2> QED
    BY <1>1, <1>2, <1>3, <1>4, <2>1, <2>2, <2>3, OwnStep
<1>5. CASE clients[c].state = "READY"
  <2>1. PICK packet, s :
            /\ packet \in realtime[c]
            /\ s = decode(SnapshotProto_fields, packet)
            /\ s = LatestSnapshot(packets)
            /\ s.tick \in 0 .. world.tick /\ s.tick \in Nat
            /\ s.entities \in SUBSET Nat
            /\ s.target_tick_floor = target_tick_floor(s.tick)
            /\ s.target_tick_floor \in Nat
    <3>1. packets \in SUBSET realtime[c] /\ packets # {}
      OBVIOUS
    <3> QED
      BY <1>1, <3>1, LatestBroadcast, Zenon
  <2>2. PICK n, E, own, views :
            /\ n = IF s.tick > clients[c].latest_tick THEN s.tick ELSE clients[c].latest_tick
            /\ E = IF s.tick > clients[c].latest_tick THEN s.entities ELSE clients[c].entities
            /\ own = clients[c].controlled_entity_id
            /\ views = clients[c].views
    OBVIOUS
  <2>3. /\ clients'[c] \in GodotRecords
        /\ clients'[c].state = "READY"
        /\ clients'[c].tick_floor = TickFloor_observe(clients[c].tick_floor,
                                                      s.target_tick_floor)
        /\ clients'[c].controlled_entity_id = own
        /\ clients'[c].latest_tick = n
        /\ clients'[c].entities = E
        /\ clients'[c].input_seq = clients[c].input_seq
        /\ clients'[c].views = ViewsOf(views, E, own)
    BY <1>1, <1>2, <1>5, <2>1, <2>2, ShowsSnapshot
  <2>4. ~NotJoined(c)
    BY <1>5 DEF NotJoined
  <2>5. /\ DOMAIN ViewsOf(views, E, own) = DOMAIN views \cup E
        /\ \A x \in DOMAIN views : ViewsOf(views, E, own)[x] <=> views[x]
        /\ \A x \in E \ DOMAIN views : ViewsOf(views, E, own)[x] <=> x = own
    <3>1. views \in ViewMaps
      BY <1>1, <2>2 DEF GodotRecords
    <3>2. E \in SUBSET Nat
      BY <1>1, <2>1, <2>2 DEF GodotRecords
    <3> QED
      BY <3>1, <3>2, ViewsOfType
  <2>6. ASSUME NEW tick \in 0 .. world.tick, NEW e \in 1 .. world.next_entity_id - 1, NEW sid,
               Told(c, sid, tick, e), GodotJoined(c, tick, e)
        PROVE  GodotJoined(c, tick, e)'
    <3>1. /\ control[c] = << >>
          /\ clients[c].latest_tick \in tick .. world.tick
          /\ clients[c].tick_floor = target_tick_floor(clients[c].latest_tick)
          /\ own = e
          /\ e \in clients[c].entities
          /\ \A x \in DOMAIN views : views[x] <=> x = e
      BY <1>5, <2>2, <2>6 DEF GodotJoined
    <3>2. world.tick \in Nat /\ tick \in Nat
      BY DEF ServerInv, SafetyInv, TypeOK, WorldTypeOK
    <3>3. n \in tick .. world.tick
      BY <2>1, <2>2, <3>1, <3>2
    <3>4. clients'[c].tick_floor = target_tick_floor(n)
      <4>1. PICK shown, seen, lead :
                /\ shown = clients[c].latest_tick /\ seen = s.tick /\ lead = input_lead_ticks
                /\ shown \in Nat /\ seen \in Nat /\ lead \in Nat
        BY <2>1, <3>1, <3>2, ServerConfigAssumption
      <4>2. /\ clients'[c].tick_floor = TickFloor_observe(shown + lead, seen + lead)
            /\ n = IF seen > shown THEN seen ELSE shown
        BY <2>1, <2>2, <2>3, <3>1, <4>1 DEF target_tick_floor
      <4>3. clients'[c].tick_floor = n + lead
        BY <4>1, <4>2 DEF TickFloor_observe
      <4> QED
        BY <4>1, <4>3 DEF target_tick_floor
    <3>5. e \in E
      <4>1. s.tick > tick => e \in s.entities
        BY <2>1, <2>6 DEF Told
      <4> QED
        BY <2>1, <2>2, <3>1, <3>2, <4>1
    <3>6. \A x \in DOMAIN clients'[c].views : clients'[c].views[x] <=> x = e
      BY <2>3, <2>5, <3>1
    <3>7. world' = world
      BY <1>2 DEF all_vars, server_vars
    <3> QED
      BY <1>2, <2>3, <3>1, <3>3, <3>4, <3>5, <3>6, <3>7 DEF GodotJoined
  <2>7. clients'[c].latest_tick >= clients[c].latest_tick
    BY <1>3, <2>1, <2>2, <2>3
  <2> QED
    BY <1>1, <1>2, <2>3, <2>4, <2>6, <2>7, OwnStep
<1> QED
  BY <1>4, <1>5

\* send_input: only the sequence number moves.
LEMMA GodotSends ==
    ASSUME NetInv, NEW c \in GodotClients, ClientInv(c),
           NEW move_dir \in MoveDirs, ClientSends(c, move_dir)
    PROVE  /\ ClientInv(c)'
           /\ clients'[c].latest_tick = clients[c].latest_tick
           /\ clients'[c].input_seq = clients[c].input_seq + 1
<1>1. c \in Clients /\ c \notin TestClients /\ clients[c] \in GodotRecords
  BY DEF GodotClients, ClientInv, WellFormed
<1>2. /\ clients'[c] \in GodotRecords
      /\ clients'[c] = [clients[c] EXCEPT !.input_seq = clients[c].input_seq + 1]
  <2>1. clients'[c] = AfterSend(clients[c])
    BY <1>1 DEF ClientSends, NetInv
  <2> QED
    BY <1>1, <2>1, GodotFields
<1>3. UNCHANGED <<all_vars, control, realtime>> /\ clients[c].state = "READY"
  BY DEF ClientSends
<1>4. /\ clients'[c].state = clients[c].state
      /\ clients'[c].latest_tick = clients[c].latest_tick
      /\ clients'[c].tick_floor = clients[c].tick_floor
      /\ clients'[c].controlled_entity_id = clients[c].controlled_entity_id
      /\ clients'[c].entities = clients[c].entities
      /\ clients'[c].views = clients[c].views
      /\ clients'[c].input_seq = clients[c].input_seq + 1
  BY <1>1, <1>2 DEF GodotRecords
<1>5. ~NotJoined(c)
  BY <1>3 DEF NotJoined
<1>6. world' = world
  BY <1>3 DEF all_vars, server_vars
<1>7. ASSUME NEW tick, NEW e, GodotJoined(c, tick, e) PROVE GodotJoined(c, tick, e)'
  BY <1>3, <1>4, <1>6, <1>7 DEF GodotJoined
<1> QED
  BY <1>1, <1>2, <1>3, <1>4, <1>5, <1>7, OwnStep

\* EVENT_DISCONNECT: what was on its way to the client is gone.
LEMMA GodotDisconnects ==
    ASSUME NetInv, NEW c \in GodotClients, ClientInv(c), ClientDisconnected(c)
    PROVE  /\ ClientInv(c)'
           /\ clients'[c].latest_tick = clients[c].latest_tick
           /\ clients'[c].input_seq = clients[c].input_seq
<1>1. c \in Clients /\ c \notin TestClients /\ clients[c] \in GodotRecords
  BY DEF GodotClients, ClientInv, WellFormed
<1>2. /\ clients'[c] \in GodotRecords
      /\ clients'[c] = [clients[c] EXCEPT !.state = "DISCONNECTED"]
  <2>1. clients'[c] = on_disconnect(clients[c])
    BY <1>1 DEF ClientDisconnected, NetInv
  <2> QED
    BY <1>1, <2>1, GodotFields
<1>3. control'[c] = << >> /\ realtime'[c] = {} /\ UNCHANGED all_vars
  BY <1>1 DEF ClientDisconnected, StopsListening, NetInv
<1>4. /\ clients'[c].state = "DISCONNECTED"
      /\ clients'[c].latest_tick = clients[c].latest_tick
      /\ clients'[c].views = clients[c].views
      /\ clients'[c].input_seq = clients[c].input_seq
  BY <1>1, <1>2 DEF GodotRecords
<1>5. NotJoined(c) => NotJoined(c)'
  BY <1>1, <1>3, <1>4 DEF NotJoined
<1>6. ASSUME NEW tick, NEW e PROVE GodotJoined(c, tick, e)'
  BY <1>3, <1>4 DEF GodotJoined
<1> QED
  BY <1>1, <1>2, <1>3, <1>4, <1>5, <1>6, OwnStep

\* The steps of a test client: Event::Connect, in connect.
LEMMA TestConnects ==
    ASSUME NetInv, NEW c \in TestClients, ClientInv(c), TestConnected(c)
    PROVE  ClientInv(c)' /\ clients'[c].input_seq = clients[c].input_seq
<1>1. c \in Clients /\ c \notin GodotClients /\ clients[c] \in TestRecords
  BY MatchAssumption DEF GodotClients, ClientInv, WellFormed
<1>2. /\ clients'[c] \in TestRecords
      /\ clients'[c] = [clients[c] EXCEPT !.hello_sent = TRUE, !.peer_connected = TRUE]
  <2>1. clients'[c] = connect_on_connect(clients[c])
    BY <1>1 DEF TestConnected, NetInv
  <2> QED
    BY <1>1, <2>1, TestFields
<1>3. UNCHANGED <<all_vars, control, realtime>> /\ clients[c].state = "CONNECTING"
  BY DEF TestConnected, net_vars
<1>4. /\ clients'[c].state = clients[c].state
      /\ clients'[c].baseline = clients[c].baseline
      /\ clients'[c].snapshot = clients[c].snapshot
      /\ clients'[c].input_seq = clients[c].input_seq
  BY <1>1, <1>2 DEF TestRecords
<1>5. NotJoined(c) => NotJoined(c)'
  BY <1>1, <1>3, <1>4 DEF NotJoined
<1>6. ASSUME NEW tick, NEW e, TestJoined(c, tick, e) PROVE TestJoined(c, tick, e)'
  BY <1>3, <1>4, <1>6 DEF TestJoined, WelcomeQueued
<1> QED
  BY <1>1, <1>2, <1>3, <1>4, <1>5, <1>6, OwnStep

\* The welcome ends connect, and leaves the baseline behind it in the queue.
LEMMA TestIsWelcomed ==
    ASSUME ServerInv, NetInv, NEW c \in TestClients, ClientInv(c), TestWelcomed(c)
    PROVE  ClientInv(c)' /\ clients'[c].input_seq = clients[c].input_seq
<1>1. /\ c \in Clients /\ c \notin GodotClients
      /\ clients[c] \in TestRecords
      /\ control[c] # << >> /\ clients[c].state = "CONNECTING"
  BY MatchAssumption DEF GodotClients, ClientInv, WellFormed, TestWelcomed
<1>2. /\ clients'[c] = connect_on_control(clients[c], Head(control[c]))
      /\ control'[c] = Tail(control[c])
      /\ realtime'[c] = realtime[c]
      /\ UNCHANGED all_vars
  BY <1>1 DEF TestWelcomed, NetInv
<1>3. ~NotJoined(c)
  BY <1>1 DEF NotJoined
<1>4. ASSUME NEW tick, NEW e, TestJoined(c, tick, e)
      PROVE  /\ clients'[c] \in TestRecords /\ TestJoined(c, tick, e)'
             /\ clients'[c].input_seq = clients[c].input_seq
  <2>1. WelcomeQueued(c, tick, e)
    BY <1>1, <1>4 DEF TestJoined
  <2>2. PICK w, b : /\ w = Head(control[c]) /\ IsWelcome(w, tick, e)
                    /\ Tail(control[c]) = <<b>> /\ IsBaseline(b, tick, e)
    BY <1>1, <2>1, HeadOfQueue
  <2>3. clients'[c] = connect_on_control(clients[c], w)
    BY <1>2, <2>2
  <2>4. /\ clients'[c] \in TestRecords
        /\ clients'[c].state = "CONNECTED"
        /\ clients'[c].welcome = decode(ServerWelcome_fields, w)
        /\ clients'[c].snapshot = clients[c].snapshot
        /\ clients'[c].input_seq = clients[c].input_seq
    BY <1>1, <2>2, <2>3, TestTakesWelcome DEF IsWelcome
  <2>5. BaselineQueued(c, tick, e)'
    <3>1. control'[c] = <<b>>
      BY <1>2, <2>2
    <3>2. b \in Range(<<b>>)
      BY DEF Range
    <3> QED
      BY <2>2, <3>1, <3>2 DEF BaselineQueued
  <2>6. clients[c].snapshot = None
    BY <1>1, <1>4 DEF TestJoined
  <2> QED
    BY <2>2, <2>4, <2>5, <2>6 DEF TestJoined, IsWelcome
<1>5. clients'[c] \in TestRecords /\ clients'[c].input_seq = clients[c].input_seq
  BY <1>1, <1>3, <1>4 DEF ClientInv, Joined
<1> QED
  BY <1>1, <1>2, <1>3, <1>4, <1>5, OwnStep

\* ConnectError: nobody is there for what arrives later.
LEMMA TestFails ==
    ASSUME NetInv, NEW c \in TestClients, ClientInv(c), TestConnectFails(c)
    PROVE  ClientInv(c)' /\ clients'[c].input_seq = clients[c].input_seq
<1>1. /\ c \in Clients /\ c \notin GodotClients
      /\ clients[c] \in TestRecords /\ clients[c].state = "CONNECTING"
  BY MatchAssumption DEF GodotClients, ClientInv, WellFormed, TestConnectFails
<1>2. clients'[c] \in TestRecords /\ clients'[c] = [clients[c] EXCEPT !.state = "FAILED"]
  <2>1. clients'[c] = connect_fails(clients[c])
    BY <1>1 DEF TestConnectFails, NetInv
  <2> QED
    BY <1>1, <2>1, TestFields
<1>3. control'[c] = << >> /\ realtime'[c] = {} /\ UNCHANGED all_vars
  BY <1>1 DEF TestConnectFails, StopsListening, NetInv
<1>4. /\ clients'[c].state = "FAILED"
      /\ clients'[c].baseline = clients[c].baseline
      /\ clients'[c].snapshot = clients[c].snapshot
      /\ clients'[c].input_seq = clients[c].input_seq
  BY <1>1, <1>2 DEF TestRecords
<1>5. NotJoined(c) => NotJoined(c)'
  BY <1>1, <1>3, <1>4 DEF NotJoined
<1>6. ASSUME NEW tick, NEW e, TestJoined(c, tick, e) PROVE TestJoined(c, tick, e)'
  BY <1>1, <1>3, <1>4, <1>6 DEF TestJoined
<1> QED
  BY <1>1, <1>2, <1>3, <1>4, <1>5, <1>6, OwnStep

\* recv_baseline: the only packet that can be queued is the baseline.
LEMMA TestGetsBaseline ==
    ASSUME ServerInv, NetInv, NEW c \in TestClients, ClientInv(c), TestReceivesBaseline(c)
    PROVE  ClientInv(c)' /\ clients'[c].input_seq = clients[c].input_seq
<1>1. /\ c \in Clients /\ c \notin GodotClients
      /\ clients[c] \in TestRecords
      /\ control[c] # << >> /\ clients[c].state = "CONNECTED"
  BY MatchAssumption DEF GodotClients, ClientInv, WellFormed, TestReceivesBaseline
<1>2. /\ clients'[c] = recv_baseline_on_control(clients[c], Head(control[c]))
      /\ control'[c] = Tail(control[c])
      /\ realtime'[c] = realtime[c]
      /\ UNCHANGED all_vars
  BY <1>1 DEF TestReceivesBaseline, NetInv
<1>3. ~NotJoined(c)
  BY <1>1 DEF NotJoined
<1>4. ASSUME NEW tick \in 0 .. world.tick, NEW e, TestJoined(c, tick, e)
      PROVE  /\ clients'[c] \in TestRecords /\ TestJoined(c, tick, e)'
             /\ clients'[c].input_seq = clients[c].input_seq
  <2>1. BaselineQueued(c, tick, e)
    BY <1>1, <1>4 DEF TestJoined
  <2>2. PICK b : b = Head(control[c]) /\ IsBaseline(b, tick, e) /\ Tail(control[c]) = << >>
    BY <1>1, <2>1, HeadOfQueue
  <2>3. PICK joined : joined = decode(JoinBaseline_fields, b)
    OBVIOUS
  <2>4. /\ joined.tick \in Nat /\ joined.entities \in SUBSET Nat
        /\ decodes(JoinBaseline_fields, b)
    BY <2>2, <2>3 DEF IsBaseline
  <2>5. clients'[c] = recv_baseline_on_control(clients[c], b)
    BY <1>2, <2>2
  <2>6. /\ clients'[c] \in TestRecords
        /\ clients'[c].baseline # None
        /\ clients'[c].state = "CONNECTED"
        /\ clients'[c].welcome = clients[c].welcome
        /\ clients'[c].snapshot = clients[c].snapshot
        /\ clients'[c].input_seq = clients[c].input_seq
    BY <1>1, <2>3, <2>4, <2>5, TestTakesBaseline
  <2>7. control'[c] = << >>
    BY <1>2, <2>2
  <2> QED
    BY <1>1, <1>4, <2>6, <2>7 DEF TestJoined
<1>5. clients'[c] \in TestRecords /\ clients'[c].input_seq = clients[c].input_seq
  BY <1>1, <1>3, <1>4 DEF ClientInv, Joined
<1> QED
  BY <1>1, <1>2, <1>3, <1>4, <1>5, OwnStep

\* poll_snapshot: its drain may take the baseline along, but then the poll was early.
LEMMA TestPollsKeeps ==
    ASSUME ServerInv, NetInv, NEW c \in TestClients, ClientInv(c),
           NEW arrived \in 0 .. Len(control[c]), NEW packets \in SUBSET realtime[c],
           TestPolls(c, arrived, packets)
    PROVE  ClientInv(c)' /\ clients'[c].input_seq = clients[c].input_seq
<1>1. /\ c \in Clients /\ c \notin GodotClients
      /\ clients[c] \in TestRecords /\ clients[c].state = "CONNECTED"
  BY MatchAssumption DEF GodotClients, ClientInv, WellFormed, TestPolls
<1>2. /\ clients'[c] = poll_snapshot(clients[c], packets)
      /\ control'[c] = SubSeq(control[c], arrived + 1, Len(control[c]))
      /\ realtime'[c] = realtime[c]
      /\ UNCHANGED all_vars
  BY <1>1 DEF TestPolls, NetInv
<1>3. ~NotJoined(c)
  BY <1>1 DEF NotJoined
<1>4. PICK packet, s :
          packets # {} => /\ packet \in realtime[c]
                          /\ s = decode(SnapshotProto_fields, packet)
                          /\ s = latest_of_drain(packets)
                          /\ s.tick \in Nat
                          /\ s.entities \in SUBSET Nat
                          /\ s.target_tick_floor \in Nat
  <2>1. CASE packets = {}
    BY <2>1
  <2>2. CASE packets # {}
    BY <1>1, <2>2, LatestBroadcast, Zenon
  <2> QED
    BY <2>1, <2>2
<1>5. /\ clients'[c] \in TestRecords
      /\ packets = {} => clients'[c].snapshot = clients[c].snapshot
      /\ packets # {} => clients'[c].snapshot = [tick |-> s.tick, entities |-> s.entities]
      /\ clients'[c].polled_early <=> clients[c].polled_early \/ clients[c].baseline = None
      /\ clients'[c].baseline = clients[c].baseline
      /\ clients'[c].state = clients[c].state
      /\ clients'[c].welcome = clients[c].welcome
      /\ clients'[c].peer_connected = clients[c].peer_connected
      /\ clients'[c].input_seq = clients[c].input_seq
  <2>1. PICK client, next : client = clients[c] /\ next = poll_snapshot(client, packets)
    OBVIOUS
  <2>2. /\ next \in TestRecords
        /\ packets = {} => next.snapshot = client.snapshot
        /\ packets # {} => next.snapshot = [tick     |-> latest_of_drain(packets).tick,
                                            entities |-> latest_of_drain(packets).entities]
        /\ next.polled_early <=> client.polled_early \/ client.baseline = None
        /\ next.baseline = client.baseline
        /\ next.state = client.state
        /\ next.welcome = client.welcome
        /\ next.peer_connected = client.peer_connected
        /\ next.input_seq = client.input_seq
    <3>1. client \in TestRecords
      BY <1>1, <2>1
    <3>2. packets # {} => /\ latest_of_drain(packets).tick \in Nat
                          /\ latest_of_drain(packets).entities \in SUBSET Nat
                          /\ latest_of_drain(packets).target_tick_floor \in Nat
      BY <1>4
    <3> QED
      BY <2>1, <3>1, <3>2, TestPolled
  <2> QED
    BY <1>2, <1>4, <2>1, <2>2
<1>6. ASSUME NEW tick \in 0 .. world.tick, NEW e \in 1 .. world.next_entity_id - 1, NEW sid,
             Told(c, sid, tick, e), TestJoined(c, tick, e)
      PROVE  TestJoined(c, tick, e)'
  <2>1. /\ control[c] = << >> \/ BaselineQueued(c, tick, e)
        /\ clients[c].welcome \in Welcomes
        /\ clients[c].welcome.target_tick_floor = target_tick_floor(tick)
        /\ clients[c].welcome.controlled_entity_id = e
        /\ clients[c].snapshot # None =>
               /\ clients[c].snapshot \in ReceivedStates
               /\ clients[c].snapshot.tick > tick => e \in clients[c].snapshot.entities
    BY <1>1, <1>6 DEF TestJoined
  <2>2. control'[c] = << >> \/ control'[c] = control[c]
    <3>1. CASE control[c] = << >>
      BY <1>2, <3>1
    <3>2. CASE BaselineQueued(c, tick, e)
      <4>1. PICK b : control[c] = <<b>>
        BY <3>2 DEF BaselineQueued
      <4>2. /\ SubSeq(control[c], 1, Len(control[c])) = control[c]
            /\ SubSeq(control[c], 2, Len(control[c])) = << >>
            /\ arrived \in {0, 1}
        <5>1. PICK q, n : q = control[c] /\ n = Len(q)
          OBVIOUS
        <5>2. q \in Seq({b}) /\ n = 1
          BY <4>1, <5>1
        <5>3. SubSeq(q, 1, Len(q)) = q
          BY <5>2, SubSeqFull
        <5>4. SubSeq(q, 2, n) = << >>
          BY <5>2, SubSeqEmpty
        <5> QED
          BY <5>1, <5>2, <5>3, <5>4
      <4> QED
        BY <1>2, <4>2
    <3> QED
      BY <2>1, <3>1, <3>2
  <2>3. control'[c] = << >> \/ BaselineQueued(c, tick, e)'
    BY <2>1, <2>2 DEF BaselineQueued
  <2>4. clients'[c].peer_connected /\ ~clients'[c].polled_early => clients'[c].baseline # None
    BY <1>5
  <2>5. clients'[c].snapshot # None =>
            /\ clients'[c].snapshot \in ReceivedStates
            /\ clients'[c].snapshot.tick > tick => e \in clients'[c].snapshot.entities
    <3>1. CASE packets = {}
      BY <1>5, <2>1, <3>1
    <3>2. CASE packets # {}
      <4>1. s.tick > tick => e \in s.entities
        BY <1>4, <1>6, <3>2 DEF Told
      <4> QED
        BY <1>4, <1>5, <3>2, <4>1 DEF ReceivedStates
    <3> QED
      BY <3>1, <3>2
  <2> QED
    BY <1>1, <1>5, <2>1, <2>3, <2>4, <2>5 DEF TestJoined
<1> QED
  BY <1>1, <1>2, <1>3, <1>5, <1>6, OwnStep

\* drive_move_dir: only the sequence number moves.
LEMMA TestDrivesKeeps ==
    ASSUME NetInv, NEW c \in TestClients, ClientInv(c),
           NEW start_tick \in InputTicks, NEW count \in 1 .. MaxInputs,
           NEW move_dir \in MoveDirs, TestDrives(c, start_tick, count, move_dir)
    PROVE  ClientInv(c)'
<1>1. /\ c \in Clients /\ c \notin GodotClients
      /\ clients[c] \in TestRecords /\ clients[c].state = "CONNECTED"
  BY MatchAssumption DEF GodotClients, ClientInv, WellFormed, TestDrives
<1>2. PICK drive : drive = drive_move_dir(clients[c], start_tick, count, move_dir)
  OBVIOUS
<1>3. clients'[c] = drive.client /\ UNCHANGED <<all_vars, control, realtime>>
  BY <1>1, <1>2 DEF TestDrives, NetInv
<1>4. /\ drive.client \in TestRecords
      /\ drive.client = [clients[c] EXCEPT !.input_seq = clients[c].input_seq
                             + IF clients[c].peer_connected THEN count ELSE 1]
  <2>1. start_tick \in Nat /\ count \in Nat \ {0}
    BY InputAssumption, MatchAssumption
  <2> QED
    BY <1>1, <1>2, <2>1, TestDrove
<1>5. /\ clients'[c].state = clients[c].state
      /\ clients'[c].welcome = clients[c].welcome
      /\ clients'[c].baseline = clients[c].baseline
      /\ clients'[c].snapshot = clients[c].snapshot
      /\ clients'[c].polled_early = clients[c].polled_early
      /\ clients'[c].peer_connected = clients[c].peer_connected
  BY <1>1, <1>3, <1>4 DEF TestRecords
<1>6. ~NotJoined(c)
  BY <1>1 DEF NotJoined
<1>7. ASSUME NEW tick, NEW e, TestJoined(c, tick, e) PROVE TestJoined(c, tick, e)'
  BY <1>1, <1>3, <1>5, <1>7 DEF TestJoined, BaselineQueued
<1> QED
  BY <1>1, <1>3, <1>4, <1>6, <1>7, OwnStep

\* A dropped peer takes along what was on its way; inside connect the client is left as one
\* that was told nothing.
LEMMA TestDisconnects ==
    ASSUME NetInv, NEW c \in TestClients, ClientInv(c), TestDisconnected(c)
    PROVE  ClientInv(c)' /\ clients'[c].input_seq = clients[c].input_seq
<1>1. /\ c \in Clients /\ c \notin GodotClients
      /\ clients[c] \in TestRecords /\ clients[c].state \in {"CONNECTING", "CONNECTED"}
  BY MatchAssumption DEF GodotClients, ClientInv, WellFormed, TestDisconnected, TestRecords
<1>2. /\ clients'[c] \in TestRecords
      /\ clients'[c] = [clients[c] EXCEPT !.peer_connected = FALSE]
  <2>1. clients'[c] = skip_disconnect(clients[c])
    BY <1>1 DEF TestDisconnected, NetInv
  <2> QED
    BY <1>1, <2>1, TestFields
<1>3. control'[c] = << >> /\ realtime'[c] = {} /\ UNCHANGED all_vars
  BY <1>1 DEF TestDisconnected, StopsListening, NetInv
<1>4. /\ clients'[c].state = clients[c].state
      /\ clients'[c].welcome = clients[c].welcome
      /\ clients'[c].baseline = clients[c].baseline
      /\ clients'[c].snapshot = clients[c].snapshot
      /\ clients'[c].input_seq = clients[c].input_seq
      /\ ~clients'[c].peer_connected
  BY <1>1, <1>2 DEF TestRecords
<1>5. CASE clients[c].state = "CONNECTED"
  <2>1. ~NotJoined(c)
    BY <1>5 DEF NotJoined
  <2>2. ASSUME NEW tick, NEW e, TestJoined(c, tick, e) PROVE TestJoined(c, tick, e)'
    BY <1>3, <1>4, <1>5, <2>2 DEF TestJoined
  <2> QED
    BY <1>1, <1>2, <1>3, <1>4, <2>1, <2>2, OwnStep
<1>6. CASE clients[c].state = "CONNECTING"
  <2>1. clients[c].baseline = None /\ clients[c].snapshot = None
    BY <1>6 DEF ClientInv, NotJoined, Joined, TestJoined
  <2>2. NotJoined(c)'
    BY <1>1, <1>3, <1>4, <1>6, <2>1 DEF NotJoined
  <2>3. WellFormed(c)'
    BY <1>1, <1>2, <1>3 DEF WellFormed
  <2> QED
    BY <1>4, <2>2, <2>3 DEF ClientInv
<1> QED
  BY <1>1, <1>5, <1>6

-----------------------------------------------------------------------------
(***************************************************************************)
(* Every step of a match keeps the invariant.                              *)
(***************************************************************************)

GodotStep(c) ==
    \/ ClientConnected(c)
    \/ ClientControl(c)
    \/ \E packets \in (SUBSET realtime[c]) \ {{}} : ClientSnapshots(c, packets)
    \/ \E move_dir \in MoveDirs : ClientSends(c, move_dir)
    \/ ClientDisconnected(c)

TestStep(c) ==
    \/ TestConnected(c)
    \/ TestWelcomed(c)
    \/ TestConnectFails(c)
    \/ TestReceivesBaseline(c)
    \/ \E arrived \in 0 .. Len(control[c]), packets \in SUBSET realtime[c] :
           TestPolls(c, arrived, packets)
    \/ \E start_tick \in InputTicks, count \in 1 .. MaxInputs, move_dir \in MoveDirs :
           TestDrives(c, start_tick, count, move_dir)
    \/ TestDisconnected(c)

\* The server's steps that no client notices.
QuietStep ==
    \/ \E q \in Peers : ReceiveHello(q) \/ PeerGone(q)
    \/ \E q \in Peers : \E input \in UNION Range(inflight) : ReceiveInput(q, input)
    \/ ServerStep
    \/ MatchOver
    \/ UNCHANGED match_vars

\* The steps of a match, by who notices them.
LEMMA MatchSteps ==
    [MatchNext]_match_vars =>
        \/ QuietStep \/ SendWelcome \/ Broadcast
        \/ \E c \in GodotClients : GodotStep(c)
        \/ \E c \in TestClients : TestStep(c)
BY Zenon DEF MatchNext, QuietStep, GodotStep, TestStep

\* A step of one client leaves the others, and the server, alone.
LEMMA OthersUnmoved ==
    ASSUME NetInv, NEW c \in Clients, GodotStep(c) \/ TestStep(c)
    PROVE  /\ UNCHANGED all_vars
           /\ clients' = [d \in Clients |-> clients'[d]]
           /\ control' = [d \in Clients |-> control'[d]]
           /\ realtime' = [d \in Clients |-> realtime'[d]]
           /\ \A d \in Clients \ {c} :
                  /\ clients'[d] = clients[d]
                  /\ control'[d] = control[d]
                  /\ realtime'[d] = realtime[d]
           /\ inflight' = inflight \/ \E more : inflight' = [inflight EXCEPT ![c] = @ \cup more]
<1>1. CASE ClientConnected(c) \/ TestConnected(c)
  BY <1>1 DEF NetInv, ClientConnected, TestConnected, net_vars
<1>2. CASE ClientControl(c) \/ TestWelcomed(c) \/ TestReceivesBaseline(c)
  BY <1>2 DEF NetInv, ClientControl, TestWelcomed, TestReceivesBaseline
<1>3. CASE \E packets \in (SUBSET realtime[c]) \ {{}} : ClientSnapshots(c, packets)
  BY <1>3 DEF NetInv, ClientSnapshots, net_vars
<1>4. CASE \E move_dir \in MoveDirs : ClientSends(c, move_dir)
  BY <1>4 DEF NetInv, ClientSends
<1>5. CASE ClientDisconnected(c) \/ TestConnectFails(c) \/ TestDisconnected(c)
  BY <1>5 DEF NetInv, ClientDisconnected, TestConnectFails, TestDisconnected, StopsListening
<1>6. CASE \E arrived \in 0 .. Len(control[c]), packets \in SUBSET realtime[c] :
               TestPolls(c, arrived, packets)
  BY <1>6 DEF NetInv, TestPolls
<1>7. CASE \E start_tick \in InputTicks, count \in 1 .. MaxInputs, move_dir \in MoveDirs :
               TestDrives(c, start_tick, count, move_dir)
  BY <1>7 DEF NetInv, TestDrives
<1> QED
  BY <1>1, <1>2, <1>3, <1>4, <1>5, <1>6, <1>7 DEF GodotStep, TestStep

\* Each client's progress is kept.
LEMMA ClientsKept ==
    ASSUME ServerInv, ServerInv', ConnectionsInv, NetInv, Progress,
           [MatchNext]_match_vars, NEW c \in Clients, ClientInv(c)
    PROVE  ClientInv(c)'
<1>1. CASE QuietStep
  <2>1. UNCHANGED <<clients, control, realtime>>
    BY <1>1 DEF QuietStep, ReceiveHello, PeerGone, ReceiveInput, ServerStep, MatchOver,
                match_vars, net_vars
  <2> QED
    BY <2>1, Bystander
<1>2. CASE SendWelcome
  BY <1>2, WelcomeJoins
<1>3. CASE Broadcast
  BY <1>3, BroadcastReaches
<1>4. ASSUME NEW d \in Clients, GodotStep(d) \/ TestStep(d), d # c
      PROVE  ClientInv(c)'
  <2>1. clients'[c] = clients[c] /\ control'[c] = control[c] /\ realtime'[c] = realtime[c]
    BY <1>4, OthersUnmoved
  <2> QED
    BY <2>1, Bystander
<1>5. CASE c \in GodotClients /\ GodotStep(c)
  BY <1>5, GodotConnects, GodotTakesControl, GodotTakesSnapshots, GodotSends,
     GodotDisconnects DEF GodotStep
<1>6. CASE c \in TestClients /\ TestStep(c)
  BY <1>6, TestConnects, TestIsWelcomed, TestFails, TestGetsBaseline, TestPollsKeeps,
     TestDrivesKeeps, TestDisconnects DEF TestStep
<1> QED
  <2>1. GodotClients \subseteq Clients /\ TestClients \subseteq Clients
    BY MatchAssumption DEF GodotClients
  <2> QED
    BY <1>1, <1>2, <1>3, <1>4, <1>5, <1>6, <2>1, MatchSteps

\* A client that may send has been accepted, and a Godot client's floor is one that
\* the server has reached.
LEMMA SendersAccepted ==
    ASSUME ServerInv, NEW c \in Clients, ClientInv(c),
           clients[c].state \in {"READY", "CONNECTED"}
    PROVE  /\ c \in Range(accepted_on)
           /\ c \in GodotClients =>
                  /\ clients[c] \in GodotRecords
                  /\ clients[c].tick_floor <= target_tick_floor(world.tick)
<1>1. ~NotJoined(c)
  BY DEF NotJoined
<1>2. PICK sid \in DOMAIN accepted_on, tick \in 0 .. world.tick,
           e \in 1 .. world.next_entity_id - 1 :
               Told(c, sid, tick, e) /\ (c \in GodotClients => GodotJoined(c, tick, e))
  BY <1>1 DEF ClientInv, Joined
<1>3. c \in Range(accepted_on)
  BY <1>2 DEF Told, Range
<1>4. ASSUME c \in GodotClients
      PROVE  /\ clients[c] \in GodotRecords
             /\ clients[c].tick_floor <= target_tick_floor(world.tick)
  <2>1. clients[c] \in GodotRecords
    BY <1>4 DEF ClientInv, WellFormed
  <2>2. clients[c].state = "READY"
    BY <2>1 DEF GodotRecords
  <2>3. /\ clients[c].latest_tick \in tick .. world.tick
        /\ clients[c].tick_floor = target_tick_floor(clients[c].latest_tick)
    BY <1>2, <1>4, <2>2 DEF GodotJoined
  <2>4. world.tick \in Nat /\ tick \in Nat /\ input_lead_ticks \in Nat
    BY ServerConfigAssumption DEF ServerInv, SafetyInv, TypeOK, WorldTypeOK
  <2> QED
    BY <2>1, <2>3, <2>4 DEF target_tick_floor
<1> QED
  BY <1>3, <1>4

\* What the senders put on the way.
LEMMA Sending ==
    ASSUME ServerInv, NetInv, NEW c \in Clients, ClientInv(c),
           \/ c \in GodotClients /\ GodotStep(c)
           \/ c \in TestClients /\ TestStep(c)
    PROVE  \/ inflight' = inflight
           \/ \E sent :
                  /\ inflight' = [inflight EXCEPT ![c] = @ \cup sent]
                  /\ sent \subseteq SentInputs
                  /\ c \in Range(accepted_on)
                  /\ c \in GodotClients =>
                         \A input \in sent : input.tick <= target_tick_floor(world.tick)
<1>1. ASSUME NEW move_dir \in MoveDirs, ClientSends(c, move_dir), c \in GodotClients
      PROVE  \E sent :
                  /\ inflight' = [inflight EXCEPT ![c] = @ \cup sent]
                  /\ sent \subseteq SentInputs
                  /\ c \in Range(accepted_on)
                  /\ \A input \in sent : input.tick <= target_tick_floor(world.tick)
  <2>1. PICK input : input = InputCmdToSend(clients[c], move_dir, clients[c].tick_floor)
    OBVIOUS
  <2>2. inflight' = [inflight EXCEPT ![c] = @ \cup {input}] /\ clients[c].state = "READY"
    BY <1>1, <2>1 DEF ClientSends
  <2>3. /\ c \in Range(accepted_on)
        /\ clients[c] \in GodotRecords
        /\ clients[c].tick_floor <= target_tick_floor(world.tick)
    BY <1>1, <2>2, SendersAccepted
  <2>4. clients[c].tick_floor \in Nat /\ clients[c].input_seq \in Nat
    BY <2>3 DEF GodotRecords
  <2>5. input \in SentInputs /\ input.tick = clients[c].tick_floor
    <3>1. PICK floor, seq : floor = clients[c].tick_floor /\ seq = clients[c].input_seq
      OBVIOUS
    <3>2. floor \in Nat /\ ~(floor > floor) /\ seq + 1 \in Nat
      BY <2>4, <3>1
    <3>3. input = [tick |-> floor, input_seq |-> seq + 1, move_dir |-> move_dir]
      BY <2>1, <3>1, <3>2 DEF InputCmdToSend, InputSeqGen_advance
    <3>4. input \in SentInputs
      <4>1. floor \in Nat
        BY <3>2
      <4>2. seq + 1 \in Nat
        BY <3>2
      <4> QED
        BY <3>3, <4>1, <4>2 DEF SentInputs
    <3>5. input.tick = floor
      BY <3>3
    <3> QED
      BY <3>1, <3>4, <3>5
  <2>6. PICK sent : sent = {input}
    OBVIOUS
  <2>7. sent \subseteq SentInputs /\ \A i \in sent : i.tick <= target_tick_floor(world.tick)
    BY <2>3, <2>5, <2>6
  <2>8. inflight' = [inflight EXCEPT ![c] = @ \cup sent]
    BY <2>2, <2>6
  <2> QED
    BY <2>3, <2>7, <2>8
<1>2. ASSUME NEW start_tick \in InputTicks, NEW count \in 1 .. MaxInputs,
             NEW move_dir \in MoveDirs, TestDrives(c, start_tick, count, move_dir),
             c \in TestClients
      PROVE  \E sent :
                  /\ inflight' = [inflight EXCEPT ![c] = @ \cup sent]
                  /\ sent \subseteq SentInputs
                  /\ c \in Range(accepted_on)
  <2>1. PICK drive : drive = drive_move_dir(clients[c], start_tick, count, move_dir)
    OBVIOUS
  <2>2. inflight' = [inflight EXCEPT ![c] = @ \cup drive.sent] /\ clients[c].state = "CONNECTED"
    BY <1>2, <2>1 DEF TestDrives
  <2>3. c \in Range(accepted_on)
    BY <2>2, SendersAccepted
  <2>4. clients[c] \in TestRecords /\ start_tick \in Nat /\ count \in Nat \ {0}
    BY <1>2, InputAssumption, MatchAssumption DEF ClientInv, WellFormed
  <2>5. drive.sent \subseteq SentInputs
    BY <2>1, <2>4, TestDrove
  <2> QED
    BY <2>2, <2>3, <2>5
<1>3. CASE \/ ClientConnected(c)
           \/ ClientControl(c)
           \/ \E packets \in (SUBSET realtime[c]) \ {{}} : ClientSnapshots(c, packets)
           \/ ClientDisconnected(c)
           \/ TestConnected(c)
           \/ TestWelcomed(c)
           \/ TestConnectFails(c)
           \/ TestReceivesBaseline(c)
           \/ \E arrived \in 0 .. Len(control[c]), packets \in SUBSET realtime[c] :
                  TestPolls(c, arrived, packets)
           \/ TestDisconnected(c)
  BY <1>3 DEF ClientConnected, ClientControl, ClientSnapshots, ClientDisconnected,
     TestConnected, TestWelcomed, TestConnectFails, TestReceivesBaseline, TestPolls,
     TestDisconnected, StopsListening, net_vars
<1>4. c \in TestClients => c \notin GodotClients
  BY DEF GodotClients
<1> QED
  BY <1>1, <1>2, <1>3, <1>4 DEF GodotStep, TestStep

\* What travels keeps its shape, and comes from clients that may send.
LEMMA NetKept ==
    ASSUME ServerInv, ConnectionsInv, NetInv, \A c \in Clients : ClientInv(c), InflightInv,
           Progress, [MatchNext]_match_vars
    PROVE  NetInv' /\ InflightInv'
<1>1. /\ world.tick \in Nat /\ world'.tick \in Nat /\ world.tick <= world'.tick
      /\ target_tick_floor(world.tick) <= target_tick_floor(world'.tick)
      /\ target_tick_floor(world.tick) \in Nat
      /\ target_tick_floor(world'.tick) \in Nat
  <2>1. world.tick \in Nat /\ world'.tick \in Nat /\ world.tick <= world'.tick
    BY MatchStepIsLoopStep, WorldProgresses
  <2> QED
    BY <2>1, ServerConfigAssumption DEF target_tick_floor
<1>2. Range(accepted_on) \subseteq Range(accepted_on')
  BY DEF Range, Progress
<1>3. GodotClients \subseteq Clients /\ TestClients \subseteq Clients
  BY MatchAssumption DEF GodotClients
<1>4. /\ inflight \in [Clients -> SUBSET SentInputs]
      /\ \A c \in Clients : inflight[c] # {} => c \in Range(accepted_on)
      /\ \A c \in GodotClients : \A input \in inflight[c] :
             input.tick \in Nat /\ input.tick <= target_tick_floor(world.tick)
  BY <1>3 DEF NetInv, InflightInv, AimsAtTheFloor, SentInputs
<1>5. ASSUME inflight' \in [Clients -> SUBSET SentInputs],
             \A c \in Clients : inflight'[c] \subseteq inflight[c]
      PROVE  InflightInv'
  <2>1. \A c \in Clients : inflight'[c] # {} => c \in Range(accepted_on')
    BY <1>2, <1>4, <1>5
  <2>2. \A c \in GodotClients : \A input \in inflight'[c] :
            input.tick <= target_tick_floor(world'.tick)
    BY <1>1, <1>3, <1>4, <1>5
  <2> QED
    BY <2>1, <2>2 DEF InflightInv, AimsAtTheFloor
<1>6. CASE QuietStep
  <2>1. UNCHANGED <<clients, control, realtime>>
    BY <1>6 DEF QuietStep, ReceiveHello, PeerGone, ReceiveInput, ServerStep, MatchOver,
                match_vars, net_vars
  <2>2. \/ inflight' = inflight
        \/ \E c, gone : inflight' = [inflight EXCEPT ![c] = @ \ gone]
        \/ \E c : inflight' = [inflight EXCEPT ![c] = {}]
    BY <1>6 DEF QuietStep, ReceiveHello, PeerGone, ReceiveInput, ServerStep, MatchOver,
                match_vars, net_vars
  <2>3. /\ inflight' \in [Clients -> SUBSET SentInputs]
        /\ \A c \in Clients : inflight'[c] \subseteq inflight[c]
    <3>1. CASE inflight' = inflight
      BY <1>4, <3>1
    <3>2. ASSUME NEW c, NEW gone, inflight' = [inflight EXCEPT ![c] = @ \ gone]
          PROVE  /\ inflight' \in [Clients -> SUBSET SentInputs]
                 /\ \A d \in Clients : inflight'[d] \subseteq inflight[d]
      BY <1>4, <3>2
    <3>3. ASSUME NEW c, inflight' = [inflight EXCEPT ![c] = {}]
          PROVE  /\ inflight' \in [Clients -> SUBSET SentInputs]
                 /\ \A d \in Clients : inflight'[d] \subseteq inflight[d]
      BY <1>4, <3>3
    <3> QED
      BY <2>2, <3>1, <3>2, <3>3
  <2> QED
    BY <1>5, <2>1, <2>3 DEF NetInv
<1>7. CASE SendWelcome \/ Broadcast
  <2>1. inflight' = inflight /\ clients' = clients
    BY <1>7 DEF SendWelcome, Broadcast
  <2>2. control' = [c \in Clients |-> control'[c]] /\ realtime' = [c \in Clients |-> realtime'[c]]
    BY <1>7 DEF SendWelcome, Broadcast, NetInv
  <2>3. NetInv'
    BY <2>1, <2>2 DEF NetInv
  <2> QED
    BY <1>4, <1>5, <2>1, <2>3
<1>8. ASSUME NEW c \in Clients,
             \/ c \in GodotClients /\ GodotStep(c)
             \/ c \in TestClients /\ TestStep(c)
      PROVE  NetInv' /\ InflightInv'
  <2>1. /\ clients' = [d \in Clients |-> clients'[d]]
        /\ control' = [d \in Clients |-> control'[d]]
        /\ realtime' = [d \in Clients |-> realtime'[d]]
    BY <1>8, OthersUnmoved
  <2>2. CASE inflight' = inflight
    <3>1. NetInv'
      BY <1>4, <2>1, <2>2 DEF NetInv
    <3> QED
      BY <1>4, <1>5, <2>2, <3>1
  <2>3. ASSUME NEW sent,
               inflight' = [inflight EXCEPT ![c] = @ \cup sent],
               sent \subseteq SentInputs,
               c \in Range(accepted_on),
               c \in GodotClients =>
                   \A input \in sent : input.tick <= target_tick_floor(world.tick)
        PROVE  NetInv' /\ InflightInv'
    <3>1. /\ inflight' \in [Clients -> SUBSET SentInputs]
          /\ inflight'[c] = inflight[c] \cup sent
          /\ \A d \in Clients : d # c => inflight'[d] = inflight[d]
      BY <1>4, <2>3
    <3>2. NetInv'
      BY <2>1, <3>1 DEF NetInv
    <3>3. \A d \in Clients : inflight'[d] # {} => d \in Range(accepted_on')
      BY <1>2, <1>4, <2>3, <3>1
    <3>4. ASSUME NEW d \in GodotClients, NEW input \in inflight'[d]
          PROVE  input.tick <= target_tick_floor(world'.tick)
      <4>1. input.tick \in Nat /\ input.tick <= target_tick_floor(world.tick)
        BY <1>3, <1>4, <2>3, <3>1, <3>4 DEF SentInputs
      <4> QED
        BY <1>1, <4>1
    <3> QED
      BY <3>2, <3>3, <3>4 DEF InflightInv, AimsAtTheFloor
  <2> QED
    BY <1>8, <2>2, <2>3, Sending
<1> QED
  BY <1>3, <1>6, <1>7, <1>8, MatchSteps

-----------------------------------------------------------------------------
(***************************************************************************)
(* The invariant of a match.                                               *)
(***************************************************************************)

\* Before anybody connects, nothing has been sent.
LEMMA InitMatch == MatchInit => MatchInv
<1> SUFFICES ASSUME MatchInit PROVE MatchInv
  OBVIOUS
<1>1. LoopInit
  BY DEF MatchInit
<1>2. ServerInv
  <2>1. next_session_id = 1
    BY <1>1 DEF LoopInit, ServerInit
  <2> QED
    BY <1>1, <2>1, InitSafe, InitBindings, ServerConfigAssumption DEF LoopInit, ServerInv
<1>3. ConnectionsInv
  BY <1>1, LoopAssumption DEF LoopInit, EmptyMap, ConnectionsInv, IsInjective, Range
<1>4. /\ GodotClients \subseteq Clients /\ TestClients \subseteq Clients
      /\ GodotClients \cap TestClients = {}
  BY MatchAssumption DEF GodotClients
<1>5. /\ clients = [c \in Clients |->
                       IF c \in TestClients THEN test_client_new ELSE client_new]
      /\ control = [c \in Clients |-> << >>]
      /\ realtime = [c \in Clients |-> {}]
      /\ inflight = [c \in Clients |-> {}]
  BY DEF MatchInit
<1>6. NetInv
  BY <1>5 DEF NetInv
<1>7. InflightInv
  BY <1>4, <1>5 DEF InflightInv, AimsAtTheFloor
<1>8. client_new \in GodotRecords /\ DOMAIN client_new.views = {}
  <2>1. EmptyMap \in ViewMaps /\ DOMAIN EmptyMap = {}
    BY DEF EmptyMap, ViewMaps
  <2> QED
    BY <2>1 DEF client_new, GodotRecords
<1>9. test_client_new \in TestRecords
  BY DEF test_client_new, TestRecords
<1>10. ASSUME NEW c \in Clients PROVE ClientInv(c)
  <2>1. /\ c \in GodotClients => clients[c] = client_new
        /\ c \in TestClients => clients[c] = test_client_new
        /\ control[c] = << >> /\ realtime[c] = {}
        /\ c \in GodotClients \/ c \in TestClients
    BY <1>4, <1>5 DEF GodotClients
  <2>2. WellFormed(c)
    BY <1>8, <1>9, <2>1 DEF WellFormed
  <2>3. NotJoined(c)
    BY <1>8, <2>1 DEF NotJoined, client_new, test_client_new
  <2> QED
    BY <2>2, <2>3 DEF ClientInv
<1> QED
  BY <1>2, <1>3, <1>6, <1>7, <1>10 DEF MatchInv

\* Each step keeps it.
LEMMA NextMatch == MatchInv /\ [MatchNext]_match_vars => MatchInv'
<1> SUFFICES ASSUME MatchInv, [MatchNext]_match_vars PROVE MatchInv'
  OBVIOUS
<1>1. ServerInv /\ ConnectionsInv /\ NetInv /\ InflightInv /\ \A c \in Clients : ClientInv(c)
  BY DEF MatchInv
<1>2. LoopStep
  BY <1>1, MatchStepIsLoopStep
<1>3. ServerInv' /\ ConnectionsInv' /\ Progress
  BY <1>1, <1>2, LoopStepSafe, ConnectionsKept, StepProgresses
<1>4. NetInv' /\ InflightInv'
  BY <1>1, <1>3, NetKept
<1>5. \A c \in Clients : ClientInv(c)'
  BY <1>1, <1>3, ClientsKept
<1> QED
  BY <1>3, <1>4, <1>5 DEF MatchInv

\* Whatever the network does, the server, the connections, what is on its way and each
\* client stay in step.
THEOREM MatchInvariant == MatchSpec => []MatchInv
<1> QED
  BY InitMatch, NextMatch, PTL DEF MatchSpec

\* All that is queued for a client is its welcome and baseline, or its baseline.
LEMMA QueuedPackets ==
    ASSUME NEW c \in Clients, ClientInv(c)
    PROVE  \E tick, e : \/ control[c] = << >>
                        \/ WelcomeQueued(c, tick, e)
                        \/ BaselineQueued(c, tick, e)
<1>1. CASE NotJoined(c)
  BY <1>1 DEF NotJoined
<1>2. CASE Joined(c)
  <2>1. PICK tick, e : /\ c \in GodotClients => GodotJoined(c, tick, e)
                       /\ c \in TestClients => TestJoined(c, tick, e)
    BY <1>2 DEF Joined
  <2>2. CASE c \in GodotClients
    <3>1. clients[c] \in GodotRecords
      BY <2>2 DEF ClientInv, WellFormed
    <3>2. clients[c].state
              \in {"CONNECTING", "AWAITING_BASELINE", "READY", "DISCONNECTED"}
      BY <3>1 DEF GodotRecords
    <3> QED
      BY <2>1, <2>2, <3>2 DEF GodotJoined
  <2>3. CASE c \in TestClients
    <3>1. clients[c] \in TestRecords
      BY <2>3 DEF ClientInv, WellFormed
    <3>2. clients[c].state \in {"CONNECTING", "CONNECTED", "FAILED"}
      BY <3>1 DEF TestRecords
    <3> QED
      BY <2>1, <2>3, <3>2 DEF TestJoined
  <2> QED
    BY <2>2, <2>3 DEF GodotClients
<1> QED
  BY <1>1, <1>2 DEF ClientInv

\* accept_and_welcome: a packet on the control channel is a welcome or a baseline by what
\* decodes, and never both, at whatever tick the session joins.
THEOREM ControlPacketsDistinct == MatchSpec => []PacketsUnambiguous
<1>1. MatchInv => PacketsUnambiguous
  <2> SUFFICES ASSUME MatchInv, NEW c \in Clients, NEW i \in DOMAIN control[c]
               PROVE  decodes(ServerWelcome_fields, control[c][i])
                          # decodes(JoinBaseline_fields, control[c][i])
    BY DEF PacketsUnambiguous
  <2>1. PICK tick, e : \/ control[c] = << >>
                       \/ WelcomeQueued(c, tick, e)
                       \/ BaselineQueued(c, tick, e)
    BY QueuedPackets DEF MatchInv
  <2>2. CASE WelcomeQueued(c, tick, e)
    <3>1. PICK w, b : /\ control[c] = <<w, b>>
                      /\ IsWelcome(w, tick, e) /\ IsBaseline(b, tick, e)
      BY <2>2 DEF WelcomeQueued
    <3>2. control[c][i] \in {w, b}
      BY <3>1
    <3> QED
      BY <3>1, <3>2 DEF IsWelcome, IsBaseline, decodes
  <2>3. CASE BaselineQueued(c, tick, e)
    <3>1. PICK b : control[c] = <<b>> /\ IsBaseline(b, tick, e)
      BY <2>3 DEF BaselineQueued
    <3>2. control[c][i] = b
      BY <3>1
    <3> QED
      BY <3>1, <3>2 DEF IsBaseline, decodes
  <2> QED
    BY <2>1, <2>2, <2>3
<1> QED
  BY <1>1, MatchInvariant, PTL

\* What a Godot client that is ready has been told.
LEMMA ReadyJoined ==
    ASSUME NEW c \in GodotClients, ClientInv(c), clients[c].state = "READY"
    PROVE  \E sid, tick, e : Told(c, sid, tick, e) /\ GodotJoined(c, tick, e)
<1>1. ~NotJoined(c)
  BY DEF NotJoined
<1> QED
  BY <1>1 DEF ClientInv, Joined

\* TickFloor.observe, step: the floor a ready Godot client aims at is that of the tick it
\* shows, however many snapshots it missed or got late.
THEOREM FloorOfShownTick == MatchSpec => []FloorFollowsView
<1>1. MatchInv => FloorFollowsView
  <2> SUFFICES ASSUME MatchInv, NEW c \in GodotClients, clients[c].state = "READY"
               PROVE  clients[c].tick_floor = target_tick_floor(clients[c].latest_tick)
    BY DEF FloorFollowsView
  <2>1. ClientInv(c)
    BY DEF MatchInv, GodotClients
  <2> QED
    BY <2>1, ReadyJoined DEF GodotJoined
<1> QED
  BY <1>1, MatchInvariant, PTL

\* send_input, step: no input of a Godot client is aimed further ahead than the server's
\* floor, however late the snapshots it aims by.
THEOREM NeverAimsPastTheFloor == MatchSpec => []AimsAtTheFloor
<1>1. MatchInv => AimsAtTheFloor
  BY DEF MatchInv, InflightInv
<1> QED
  BY <1>1, MatchInvariant, PTL

\* connect, recv_baseline: a test client whose connect returned, and that has not polled
\* yet, has its baseline or will find it in the queue.
THEOREM BaselineIsKept == MatchSpec => []BaselineNotLost
<1>1. MatchInv => BaselineNotLost
  <2> SUFFICES ASSUME MatchInv, NEW c \in TestClients, clients[c].state = "CONNECTED",
                      clients[c].peer_connected, ~clients[c].polled_early
               PROVE  \/ clients[c].baseline # None
                      \/ \E i \in DOMAIN control[c] :
                             decodes(JoinBaseline_fields, control[c][i])
    BY DEF BaselineNotLost
  <2>1. ClientInv(c) /\ ~NotJoined(c)
    BY MatchAssumption DEF MatchInv, NotJoined
  <2>2. PICK tick, e : TestJoined(c, tick, e)
    BY <2>1 DEF ClientInv, Joined
  <2>3. clients[c].baseline # None \/ BaselineQueued(c, tick, e)
    BY <2>2 DEF TestJoined
  <2>4. ASSUME BaselineQueued(c, tick, e)
        PROVE  \E i \in DOMAIN control[c] : decodes(JoinBaseline_fields, control[c][i])
    <3>1. PICK b : control[c] = <<b>> /\ IsBaseline(b, tick, e)
      BY <2>4 DEF BaselineQueued
    <3>2. 1 \in DOMAIN control[c] /\ control[c][1] = b
      BY <3>1
    <3> QED
      BY <3>1, <3>2 DEF IsBaseline
  <2> QED
    BY <2>3, <2>4
<1> QED
  BY <1>1, MatchInvariant, PTL

\* poll_snapshot: a snapshot of a tick after the join has the character that the welcome
\* told the test client it controls.
THEOREM SnapshotsShowOwnEntity == MatchSpec => []SnapshotHasOwnEntity
<1>1. MatchInv => SnapshotHasOwnEntity
  <2> SUFFICES ASSUME MatchInv, NEW c \in TestClients, clients[c].snapshot # None,
                      target_tick_floor(clients[c].snapshot.tick)
                          > clients[c].welcome.target_tick_floor
               PROVE  clients[c].welcome.controlled_entity_id \in clients[c].snapshot.entities
    BY DEF SnapshotHasOwnEntity
  <2>1. ClientInv(c) /\ ~NotJoined(c) /\ clients[c] \in TestRecords
    BY MatchAssumption DEF MatchInv, NotJoined, ClientInv, WellFormed
  <2>2. PICK tick, e : TestJoined(c, tick, e) /\ tick \in 0 .. world.tick
    BY <2>1 DEF ClientInv, Joined
  <2>3. clients[c].state = "CONNECTED"
    BY <2>1, <2>2 DEF TestJoined, TestRecords
  <2>4. PICK s, w : s = clients[c].snapshot /\ w = clients[c].welcome
    OBVIOUS
  <2>5. /\ w.target_tick_floor = target_tick_floor(tick) /\ w.controlled_entity_id = e
        /\ s \in ReceivedStates
        /\ s.tick > tick => e \in s.entities
    BY <2>2, <2>3, <2>4 DEF TestJoined
  <2>6. tick \in Nat /\ s.tick \in Nat /\ input_lead_ticks \in Nat
    BY <2>2, <2>5, ServerConfigAssumption DEF ReceivedStates
  <2>7. s.tick > tick
    BY <2>4, <2>5, <2>6 DEF target_tick_floor
  <2> QED
    BY <2>4, <2>5, <2>7
<1> QED
  BY <1>1, MatchInvariant, PTL

\* accept_and_welcome, _spawn_or_update_view: what a ready client that is still bound to a
\* session shows as its own is the character which that session's inputs move, and it
\* shows it, whichever session had its slot before.
THEOREM ShowsOwnCharacter == MatchSpec => []OwnCharacterShown
<1>1. MatchInv => OwnCharacterShown
  <2> SUFFICES ASSUME MatchInv, NEW q \in connected \cap DOMAIN peer_sessions,
                      NEW c, c = connection[q], c \in GodotClients,
                      clients[c].state = "READY",
                      NEW own, own = sessions[peer_sessions[q]].controlled_entity_id
               PROVE  /\ own \in clients[c].entities
                      /\ \A x \in DOMAIN clients[c].views : clients[c].views[x] <=> x = own
    BY DEF OwnCharacterShown
  <2>1. /\ ClientInv(c) /\ ConnectionsInv
        /\ peer_sessions[q] \in DOMAIN sessions
        /\ DOMAIN sessions \subseteq DOMAIN accepted_on
    BY DEF MatchInv, GodotClients, ServerInv, BindingsInv, PeerBindings, SessionHistory, Range
  <2>2. PICK sid, tick, e : Told(c, sid, tick, e) /\ GodotJoined(c, tick, e)
    BY <2>1, ReadyJoined
  <2>3. sid \in DOMAIN accepted_on /\ accepted_on[sid] = c
    BY <2>2 DEF Told
  <2>4. peer_sessions[q] = sid /\ sid \in DOMAIN sessions
    <3>1. c \in Range(accepted_on)
      BY <2>3 DEF Range
    <3>2. accepted_on[peer_sessions[q]] = c
      BY <2>1, <3>1 DEF ConnectionsInv
    <3> QED
      BY <2>1, <2>3, <3>2 DEF ConnectionsInv, IsInjective
  <2>5. own = e
    BY <2>2, <2>4 DEF Told
  <2> QED
    BY <2>2, <2>5 DEF GodotJoined
<1> QED
  BY <1>1, MatchInvariant, PTL

\* MatchState.apply_snapshot, apply_baseline: whatever arrives late, twice or out of order,
\* what a Godot client shows never goes back.
THEOREM ViewAdvances == MatchSpec => ViewNeverGoesBack
<1>1. MatchInv /\ [MatchNext]_match_vars
          => \A c \in GodotClients : clients'[c].latest_tick >= clients[c].latest_tick
  <2> SUFFICES ASSUME MatchInv, [MatchNext]_match_vars, NEW c \in GodotClients
               PROVE  clients'[c].latest_tick >= clients[c].latest_tick
    OBVIOUS
  <2>1. /\ ServerInv /\ NetInv /\ c \in Clients /\ ClientInv(c)
        /\ \A d \in TestClients : d \in Clients /\ d # c
    BY MatchAssumption DEF MatchInv, GodotClients
  <2>2. clients[c].latest_tick \in Int
    BY <2>1 DEF ClientInv, WellFormed, GodotRecords
  <2>3. CASE QuietStep \/ SendWelcome \/ Broadcast
    <3>1. clients' = clients
      BY <2>3 DEF QuietStep, SendWelcome, Broadcast, ReceiveHello, PeerGone, ReceiveInput,
                  ServerStep, MatchOver, match_vars
    <3> QED
      BY <2>2, <3>1
  <2>4. ASSUME NEW d \in Clients, GodotStep(d) \/ TestStep(d), d # c
        PROVE  clients'[c].latest_tick >= clients[c].latest_tick
    BY <2>1, <2>2, <2>4, OthersUnmoved
  <2>5. CASE GodotStep(c)
    <3>1. CASE \/ ClientControl(c)
               \/ \E packets \in (SUBSET realtime[c]) \ {{}} : ClientSnapshots(c, packets)
      BY <2>1, <3>1, GodotTakesControl, GodotTakesSnapshots
    <3>2. CASE \/ ClientConnected(c) \/ ClientDisconnected(c)
               \/ \E move_dir \in MoveDirs : ClientSends(c, move_dir)
      <4>1. clients'[c].latest_tick = clients[c].latest_tick
        BY <2>1, <3>2, GodotConnects, GodotDisconnects, GodotSends
      <4> QED
        BY <2>2, <4>1
    <3> QED
      BY <2>5, <3>1, <3>2 DEF GodotStep
  <2> QED
    BY <2>1, <2>3, <2>4, <2>5, MatchSteps DEF GodotClients
<1>2. MatchInv /\ [MatchNext]_match_vars
          => [\A c \in GodotClients :
                  clients'[c].latest_tick >= clients[c].latest_tick]_match_vars
  BY <1>1
<1> QED
  BY <1>2, MatchInvariant, PTL DEF MatchSpec, ViewNeverGoesBack

-----------------------------------------------------------------------------
(***************************************************************************)
(* Sequence numbers.                                                       *)
(***************************************************************************)

\* What a client sends is numbered above all that it sent before.
LEMMA NumberedUpwards ==
    ASSUME ServerInv, NetInv, NEW c \in Clients, ClientInv(c),
           \/ c \in GodotClients /\ GodotStep(c)
           \/ c \in TestClients /\ TestStep(c)
    PROVE  /\ clients[c].input_seq \in Nat /\ clients'[c].input_seq \in Nat
           /\ clients[c].input_seq <= clients'[c].input_seq
           /\ \E sent :
                  /\ inflight' = [inflight EXCEPT ![c] = @ \cup sent]
                  /\ \A i \in sent :
                         i.input_seq \in clients[c].input_seq + 1 .. clients'[c].input_seq
                  /\ \A i, j \in sent : i.input_seq = j.input_seq => i = j
<1> DEFINE Above(sent) ==
               /\ inflight' = [inflight EXCEPT ![c] = @ \cup sent]
               /\ \A i \in sent :
                      i.input_seq \in clients[c].input_seq + 1 .. clients'[c].input_seq
               /\ \A i, j \in sent : i.input_seq = j.input_seq => i = j
           Numbered ==
               /\ clients'[c].input_seq \in Nat
               /\ clients[c].input_seq <= clients'[c].input_seq
               /\ \E sent : Above(sent)
<1>1. inflight = [inflight EXCEPT ![c] = @ \cup {}]
  BY DEF NetInv
<1>2. /\ c \in GodotClients => clients[c] \in GodotRecords
      /\ c \in TestClients => clients[c] \in TestRecords
      /\ c \in TestClients => c \notin GodotClients
  BY DEF ClientInv, WellFormed, GodotClients
<1>3. clients[c].input_seq \in Nat
  BY <1>2 DEF GodotRecords, TestRecords
<1>4. ASSUME clients'[c].input_seq = clients[c].input_seq, inflight' = inflight
      PROVE  Numbered
  <2>1. PICK sent : sent = {}
    OBVIOUS
  <2>2. inflight' = [inflight EXCEPT ![c] = @ \cup sent]
    BY <1>1, <1>4, <2>1
  <2>3. /\ \A i \in sent :
               i.input_seq \in clients[c].input_seq + 1 .. clients'[c].input_seq
        /\ \A i, j \in sent : i.input_seq = j.input_seq => i = j
    BY <2>1
  <2>4. Above(sent)
    BY <2>2, <2>3
  <2> HIDE DEF Above
  <2> QED
    BY <1>3, <1>4, <2>4
<1>5. ASSUME c \in GodotClients,
             \/ ClientConnected(c) \/ ClientControl(c) \/ ClientDisconnected(c)
             \/ \E packets \in (SUBSET realtime[c]) \ {{}} : ClientSnapshots(c, packets)
      PROVE  Numbered
  <2>1. clients'[c].input_seq = clients[c].input_seq
    BY <1>5, GodotConnects, GodotTakesControl, GodotTakesSnapshots, GodotDisconnects
  <2>2. inflight' = inflight
    BY <1>5 DEF ClientConnected, ClientControl, ClientSnapshots, ClientDisconnected,
                StopsListening, net_vars
  <2> QED
    BY <1>4, <2>1, <2>2
<1>6. ASSUME c \in TestClients,
             \/ TestConnected(c) \/ TestWelcomed(c) \/ TestConnectFails(c)
             \/ TestReceivesBaseline(c) \/ TestDisconnected(c)
             \/ \E arrived \in 0 .. Len(control[c]), packets \in SUBSET realtime[c] :
                    TestPolls(c, arrived, packets)
      PROVE  Numbered
  <2>1. clients'[c].input_seq = clients[c].input_seq
    BY <1>6, TestConnects, TestIsWelcomed, TestFails, TestGetsBaseline, TestDisconnects,
       TestPollsKeeps
  <2>2. inflight' = inflight
    BY <1>6 DEF TestConnected, TestWelcomed, TestConnectFails, TestReceivesBaseline,
                TestDisconnected, TestPolls, StopsListening, net_vars
  <2> QED
    BY <1>4, <2>1, <2>2
<1>7. ASSUME c \in GodotClients, NEW move_dir \in MoveDirs, ClientSends(c, move_dir)
      PROVE  Numbered
  <2>1. clients'[c].input_seq = clients[c].input_seq + 1
    BY <1>7, GodotSends
  <2>2. PICK input : input = InputCmdToSend(clients[c], move_dir, clients[c].tick_floor)
    OBVIOUS
  <2>3. input.input_seq = clients[c].input_seq + 1
    BY <2>2 DEF InputCmdToSend, InputSeqGen_advance
  <2>4. PICK sent : sent = {input}
    OBVIOUS
  <2>5. inflight' = [inflight EXCEPT ![c] = @ \cup sent]
    BY <1>7, <2>2, <2>4 DEF ClientSends
  <2>6. \A i, j \in sent : i.input_seq = j.input_seq => i = j
    BY <2>4
  <2>7. \A i \in sent : i.input_seq \in clients[c].input_seq + 1 .. clients'[c].input_seq
    BY <1>3, <2>1, <2>3, <2>4
  <2>8. Above(sent)
    BY <2>5, <2>6, <2>7
  <2> HIDE DEF Above
  <2> QED
    BY <1>3, <2>1, <2>8
<1>8. ASSUME c \in TestClients, NEW start_tick \in InputTicks, NEW count \in 1 .. MaxInputs,
             NEW move_dir \in MoveDirs, TestDrives(c, start_tick, count, move_dir)
      PROVE  Numbered
  <2>1. PICK drive : drive = drive_move_dir(clients[c], start_tick, count, move_dir)
    OBVIOUS
  <2>2. clients'[c] = drive.client /\ inflight' = [inflight EXCEPT ![c] = @ \cup drive.sent]
    BY <1>8, <2>1 DEF TestDrives, NetInv
  <2>3. clients[c] \in TestRecords /\ start_tick \in Nat /\ count \in Nat \ {0}
    BY <1>2, <1>8, InputAssumption, MatchAssumption
  <2>4. /\ drive.client \in TestRecords
        /\ drive.client = [clients[c] EXCEPT !.input_seq = clients[c].input_seq
                               + IF clients[c].peer_connected THEN count ELSE 1]
        /\ \A i \in drive.sent :
               i.input_seq \in clients[c].input_seq + 1 .. drive.client.input_seq
        /\ \A i, j \in drive.sent : i.input_seq = j.input_seq => i = j
    BY <2>1, <2>3, TestDrove
  <2>5. drive.client.input_seq \in Nat /\ clients[c].input_seq <= drive.client.input_seq
    BY <1>3, <2>3, <2>4 DEF TestRecords
  <2> QED
    BY <2>2, <2>4, <2>5
<1> QED
  BY <1>2, <1>3, <1>5, <1>6, <1>7, <1>8 DEF GodotStep, TestStep

\* The client that receive_input hears is the one whose session it takes the input for.
LEMMA SenderOfInput ==
    ASSUME MatchInv, NEW q \in Peers, NEW input, ReceiveInput(q, input)
    PROVE  /\ connection[q] \in Clients
           /\ input \in inflight[connection[q]]
           /\ peer_sessions[q] \in DOMAIN sessions
           /\ accepted_on[peer_sessions[q]] = connection[q]
<1>1. q \in connected /\ input \in inflight[connection[q]] /\ q \in DOMAIN peer_sessions
  BY DEF ReceiveInput, ServiceInput
<1>2. q \in DOMAIN connection /\ peer_sessions[q] \in DOMAIN sessions
  BY <1>1 DEF MatchInv, ServerInv, BindingsInv, SessionHistory, PeerBindings, Range
<1>3. connection[q] \in Clients
  BY <1>2, LoopAssumption DEF MatchInv, ConnectionsInv, Clients
<1>4. connection[q] \in Range(accepted_on)
  BY <1>1, <1>3 DEF MatchInv, InflightInv
<1> QED
  BY <1>1, <1>2, <1>3, <1>4 DEF MatchInv, ConnectionsInv

\* What receive_input does to an entry: nothing, or it counts one more input for it.
LEMMA ReceivedEntry ==
    ASSUME TypeOK, NEW sid \in SessionIds, NEW input \in AnyInput,
           receive_input(sid, input), NEW key \in DOMAIN input_buffer'
    PROVE  \/ key \in DOMAIN input_buffer /\ input_buffer'[key] = input_buffer[key]
           \/ /\ key[1] = session_players[sid]
              /\ input_buffer'[key].max_input_seq = input.input_seq
              /\ ~input_buffer'[key].max_seq_tied
           \/ /\ key[1] = session_players[sid]
              /\ key \in DOMAIN input_buffer
              /\ input_buffer'[key].max_input_seq = input_buffer[key].max_input_seq
              /\ input.input_seq <= input_buffer[key].max_input_seq
              /\ input_buffer'[key].max_seq_tied
                     <=> \/ input_buffer[key].max_seq_tied
                         \/ input.input_seq = input_buffer[key].max_input_seq
<1>1. PICK p, own, floor :
          p = session_players[sid] /\ own = <<p, input.tick>> /\
          floor = MapGet(last_emitted_floor, sid, 0)
  OBVIOUS
<1>2. input_buffer' = validate_input(input, world.tick, floor, input_buffer, p)
  BY <1>1 DEF receive_input
<1>3. CASE Verdict(input, world.tick, floor) # "Bufferable"
  BY <1>2, <1>3 DEF validate_input
<1>4. CASE Verdict(input, world.tick, floor) = "Bufferable"
  <2>1. input_buffer' = try_buffer(input_buffer, p, input)
    BY <1>2, <1>4 DEF validate_input
  <2>2. CASE key # own
    BY <1>1, <2>1, <2>2, TryBufferKeepsOthers
  <2>3. CASE key = own
    <3>1. key[1] = p
      BY <1>1, <2>3
    <3>2. PICK fresh : fresh = BufferEntry(input)
      OBVIOUS
    <3>3. fresh.max_input_seq = input.input_seq /\ ~fresh.max_seq_tied
      BY <3>2 DEF BufferEntry
    <3>4. CASE own \notin DOMAIN input_buffer
      <4>1. input_buffer' = MapInsert(input_buffer, own, fresh)
        BY <1>1, <2>1, <3>2, <3>4 DEF try_buffer
      <4>2. input_buffer'[own] = fresh
        BY <4>1 DEF MapInsert
      <4> QED
        BY <1>1, <2>3, <3>1, <3>3, <4>2
    <3>5. CASE own \in DOMAIN input_buffer /\ input_buffer' = input_buffer
      BY <2>3, <3>5
    <3>6. CASE own \in DOMAIN input_buffer /\ input_buffer' # input_buffer
      <4>1. PICK entry : entry = input_buffer[own]
        OBVIOUS
      <4>2. input_buffer' = MapInsert(input_buffer, own, UpdatedEntry(entry, input))
        BY <1>1, <2>1, <3>6, <4>1 DEF try_buffer
      <4>3. input_buffer'[own] = UpdatedEntry(entry, input)
        BY <4>2 DEF MapInsert
      <4>4. PICK s, m, t, n : /\ entry = [selected |-> s, max_input_seq |-> m,
                                          max_seq_tied |-> t, receive_count |-> n]
                              /\ m \in Nat /\ t \in BOOLEAN
        BY <3>6, <4>1 DEF TypeOK, BufferTypeOK, EntryRecords
      <4>5. input.input_seq \in Nat
        BY DEF AnyInput
      <4>6. CASE input.input_seq > m
        <5>1. UpdatedEntry(entry, input)
                  = [BufferEntry(input) EXCEPT !.receive_count = entry.receive_count + 1]
          BY <4>4, <4>6 DEF UpdatedEntry
        <5>2. /\ UpdatedEntry(entry, input).max_input_seq = input.input_seq
              /\ ~UpdatedEntry(entry, input).max_seq_tied
          BY <5>1 DEF BufferEntry
        <5> QED
          BY <1>1, <2>3, <3>1, <4>3, <5>2
      <4>7. CASE ~(input.input_seq > m)
        <5>1. PICK tied : tied = (t \/ input.input_seq = m)
          OBVIOUS
        <5>2. UpdatedEntry(entry, input)
                  = [selected |-> s, max_input_seq |-> m,
                     max_seq_tied |-> tied, receive_count |-> n + 1]
          BY <4>4, <4>7, <5>1 DEF UpdatedEntry
        <5>3. /\ UpdatedEntry(entry, input).max_input_seq = m
              /\ UpdatedEntry(entry, input).max_seq_tied = tied
          BY <5>2
        <5>4. input.input_seq <= m /\ entry.max_input_seq = m /\ (entry.max_seq_tied <=> t)
          BY <4>4, <4>5, <4>7
        <5> QED
          BY <1>1, <2>3, <3>1, <3>6, <4>1, <4>3, <5>1, <5>3, <5>4
      <4> QED
        BY <4>6, <4>7
    <3> QED
      BY <3>4, <3>5, <3>6
  <2> QED
    BY <2>2, <2>3
<1> QED
  BY <1>3, <1>4

\* A session's client, and the numbers the server has heard of.
LEMMA FreshTypes ==
    ASSUME MatchInv
    PROVE  /\ inflight \in [Clients -> SUBSET SentInputs]
           /\ \A c \in Clients : clients[c].input_seq \in Nat
           /\ \A sid \in DOMAIN sessions :
                  sid \in DOMAIN accepted_on /\ accepted_on[sid] \in Clients
           /\ \A key \in DOMAIN input_buffer : input_buffer[key].max_input_seq \in Nat
<1>1. inflight \in [Clients -> SUBSET SentInputs]
  BY DEF MatchInv, NetInv
<1>2. ASSUME NEW c \in Clients PROVE clients[c].input_seq \in Nat
  <2>1. \/ clients[c] \in GodotRecords
        \/ clients[c] \in TestRecords
    BY DEF MatchInv, ClientInv, WellFormed, GodotClients
  <2> QED
    BY <2>1 DEF GodotRecords, TestRecords
<1>3. ASSUME NEW sid \in DOMAIN sessions
      PROVE  sid \in DOMAIN accepted_on /\ accepted_on[sid] \in Clients
  <2>1. sid \in DOMAIN accepted_on
    BY DEF MatchInv, ServerInv, BindingsInv, SessionHistory
  <2> QED
    BY <2>1, LoopAssumption DEF MatchInv, ConnectionsInv, Clients
<1>4. \A key \in DOMAIN input_buffer : input_buffer[key].max_input_seq \in Nat
  BY DEF MatchInv, ServerInv, SafetyInv, TypeOK, BufferTypeOK, EntryRecords
<1> QED
  BY <1>1, <1>2, <1>3, <1>4

\* While ids are not reused, no two sessions have the same player.
LEMMA OneSessionPerPlayer ==
    ASSUME SafetyInv, IdsUnique, NEW sid \in DOMAIN sessions, NEW other \in DOMAIN sessions,
           sessions[sid].player_id = sessions[other].player_id
    PROVE  sid = other
BY DEF SafetyInv, BindingsInverse

\* A step of a client sends what nobody has heard of.
LEMMA FreshWhenSent ==
    ASSUME MatchInv, FreshInv, NEW c \in Clients,
           \/ c \in GodotClients /\ GodotStep(c)
           \/ c \in TestClients /\ TestStep(c)
    PROVE  FreshInv'
<1>1. ServerInv /\ NetInv /\ ClientInv(c)
  BY DEF MatchInv
<1>2. /\ UNCHANGED <<sessions, input_buffer, accepted_on>>
      /\ \A d \in Clients : d # c => clients'[d] = clients[d]
  <2>1. UNCHANGED all_vars
    BY <1>1, OthersUnmoved
  <2>2. \A d \in Clients : d # c => clients'[d] = clients[d]
    BY <1>1, OthersUnmoved
  <2> QED
    BY <2>1, <2>2 DEF all_vars, server_vars, identity_vars, history_vars
<1>3. PICK old, new, sent :
          /\ old = clients[c].input_seq /\ new = clients'[c].input_seq
          /\ old \in Nat /\ new \in Nat /\ old <= new
          /\ inflight' = [inflight EXCEPT ![c] = @ \cup sent]
          /\ \A i \in sent : i.input_seq \in old + 1 .. new
          /\ \A i, j \in sent : i.input_seq = j.input_seq => i = j
  BY <1>1, NumberedUpwards
<1>4. /\ inflight'[c] = inflight[c] \cup sent
      /\ \A d \in Clients : d # c => inflight'[d] = inflight[d]
  BY <1>3, FreshTypes
<1>5. \A i \in inflight[c] : i.input_seq \in Nat /\ i.input_seq <= old
  BY <1>3, FreshTypes DEF FreshInv, SentOnce, SentInputs
<1>6. SentOnce(c)'
  <2> SUFFICES ASSUME NEW i \in inflight'[c], NEW j \in inflight'[c]
               PROVE  /\ i.input_seq <= new
                      /\ i.input_seq = j.input_seq => i = j
    BY <1>3 DEF SentOnce
  <2>1. i.input_seq <= new
    BY <1>3, <1>4, <1>5
  <2>2. ASSUME i.input_seq = j.input_seq PROVE i = j
    <3>1. CASE i \in inflight[c] /\ j \in inflight[c]
      BY <2>2, <3>1 DEF FreshInv, SentOnce
    <3>2. CASE i \in sent /\ j \in sent
      BY <1>3, <2>2, <3>2
    <3>3. CASE i \in inflight[c] /\ j \in sent
      BY <1>3, <1>5, <2>2, <3>3
    <3>4. CASE i \in sent /\ j \in inflight[c]
      BY <1>3, <1>5, <2>2, <3>4
    <3> QED
      BY <1>4, <3>1, <3>2, <3>3, <3>4
  <2> QED
    BY <2>1, <2>2
<1>7. ASSUME NEW d \in Clients, d # c PROVE SentOnce(d)'
  BY <1>2, <1>4, <1>7 DEF FreshInv, SentOnce
<1>8. ASSUME NEW sid \in DOMAIN sessions, NEW key \in DOMAIN input_buffer
      PROVE  ReceivedOnce(sid, key)'
  <2>1. accepted_on[sid] \in Clients /\ input_buffer[key].max_input_seq \in Nat
    BY FreshTypes
  <2>2. ReceivedOnce(sid, key)
    BY DEF FreshInv
  <2>3. CASE accepted_on[sid] # c
    BY <1>2, <1>4, <2>1, <2>2, <2>3 DEF ReceivedOnce
  <2>4. CASE accepted_on[sid] = c
    <3> SUFFICES ASSUME key[1] = sessions[sid].player_id
                 PROVE  /\ input_buffer[key].max_input_seq <= new
                        /\ \A i \in inflight'[c] : i.input_seq # input_buffer[key].max_input_seq
      BY <1>2, <1>3, <2>4 DEF ReceivedOnce
    <3>1. /\ input_buffer[key].max_input_seq <= old
          /\ \A i \in inflight[c] : i.input_seq # input_buffer[key].max_input_seq
      BY <1>3, <2>2, <2>4 DEF ReceivedOnce
    <3> QED
      BY <1>3, <1>4, <2>1, <3>1
  <2> QED
    BY <2>3, <2>4
<1> QED
  BY <1>2, <1>6, <1>7, <1>8 DEF FreshInv, ClientsNeverTie

\* An input that arrives ties with none before it, and is not on its way any more.
LEMMA FreshWhenReceived ==
    ASSUME MatchInv, FreshInv, IdsUnique, NEW q \in Peers, NEW input, ReceiveInput(q, input)
    PROVE  FreshInv'
<1>1. PICK c, sid : c = connection[q] /\ sid = peer_sessions[q]
  OBVIOUS
<1>2. /\ c \in Clients /\ input \in inflight[c]
      /\ sid \in DOMAIN sessions /\ accepted_on[sid] = c
  BY <1>1, SenderOfInput
<1>3. /\ receive_input(sid, input)
      /\ clients' = clients
      /\ inflight' = [inflight EXCEPT ![c] = @ \ {input}]
      /\ UNCHANGED <<sessions, accepted_on>>
  BY <1>1 DEF ReceiveInput, ServiceInput, receive_input, identity_vars, history_vars
<1>4. /\ inflight'[c] = inflight[c] \ {input}
      /\ \A d \in Clients : inflight'[d] \subseteq inflight[d]
  BY <1>2, <1>3, FreshTypes
<1>5. input \in AnyInput /\ sid \in SessionIds
  <2>1. input \in AnyInput
    BY <1>2, FreshTypes, SentIsInput
  <2>2. CallerInv
    BY DEF MatchInv, ServerInv, SafetyInv, CallerInv
  <2> QED
    BY <1>2, <2>1, <2>2, SessionsAreIds
<1>6. SafetyInv /\ TypeOK
  BY DEF MatchInv, ServerInv, SafetyInv
<1>7. session_players[sid] = sessions[sid].player_id
  BY <1>3, <1>6, ReceiverIsLive
<1>8. ASSUME NEW d \in Clients PROVE SentOnce(d)'
  BY <1>3, <1>4 DEF FreshInv, SentOnce
<1>9. PICK seq : seq = input.input_seq /\ seq \in Nat /\ seq <= clients[c].input_seq
  BY <1>2, <1>5 DEF AnyInput, FreshInv, SentOnce
<1>10. \A i \in inflight'[c] : i.input_seq # seq
  BY <1>2, <1>4, <1>9 DEF FreshInv, SentOnce
<1>11. ASSUME NEW other \in DOMAIN sessions, NEW key \in DOMAIN input_buffer'
       PROVE  ReceivedOnce(other, key)' /\ ~input_buffer'[key].max_seq_tied
  <2>1. CASE key \in DOMAIN input_buffer /\ input_buffer'[key] = input_buffer[key]
    <3>1. ReceivedOnce(other, key) /\ ~input_buffer[key].max_seq_tied
      BY <2>1 DEF FreshInv, ClientsNeverTie
    <3>2. accepted_on[other] \in Clients
      BY FreshTypes
    <3> QED
      BY <1>3, <1>4, <2>1, <3>1, <3>2 DEF ReceivedOnce
  <2>2. CASE /\ key[1] = sessions[sid].player_id
             /\ input_buffer'[key].max_input_seq = seq
             /\ ~input_buffer'[key].max_seq_tied
    <3>1. ASSUME key[1] = sessions[other].player_id PROVE other = sid
      BY <1>2, <1>6, <2>2, <3>1, OneSessionPerPlayer
    <3> QED
      BY <1>2, <1>3, <1>9, <1>10, <2>2, <3>1 DEF ReceivedOnce
  <2>3. CASE /\ key[1] = sessions[sid].player_id
             /\ key \in DOMAIN input_buffer
             /\ input_buffer'[key].max_input_seq = input_buffer[key].max_input_seq
             /\ input_buffer'[key].max_seq_tied
                    <=> \/ input_buffer[key].max_seq_tied
                        \/ seq = input_buffer[key].max_input_seq
    <3>1. /\ ReceivedOnce(sid, key) /\ ReceivedOnce(other, key)
          /\ ~input_buffer[key].max_seq_tied
      BY <1>2, <2>3 DEF FreshInv, ClientsNeverTie
    <3>2. seq # input_buffer[key].max_input_seq
      BY <1>2, <1>9, <2>3, <3>1 DEF ReceivedOnce
    <3>3. accepted_on[other] \in Clients
      BY FreshTypes
    <3> QED
      BY <1>3, <1>4, <2>3, <3>1, <3>2, <3>3 DEF ReceivedOnce
  <2> QED
    BY <1>3, <1>5, <1>6, <1>7, <1>9, <2>1, <2>2, <2>3, ReceivedEntry
<1> QED
  BY <1>2, <1>3, <1>8, <1>11 DEF FreshInv, ClientsNeverTie

\* The server's steps in which no input arrives.
Silent ==
    \/ \E q \in Peers : ReceiveHello(q) \/ PeerGone(q)
    \/ ServerStep
    \/ MatchOver
    \/ UNCHANGED match_vars
    \/ SendWelcome
    \/ Broadcast

\* Without an input, no entry is written.
LEMMA SilentKeepsEntries ==
    ASSUME MatchInv, Silent, NEW key \in DOMAIN input_buffer'
    PROVE  key \in DOMAIN input_buffer /\ input_buffer'[key] = input_buffer[key]
<1>1. CASE Broadcast
  <2>1. step
    BY <1>1 DEF Broadcast, Advance
  <2> QED
    BY <2>1, StepKeepsEntries DEF MatchInv, ServerInv, SafetyInv
<1>2. CASE SendWelcome
  BY <1>2 DEF SendWelcome, Welcome, welcome_for
<1>3. CASE \E q \in Peers : ReceiveHello(q)
  BY <1>3 DEF ReceiveHello, ServiceHello, ServiceHelloPanics, accept_session,
              accept_session_fails, Panic
<1>4. CASE \E q \in Peers : PeerGone(q)
  BY <1>4 DEF PeerGone, ServiceDisconnect, ServiceDisconnectIgnored, disconnect_session,
              server_vars
<1>5. CASE ServerStep
  BY <1>5 DEF ServerStep, AwaitFirstSession, ServiceNone, ServiceError, LoopContinues,
              LoopEnds, finalize, DeadlinePasses, ServiceConnect, server_vars
<1>6. CASE MatchOver \/ UNCHANGED match_vars
  BY <1>6 DEF MatchOver, match_vars, all_vars, server_vars
<1> QED
  BY <1>1, <1>2, <1>3, <1>4, <1>5, <1>6 DEF Silent

\* A session that a step begins belongs to a player that never was; the others were
\* there before, accepted on the same connection.
LEMMA SilentSessions ==
    ASSUME MatchInv, Silent, [MatchNext]_match_vars, IdsUnique',
           NEW sid \in DOMAIN sessions'
    PROVE  \/ sessions'[sid].player_id \notin SpawnedPlayers
           \/ /\ sid \in DOMAIN sessions
              /\ sessions'[sid] = sessions[sid]
              /\ accepted_on'[sid] = accepted_on[sid]
<1>1. ServerInv /\ ConnectionsInv /\ NetInv
  BY DEF MatchInv
<1>2. LoopStep
  BY <1>1, MatchStepIsLoopStep
<1>3. CASE \E q \in Peers : ServiceHello(q)
  <2>1. PICK q \in Peers : ServiceHello(q)
    BY <1>3
  <2>2. PICK n, p, e : n = next_session_id /\ p = AssignedPlayerId /\ e = world.next_entity_id
    OBVIOUS
  <2>3. accept_session /\ SafetyInv
    BY <1>1, <2>1 DEF ServiceHello, ServerInv
  <2>4. p \notin SpawnedPlayers
    BY <2>2, <2>3, AcceptSpawns
  <2>5. sessions' = MapInsert(sessions, n, [player_id |-> p, controlled_entity_id |-> e])
    BY <2>2, <2>3 DEF accept_session
  <2>6. /\ DOMAIN sessions' = DOMAIN sessions \cup {n}
        /\ sessions'[n].player_id = p
    BY <2>5 DEF MapInsert
  <2>7. /\ \A s \in DOMAIN accepted_on : accepted_on'[s] = accepted_on[s]
        /\ \A s \in DOMAIN sessions : sessions'[s] = sessions[s]
    BY <1>1, <2>1, HelloAccepts
  <2>8. \A s \in DOMAIN sessions : s \in DOMAIN accepted_on
    BY FreshTypes
  <2> QED
    BY <2>4, <2>6, <2>7, <2>8
<1>4. CASE ~\E q \in Peers : ServiceHello(q)
  <2>1. /\ sid \in DOMAIN sessions
        /\ sessions'[sid] = sessions[sid]
        /\ accepted_on' = accepted_on
    <3>1. CASE ~BindingStep
      BY <1>2, <3>1, OtherSteps
    <3>2. CASE Welcome
      BY <3>2 DEF Welcome, welcome_for, identity_vars, history_vars
    <3>3. CASE \E q \in Peers : ServiceDisconnect(q)
      BY <1>1, <3>3, DisconnectForgets
    <3>4. CASE \E q \in Peers : ServiceConnect(q) \/ ServiceDisconnectIgnored(q)
      BY <3>4 DEF ServiceConnect, ServiceDisconnectIgnored, server_vars, identity_vars,
                  history_vars
    <3> QED
      BY <1>4, <3>1, <3>2, <3>3, <3>4 DEF BindingStep
  <2> QED
    BY <2>1
<1> QED
  BY <1>3, <1>4

\* Nobody sends, and what the server forgets does no harm.
LEMMA FreshWhenSilent ==
    ASSUME MatchInv, FreshInv, Silent, [MatchNext]_match_vars, IdsUnique'
    PROVE  FreshInv'
<1>1. clients' = clients /\ \A c \in Clients : inflight'[c] \subseteq inflight[c]
  <2>1. CASE \E q \in Peers : PeerGone(q)
    BY <2>1, FreshTypes DEF PeerGone
  <2>2. CASE ~\E q \in Peers : PeerGone(q)
    BY <2>2 DEF Silent, ReceiveHello, ServerStep, MatchOver, SendWelcome, Broadcast,
                match_vars, net_vars
  <2> QED
    BY <2>1, <2>2
<1>2. ASSUME NEW c \in Clients PROVE SentOnce(c)'
  BY <1>1 DEF FreshInv, SentOnce
<1>3. ASSUME NEW sid \in DOMAIN sessions', NEW key \in DOMAIN input_buffer'
      PROVE  ReceivedOnce(sid, key)'
  <2>1. key \in DOMAIN input_buffer /\ input_buffer'[key] = input_buffer[key]
    BY SilentKeepsEntries
  <2>2. key[1] \in SpawnedPlayers
    BY <2>1 DEF MatchInv, ServerInv, SafetyInv, BufferWithinWindow
  <2>3. CASE sessions'[sid].player_id \notin SpawnedPlayers
    BY <2>2, <2>3 DEF ReceivedOnce
  <2>4. CASE /\ sid \in DOMAIN sessions
             /\ sessions'[sid] = sessions[sid]
             /\ accepted_on'[sid] = accepted_on[sid]
    <3>1. ReceivedOnce(sid, key) /\ accepted_on[sid] \in Clients
      BY <2>1, <2>4, FreshTypes DEF FreshInv
    <3> QED
      BY <1>1, <2>1, <2>4, <3>1 DEF ReceivedOnce
  <2> QED
    BY <2>3, <2>4, SilentSessions
<1>4. ClientsNeverTie'
  BY SilentKeepsEntries DEF FreshInv, ClientsNeverTie
<1> QED
  BY <1>2, <1>3, <1>4 DEF FreshInv

\* Nothing is on its way before anybody connects.
LEMMA InitFresh == MatchInit => FreshInv
<1> SUFFICES ASSUME MatchInit PROVE FreshInv
  OBVIOUS
<1>1. /\ \A c \in Clients : inflight[c] = {}
      /\ DOMAIN sessions = {} /\ DOMAIN input_buffer = {}
  BY DEF MatchInit, LoopInit, ServerInit, EmptyMap
<1> QED
  BY <1>1 DEF FreshInv, SentOnce, ClientsNeverTie

\* Each step keeps the numbers apart, while no player id is given out again.
LEMMA NextFresh ==
    MatchInv /\ FreshInv /\ IdsUnique /\ IdsUnique' /\ [MatchNext]_match_vars => FreshInv'
<1> SUFFICES ASSUME MatchInv, FreshInv, IdsUnique, IdsUnique', [MatchNext]_match_vars
             PROVE  FreshInv'
  OBVIOUS
<1>1. CASE Silent
  BY <1>1, FreshWhenSilent
<1>2. CASE \E q \in Peers : \E input \in UNION Range(inflight) : ReceiveInput(q, input)
  BY <1>2, FreshWhenReceived
<1>3. CASE \/ \E c \in GodotClients : GodotStep(c)
           \/ \E c \in TestClients : TestStep(c)
  <2>1. GodotClients \subseteq Clients /\ TestClients \subseteq Clients
    BY MatchAssumption DEF GodotClients
  <2> QED
    BY <1>3, <2>1, FreshWhenSent
<1> QED
  BY <1>1, <1>2, <1>3, MatchSteps DEF QuietStep, Silent

\* The clients' inputs give out no player ids.
LEMMA NextOrdinal ==
    MatchInv /\ SpawnOrderIsOrdinal /\ [MatchNext]_match_vars => SpawnOrderIsOrdinal'
<1> SUFFICES ASSUME MatchInv, SpawnOrderIsOrdinal, [MatchNext]_match_vars
             PROVE  SpawnOrderIsOrdinal'
  OBVIOUS
<1>1. LoopStep /\ SafetyInv /\ CallerInv
  BY MatchStepIsLoopStep DEF MatchInv, ServerInv, SafetyInv, CallerInv
<1>2. CASE [LoopNext]_all_vars
  BY <1>1, <1>2, LoopStepIsServerStep, NextIsOrdinal
<1>3. CASE \E q \in Peers, input \in AnyInput : ServiceInput(q, input)
  <2>1. UNCHANGED <<next_player_id, entity_spawn_order>>
    BY <1>3 DEF ServiceInput, receive_input, identity_vars, spawn_vars
  <2> QED
    BY <2>1 DEF SpawnOrderIsOrdinal
<1> QED
  BY <1>1, <1>2, <1>3 DEF LoopStep

\* No two inputs that a server buffers for one player and tick have the same number
\* (InputSeqGen, receive_input, try_buffer), in whatever order the inputs of a client
\* arrive, and whoever takes over its slot.  The hypotheses are those of IdsNeverReused:
\* were a player id given out again, the two clients that get it would count from 1 each.
THEOREM InputsNeverTie ==
    ASSUME OverflowChecks, test_player_ids = None \/ IsInjective(test_player_ids)
    PROVE  MatchSpec => []ClientsNeverTie
<1>1. MatchInit => SpawnOrderIsOrdinal
  BY InitIsOrdinal DEF MatchInit, LoopInit
<1>2. MatchInv /\ SpawnOrderIsOrdinal => IdsUnique
  BY OrdinalsAreUnique DEF MatchInv, ServerInv, SafetyInv
<1>3. FreshInv => ClientsNeverTie
  BY DEF FreshInv
<1> QED
  BY <1>1, <1>2, <1>3, InitFresh, NextFresh, NextOrdinal, MatchInvariant, PTL DEF MatchSpec
=============================================================================
