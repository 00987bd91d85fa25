------------------------------- MODULE Match -------------------------------
(***************************************************************************)
(* A whole match: the server process of module TickLoop, Godot clients of  *)
(* module GameClient, test clients of module TestClient, and what travels  *)
(* between them.  Client number c is the one that makes the c-th           *)
(* connection; both kinds connect once, so a client has one connection.    *)
(*                                                                         *)
(* The control channel is a queue of packets.  A snapshot packet that was  *)
(* broadcast to a client may arrive at any time after, any number of times *)
(* or never: more than ENet's unreliable channel allows, but what the      *)
(* clients say they tolerate.  An input may be delayed, overtaken or lost, *)
(* and arrives at most once.  The channels are not ordered with each other.*)
(* When either end closes, what is on its way to it is gone.               *)
(***************************************************************************)
EXTENDS TickLoop, GameClient, TestClient

CONSTANTS
    TestClients,          \* which clients are Rust test clients
    MaxInputs             \* bound: inputs sent by all clients

VARIABLES
    clients,              \* client -> its record
    control,              \* client -> control packets on their way to it
    realtime,             \* client -> snapshots broadcast to it
    inflight              \* client -> inputs on their way to the server

net_vars   == <<control, realtime, inflight>>
match_vars == <<all_vars, clients, net_vars>>

Clients      == 1 .. MaxConnects
GodotClients == Clients \ TestClients

ASSUME MatchAssumption == TestClients \subseteq Clients /\ MaxInputs \in Nat

MatchInit ==
    /\ LoopInit
    /\ clients = [c \in Clients |->
                     IF c \in TestClients THEN test_client_new ELSE client_new]
    /\ control = [c \in Clients |-> << >>]
    /\ realtime = [c \in Clients |-> {}]
    /\ inflight = [c \in Clients |-> {}]

\* The client's end of its connection is open, or not yet made.
Listening(c) ==
    IF c \in GodotClients THEN clients[c].state # "DISCONNECTED"
    ELSE /\ clients[c].state # "FAILED"
         /\ clients[c].hello_sent => clients[c].peer_connected

\* What happens to the packets on their way to a client that stops listening.
StopsListening(c) ==
    /\ control' = [control EXCEPT ![c] = << >>]
    /\ realtime' = [realtime EXCEPT ![c] = {}]
    /\ UNCHANGED <<all_vars, inflight>>

-----------------------------------------------------------------------------
(***************************************************************************)
(* The server's steps and what they do to the network.                     *)
(***************************************************************************)

\* A ClientHello arrives from the client that holds slot q.
ReceiveHello(q) ==
    /\ q \in connected
    /\ clients[connection[q]].hello_sent
    /\ ServiceHello(q) \/ ServiceHelloPanics(q)
    /\ UNCHANGED <<clients, net_vars>>

entity_ids(w) == DOMAIN w.characters

WelcomePacket_mutant_player_for_entity(sid) ==
    encode(ServerWelcome_fields,
           [target_tick_floor    |-> target_tick_floor(world.tick),
            tick_rate_hz         |-> tick_rate_hz,
            player_id            |-> sessions[sid].player_id,
            controlled_entity_id |-> sessions[sid].player_id])

WelcomePacket(sid) ==
    encode(ServerWelcome_fields,
           [target_tick_floor    |-> target_tick_floor(world.tick),
            tick_rate_hz         |-> tick_rate_hz,
            player_id            |-> sessions[sid].player_id,
            controlled_entity_id |-> sessions[sid].controlled_entity_id])

\* From<Baseline>
JoinBaseline(w) == [tick |-> w.tick, entities |-> entity_ids(w)]

\* baseline_proto, as if it were taken before the session's character spawns.
BaselinePacket_mutant_before_spawn ==
    encode(JoinBaseline_fields,
           [JoinBaseline(world) EXCEPT !.entities = @ \ {world.next_entity_id - 1}])

BaselinePacket == encode(JoinBaseline_fields, JoinBaseline(world))

\* ServerWelcome, then JoinBaseline, reliable, to the peer just accepted.
SendWelcome ==
    /\ Welcome
    /\ \E q \in connected :
           /\ MapGet(peer_sessions, q, None) = welcoming
           /\ control' = [control EXCEPT ![connection[q]] =
                             IF Listening(connection[q])
                             THEN @ \o <<WelcomePacket(welcoming), BaselinePacket>>
                             ELSE @]
    /\ UNCHANGED <<clients, realtime, inflight>>

ReceiveInput(q, input) ==
    /\ q \in connected
    /\ input \in inflight[connection[q]]
    /\ ServiceInput(q, input)
    /\ inflight' = [inflight EXCEPT ![connection[q]] = @ \ {input}]
    /\ UNCHANGED <<clients, control, realtime>>

PostStepSnapshot_mutant_floor_one_ahead ==
    encode(SnapshotProto_fields,
           [tick              |-> world.tick + 1,
            entities          |-> entity_ids(world),
            target_tick_floor |-> target_tick_floor(world.tick + 2)])

PostStepSnapshot ==
    encode(SnapshotProto_fields,
           [tick              |-> world.tick + 1,
            entities          |-> entity_ids(world),
            target_tick_floor |-> target_tick_floor(world.tick + 1)])

\* host.broadcast: to every connected peer, also one that has not said hello.
Broadcast ==
    /\ Advance
    /\ realtime' = [c \in Clients |->
                       IF Listening(c) /\ \E q \in connected : connection[q] = c
                       THEN realtime[c] \cup {PostStepSnapshot}
                       ELSE realtime[c]]
    /\ UNCHANGED <<clients, control, inflight>>

\* The server's end of a connection closes.
PeerGone(q) ==
    /\ q \in connected
    /\ ServiceDisconnect(q) \/ ServiceDisconnectIgnored(q)
    /\ inflight' = [inflight EXCEPT ![connection[q]] = {}]
    /\ UNCHANGED <<clients, control, realtime>>

\* Everything else the server's thread does is invisible to the clients.
ServerStep ==
    /\ \/ AwaitFirstSession
       \/ ServiceNone
       \/ ServiceError
       \/ LoopContinues
       \/ LoopEnds
       \/ DeadlinePasses
       \/ \E q \in Peers : ServiceConnect(q)
    /\ UNCHANGED <<clients, net_vars>>

-----------------------------------------------------------------------------
(***************************************************************************)
(* The Godot clients' steps.                                               *)
(***************************************************************************)

ClientConnected(c) ==
    /\ c <= connects
    /\ clients[c].state = "CONNECTING"
    /\ ~clients[c].hello_sent
    /\ clients' = [clients EXCEPT ![c] = on_connect(@)]
    /\ UNCHANGED <<all_vars, net_vars>>

ClientControl(c) ==
    /\ clients[c].state # "DISCONNECTED"
    /\ control[c] # << >>
    /\ clients' = [clients EXCEPT ![c] = handle_control_packet(@, Head(control[c]))]
    /\ control' = [control EXCEPT ![c] = Tail(@)]
    /\ UNCHANGED <<all_vars, realtime, inflight>>

ClientSnapshots(c, packets) ==
    /\ clients[c].state # "DISCONNECTED"
    /\ clients' = [clients EXCEPT ![c] = process_snapshots(@, packets)]
    /\ UNCHANGED <<all_vars, net_vars>>

InputsSent ==
    FoldFunction(LAMBDA m, n : m + n, 0, [c \in Clients |-> clients[c].input_seq])

\* _on_move_dir_changed: the desired tick is the floor.
ClientSends(c, move_dir) ==
    /\ clients[c].state = "READY"
    /\ InputsSent < MaxInputs
    /\ inflight' = [inflight EXCEPT ![c] =
           @ \cup {InputCmdToSend(clients[c], move_dir, clients[c].tick_floor)}]
    /\ clients' = [clients EXCEPT ![c] = AfterSend(@)]
    /\ UNCHANGED <<all_vars, control, realtime>>

\* EVENT_DISCONNECT: it closed the window, timed out, or the server is gone.
ClientDisconnected(c) ==
    /\ c <= connects
    /\ clients[c].state # "DISCONNECTED"
    /\ clients' = [clients EXCEPT ![c] = on_disconnect(@)]
    /\ StopsListening(c)

-----------------------------------------------------------------------------
(***************************************************************************)
(* The test clients' steps: the events and calls of module TestClient.     *)
(***************************************************************************)

\* Event::Connect, in connect.
TestConnected(c) ==
    /\ c <= connects
    /\ clients[c].state = "CONNECTING"
    /\ ~clients[c].hello_sent
    /\ clients' = [clients EXCEPT ![c] = connect_on_connect(@)]
    /\ UNCHANGED <<all_vars, net_vars>>

\* As if connect went on with its drain after the welcome.
TestWelcomed_mutant_keeps_draining(c) ==
    /\ clients[c].state = "CONNECTING"
    /\ control[c] # << >>
    /\ clients' = [clients EXCEPT ![c] = connect_on_control(@, Head(control[c]))]
    /\ control' = [control EXCEPT ![c] = << >>]
    /\ UNCHANGED <<all_vars, realtime, inflight>>

\* A packet on the control channel, in connect.
TestWelcomed(c) ==
    /\ clients[c].state = "CONNECTING"
    /\ control[c] # << >>
    /\ clients' = [clients EXCEPT ![c] = connect_on_control(@, Head(control[c]))]
    /\ control' = [control EXCEPT ![c] = Tail(@)]
    /\ UNCHANGED <<all_vars, realtime, inflight>>

\* The timeout, also of a connect that has skipped a disconnect, or an error.
\* Whatever arrives later, the welcome included, finds nobody; the server is
\* not told.
TestConnectFails(c) ==
    /\ clients[c].state = "CONNECTING"
    /\ clients' = [clients EXCEPT ![c] = connect_fails(@)]
    /\ StopsListening(c)

\* One packet on the control channel, in recv_baseline; a call that times out
\* has taken none, or only ones that are no baseline.
TestReceivesBaseline(c) ==
    /\ clients[c].state = "CONNECTED"
    /\ control[c] # << >>
    /\ clients' = [clients EXCEPT ![c] = recv_baseline_on_control(@, Head(control[c]))]
    /\ control' = [control EXCEPT ![c] = Tail(@)]
    /\ UNCHANGED <<all_vars, realtime, inflight>>

\* poll_snapshot: its drain takes the control packets that have arrived, too.
TestPolls(c, arrived, packets) ==
    /\ clients[c].state = "CONNECTED"
    /\ clients' = [clients EXCEPT ![c] = poll_snapshot(@, packets)]
    /\ control' = [control EXCEPT ![c] = SubSeq(@, arrived + 1, Len(@))]
    /\ UNCHANGED <<all_vars, realtime, inflight>>

TestDrives(c, start_tick, count, move_dir) ==
    LET drive == drive_move_dir(clients[c], start_tick, count, move_dir) IN
    /\ clients[c].state = "CONNECTED"
    /\ InputsSent + count <= MaxInputs
    /\ clients' = [clients EXCEPT ![c] = drive.client]
    /\ inflight' = [inflight EXCEPT ![c] = @ \cup drive.sent]
    /\ UNCHANGED <<all_vars, control, realtime>>

\* Event::Disconnect, in connect or a later call: skipped, but the peer is gone.
TestDisconnected(c) ==
    /\ clients[c].state # "FAILED"
    /\ clients[c].peer_connected
    /\ clients' = [clients EXCEPT ![c] = skip_disconnect(@)]
    /\ StopsListening(c)

-----------------------------------------------------------------------------

MatchOver == Ended /\ UNCHANGED match_vars

MatchNext ==
    \/ \E q \in Peers : ReceiveHello(q)
    \/ SendWelcome
    \/ \E q \in Peers : \E input \in UNION Range(inflight) : ReceiveInput(q, input)
    \/ Broadcast
    \/ \E q \in Peers : PeerGone(q)
    \/ ServerStep
    \/ \E c \in GodotClients :
           \/ ClientConnected(c)
           \/ ClientControl(c)
           \/ \E packets \in (SUBSET realtime[c]) \ {{}} : ClientSnapshots(c, packets)
           \/ \E move_dir \in MoveDirs : ClientSends(c, move_dir)
           \/ ClientDisconnected(c)
    \/ \E c \in TestClients :
           \/ TestConnected(c)
           \/ TestWelcomed(c)
           \/ TestConnectFails(c)
           \/ TestReceivesBaseline(c)
           \/ \E arrived \in 0 .. Len(control[c]), packets \in SUBSET realtime[c] :
                  TestPolls(c, arrived, packets)
           \/ \E start_tick \in InputTicks, count \in 1 .. MaxInputs, move_dir \in MoveDirs :
                  TestDrives(c, start_tick, count, move_dir)
           \/ TestDisconnected(c)
    \/ MatchOver

MatchSpec == MatchInit /\ [][MatchNext]_match_vars

-----------------------------------------------------------------------------
(***************************************************************************)
(* Properties.                                                             *)
(***************************************************************************)

\* MatchState.apply_snapshot and apply_baseline: what a Godot client shows never
\* goes back to an earlier tick, whatever arrives late, twice or out of order.
ViewNeverGoesBack ==
    [][\A c \in GodotClients : clients'[c].latest_tick >= clients[c].latest_tick]_match_vars

\* accept_and_welcome, _handle_control_packet, _spawn_or_update_view: a client
\* that is ready and still bound to a session shows the character that the
\* server moves with that session's inputs, and marks that one only as its own.
OwnCharacterShown ==
    \A q \in {q \in connected \cap DOMAIN peer_sessions : connection[q] \in GodotClients} :
        LET client == clients[connection[q]]
            own    == sessions[peer_sessions[q]].controlled_entity_id
        IN  client.state = "READY" =>
                /\ own \in client.entities
                /\ \A e \in DOMAIN client.views : client.views[e] <=> e = own

\* ADR-0006 (TickFloor, send_input, step): a Godot client never aims further
\* ahead than the server's floor.  Where input_lead_ticks is at most
\* max_future_ticks, none of its inputs is dropped as too far in the future.
AimsAtTheFloor ==
    \A c \in GodotClients : \A input \in inflight[c] :
        input.tick <= target_tick_floor(world.tick)

\* ADR-0006 (accept_and_welcome, step, TickFloor.observe): the floor a Godot
\* client aims at is always that of the tick it shows, so the next snapshot it
\* gets, after any number it missed, is enough to aim right again.
FloorFollowsView ==
    \A c \in GodotClients :
        clients[c].state = "READY" =>
            clients[c].tick_floor = target_tick_floor(clients[c].latest_tick)

\* InputSeqGen and the session binding: inputs of real clients never tie, in
\* whatever order they arrive and whichever slots the clients get.
ClientsNeverTie == \A key \in DOMAIN input_buffer : ~input_buffer[key].max_seq_tied

\* accept_and_welcome, connect and recv_baseline tell the two messages of the
\* control channel apart by what decodes: each packet on its way decodes as
\* exactly one of them, whenever the session joins.
PacketsUnambiguous ==
    \A c \in Clients : \A i \in DOMAIN control[c] :
        decodes(ServerWelcome_fields, control[c][i])
            # decodes(JoinBaseline_fields, control[c][i])

\* connect returns in the middle of a drain: the baseline of a client that is
\* connected and has not polled yet is stored or still in the queue.
BaselineNotLost ==
    \A c \in TestClients :
        /\ clients[c].state = "CONNECTED"
        /\ clients[c].peer_connected
        /\ ~clients[c].polled_early
        => \/ clients[c].baseline # None
           \/ \E i \in DOMAIN control[c] : decodes(JoinBaseline_fields, control[c][i])

\* poll_snapshot: a snapshot of a tick after the join, whose floor is past the
\* welcome's, has the character the welcome told the client it controls; only
\* one broadcast before the join, and overtaken by the welcome, lacks it.
SnapshotHasOwnEntity ==
    \A c \in TestClients :
        LET client == clients[c] IN
        /\ client.snapshot # None
        /\ target_tick_floor(client.snapshot.tick) > client.welcome.target_tick_floor
        => client.welcome.controlled_entity_id \in client.snapshot.entities
=============================================================================
