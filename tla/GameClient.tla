----------------------------- MODULE GameClient -----------------------------
(***************************************************************************)
(* The Godot client, client/net/network_client.gd with the MatchState and  *)
(* the match scene its signals drive, as operators on the record of one    *)
(* client.  Entities are kept as the set of their ids: their positions are *)
(* drawn as received.                                                      *)
(***************************************************************************)
EXTENDS Integers, RustTypes, WireFormat

\* A client whose scene is ready: connect_to_server has been called.
client_new ==
    [state                |-> "CONNECTING",
     hello_sent           |-> FALSE,
     tick_floor           |-> 0,
     input_seq            |-> 0,
     welcome_entity       |-> -1,       \* _welcome.controlled_entity_id
     controlled_entity_id |-> -1,       \* the fields of MatchState
     latest_tick          |-> -1,
     entities             |-> {},
     views                |-> EmptyMap] \* entity id -> drawn as the controlled one

\* EVENT_CONNECT: ClientHello is sent once.
on_connect(c) == [c EXCEPT !.hello_sent = TRUE]

\* EVENT_DISCONNECT; _process does nothing from then on.
on_disconnect(c) == [c EXCEPT !.state = "DISCONNECTED"]

\* _spawn_or_update_view: a view is told once whether it is the controlled one.
spawn_or_update_views(c) ==
    [c EXCEPT !.views = [e \in DOMAIN @ \cup c.entities |->
                            IF e \in DOMAIN @ THEN @[e] ELSE e = c.controlled_entity_id]]

apply_baseline(c, baseline) ==
    [c EXCEPT !.latest_tick = baseline.tick, !.entities = baseline.entities]

apply_snapshot_mutant_stale_applied(c, snapshot) ==
    [c EXCEPT !.latest_tick = snapshot.tick, !.entities = snapshot.entities]

\* No-op on a stale or duplicate tick.
apply_snapshot(c, snapshot) ==
    IF snapshot.tick <= c.latest_tick THEN c
    ELSE [c EXCEPT !.latest_tick = snapshot.tick, !.entities = snapshot.entities]

\* The scene's handlers of the two signals.
on_baseline_received(c, baseline) ==
    spawn_or_update_views(
        apply_baseline([c EXCEPT !.controlled_entity_id = c.welcome_entity], baseline))

on_snapshot_received(c, snapshot) == spawn_or_update_views(apply_snapshot(c, snapshot))

\* What a packet on the control channel is taken for depends on the state.
handle_control_packet(c, packet) ==
    CASE c.state = "CONNECTING" ->
            LET welcome == decode(ServerWelcome_fields, packet)
            IN  [c EXCEPT !.state = "AWAITING_BASELINE",
                          !.tick_floor = welcome.target_tick_floor,
                          !.welcome_entity = welcome.controlled_entity_id]
      [] c.state = "AWAITING_BASELINE" ->
            on_baseline_received([c EXCEPT !.state = "READY"],
                                 decode(JoinBaseline_fields, packet))
      [] OTHER -> c

TickFloor_observe_mutant_ignored(floor, received) == floor

TickFloor_observe(floor, received) == IF received > floor THEN received ELSE floor

LatestSnapshot(packets) ==
    LET snapshots == {decode(SnapshotProto_fields, packet) : packet \in packets}
    IN  CHOOSE s \in snapshots : \A t \in snapshots : t.tick <= s.tick

(***************************************************************************)
(* One drain of _process that finds the given snapshots: only the one with *)
(* the highest tick is used, and none before the client is READY.          *)
(***************************************************************************)
process_snapshots_mutant_before_ready(c, packets) ==
    LET latest == LatestSnapshot(packets)
    IN  IF c.state \notin {"AWAITING_BASELINE", "READY"} THEN c
        ELSE on_snapshot_received(
                 [c EXCEPT !.tick_floor = TickFloor_observe(@, latest.target_tick_floor)],
                 latest)

process_snapshots(c, packets) ==
    LET latest == LatestSnapshot(packets)
    IN  IF c.state # "READY" THEN c
        ELSE on_snapshot_received(
                 [c EXCEPT !.tick_floor = TickFloor_observe(@, latest.target_tick_floor)],
                 latest)

InputSeqGen_advance_mutant_stuck(seq) == 1

InputSeqGen_advance(seq) == seq + 1

\* The command send_input puts on the realtime channel.
InputCmdToSend(c, move_dir, desired_tick) ==
    [tick      |-> IF desired_tick > c.tick_floor THEN desired_tick ELSE c.tick_floor,
     input_seq |-> InputSeqGen_advance(c.input_seq),
     move_dir  |-> move_dir]

AfterSend(c) == [c EXCEPT !.input_seq = InputSeqGen_advance(@)]
=============================================================================
