----------------------------- MODULE TestClient -----------------------------
(***************************************************************************)
(* The Rust test client, crates/client, as operators on the record of one  *)
(* client.  A test calls it: connect, then recv_baseline, poll_snapshot,   *)
(* send_input and drive_move_dir in any order.  Each call services the     *)
(* host itself, so what one call drains is lost to the others.             *)
(***************************************************************************)
EXTENDS Integers, RustTypes, WireFormat

\* Option<Baseline>, Option<Snapshot>: neither is None.
ASSUME NoneIsNoReceivedState == None \notin [tick : Nat, entities : SUBSET Nat]

\* Inside connection::connect; only a client that gets out of it is a TestClient.
test_client_new ==
    [state                |-> "CONNECTING",    \* then "CONNECTED" or "FAILED"
     hello_sent           |-> FALSE,
     peer_connected       |-> FALSE,
     welcome              |-> None,
     tick_floor           |-> 0,
     baseline             |-> None,
     snapshot             |-> None,
     input_seq            |-> 0,
     polled_early         |-> FALSE]           \* history: polled without a baseline

TickFloor_max(floor, received) == IF received > floor THEN received ELSE floor

connect_on_connect(c) == [c EXCEPT !.hello_sent = TRUE, !.peer_connected = TRUE]

\* ENet drops the peer; every call, connect included, skips the event and goes on.
skip_disconnect(c) == [c EXCEPT !.peer_connected = FALSE]

\* The first control packet that decodes as a ServerWelcome ends the handshake;
\* what is queued behind it stays queued.
connect_on_control(c, packet) ==
    IF decodes(ServerWelcome_fields, packet)
    THEN LET welcome == decode(ServerWelcome_fields, packet)
         IN  [c EXCEPT !.state = "CONNECTED",
                       !.welcome = welcome,
                       !.tick_floor = welcome.target_tick_floor]
    ELSE c

\* ConnectError: the deadline passed, or the transport failed.
connect_fails(c) == [c EXCEPT !.state = "FAILED"]

\* The conversions to what the simulation calls a Baseline and a Snapshot.
Baseline_try_from(proto) == [tick |-> proto.tick, entities |-> proto.entities]

Snapshot_try_from(proto) == [tick |-> proto.tick, entities |-> proto.entities]

\* A control packet serviced by recv_baseline; one that does not decode is lost.
recv_baseline_on_control(c, packet) ==
    IF decodes(JoinBaseline_fields, packet)
    THEN [c EXCEPT !.baseline = Baseline_try_from(decode(JoinBaseline_fields, packet))]
    ELSE c

\* is_newer over one drain; the snapshot kept from earlier drains plays no part.
latest_of_drain(packets) ==
    LET protos == {decode(SnapshotProto_fields, packet) : packet \in packets}
    IN  CHOOSE s \in protos : \A t \in protos : t.tick <= s.tick

\* poll_snapshot with the snapshots of its drain; none when it fails half way.
poll_snapshot(c, packets) ==
    IF packets = {} THEN [c EXCEPT !.polled_early = @ \/ c.baseline = None]
    ELSE LET latest == latest_of_drain(packets)
         IN  [c EXCEPT !.polled_early = @ \/ c.baseline = None,
                       !.tick_floor = TickFloor_max(@, latest.target_tick_floor),
                       !.snapshot = Snapshot_try_from(latest)]

target_tick(floor, desired_tick) == IF desired_tick > floor THEN desired_tick ELSE floor

\* One input per tick, and with a count of 1 what send_input does.  A sequence
\* number is used up before the peer is looked for; without one the call fails.
drive_move_dir(c, start_tick, count, move_dir) ==
    IF ~c.peer_connected
    THEN [client |-> [c EXCEPT !.input_seq = @ + 1], sent |-> {}]
    ELSE [client |-> [c EXCEPT !.input_seq = @ + count],
          sent   |-> {[tick      |-> target_tick(c.tick_floor, start_tick + offset),
                       input_seq |-> c.input_seq + 1 + offset,
                       move_dir  |-> move_dir] : offset \in 0 .. count - 1}]
=============================================================================
