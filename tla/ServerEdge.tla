----------------------------- MODULE ServerEdge -----------------------------
(***************************************************************************)
(* The authoritative server of a match, crates/server/src/lib.rs: it       *)
(* accepts sessions, buffers their inputs, advances the world one tick at  *)
(* a time and records the match for replay.  One action per public         *)
(* operation of `Server`; the variables are its fields, under their names. *)
(* TickLoop composes this component with the transport and the loop that   *)
(* drives it; here any caller may call any operation in any order.         *)
(***************************************************************************)
EXTENDS InputBuffer, Replay

CONSTANTS
    match_duration_ticks,  \* ServerConfig
    input_lead_ticks,
    max_sessions,
    test_player_ids,       \* a sequence of player ids, or None
    PlayerIdModulus,       \* 2^8 for the u8 of the code
    OverflowChecks,        \* TRUE in a debug build: integer overflow panics
    InputTicks,            \* the inputs clients may send
    InputSeqs,
    MoveDirs,
    Fingerprints,          \* the build fingerprints a caller may set
    MaxAccepts             \* bound: number of calls of accept_session

PlayerIds == 0 .. PlayerIdModulus - 1

ASSUME ServerConfigAssumption ==
    /\ match_duration_ticks \in Nat
    /\ input_lead_ticks \in Nat
    /\ max_sessions \in Nat
    /\ PlayerIdModulus \in Nat \ {0}
    /\ OverflowChecks \in BOOLEAN
    /\ test_player_ids = None \/ test_player_ids \in Seq(PlayerIds)
    /\ MaxAccepts \in Nat

ASSUME InputAssumption ==
    /\ InputTicks \subseteq Nat
    /\ InputSeqs \subseteq Nat
    /\ MoveDirs \subseteq Int \cup {Malformed}

VARIABLES
    world,
    sessions,            \* session_id -> [player_id, controlled_entity_id]
    next_session_id,
    next_player_id,
    player_sessions,     \* player_id -> session_id
    session_players,     \* session_id -> player_id
    input_buffer,        \* <<player_id, tick>> -> entry
    last_known_intent,   \* player_id -> direction
    last_emitted_floor,  \* session_id -> tick
    replay_recorder,
    entity_spawn_order,  \* sequence of player ids
    player_entity_mapping,
    baseline_recorded,
    status,              \* "running", "finalized" or "panicked"
    artifact             \* what finalize returned, or None

identity_vars == <<sessions, next_session_id, next_player_id,
                   player_sessions, session_players>>
spawn_vars    == <<entity_spawn_order, player_entity_mapping>>
server_vars   == <<world, identity_vars, input_buffer, last_known_intent,
                   last_emitted_floor, replay_recorder, spawn_vars,
                   baseline_recorded, status, artifact>>

SessionIds == 1 .. MaxAccepts
InputCmd   == [tick : InputTicks, input_seq : InputSeqs, move_dir : MoveDirs]

\* Server::new
ServerInit ==
    /\ world = world_new
    /\ sessions = EmptyMap
    /\ next_session_id = 1
    /\ next_player_id = 0
    /\ player_sessions = EmptyMap
    /\ session_players = EmptyMap
    /\ input_buffer = EmptyMap
    /\ last_known_intent = EmptyMap
    /\ last_emitted_floor = EmptyMap
    /\ replay_recorder = recorder_new
    /\ entity_spawn_order = << >>
    /\ player_entity_mapping = EmptyMap
    /\ baseline_recorded = FALSE
    /\ status = "running"
    /\ artifact = None

-----------------------------------------------------------------------------

Panic ==
    /\ status' = "panicked"
    /\ UNCHANGED <<world, identity_vars, input_buffer, last_known_intent,
                   last_emitted_floor, replay_recorder, spawn_vars,
                   baseline_recorded, artifact>>

session_count == Cardinality(DOMAIN sessions)

AssignedPlayerId_mutant_session_count == session_count % PlayerIdModulus

\* The id for the next session: its ordinal, or the ordinal's entry of the test ids.
AssignedPlayerId ==
    IF test_player_ids = None THEN next_player_id ELSE test_player_ids[next_player_id + 1]

\* The assertion, the checked increment and the lookup that can each panic.
AcceptPanics ==
    \/ session_count >= max_sessions
    \/ OverflowChecks /\ next_player_id + 1 = PlayerIdModulus
    \/ test_player_ids # None /\ next_player_id >= Len(test_player_ids)

accept_session_fails ==
    /\ status = "running"
    /\ next_session_id <= MaxAccepts
    /\ AcceptPanics
    /\ Panic

accept_session ==
    /\ status = "running"
    /\ next_session_id <= MaxAccepts
    /\ ~AcceptPanics
    /\ LET sid == next_session_id
           p   == AssignedPlayerId
           e   == world.next_entity_id
       IN  /\ next_session_id' = sid + 1
           /\ next_player_id' = (next_player_id + 1) % PlayerIdModulus
           /\ world' = spawn_character(world, p)
           /\ sessions' = MapInsert(sessions, sid,
                              [player_id |-> p, controlled_entity_id |-> e])
           /\ player_sessions' = MapInsert(player_sessions, p, sid)
           /\ session_players' = MapInsert(session_players, sid, p)
           /\ entity_spawn_order' = Append(entity_spawn_order, p)
           /\ player_entity_mapping' = MapInsert(player_entity_mapping, p, e)
           /\ replay_recorder' = record_spawn(replay_recorder, p, e)
           /\ last_known_intent' = MapInsert(last_known_intent, p, 0)
    /\ UNCHANGED <<input_buffer, last_emitted_floor, baseline_recorded, status, artifact>>

target_tick_floor(tick) == tick + input_lead_ticks

\* welcome_for panics on an unknown session; no caller passes one.
welcome_for(sid) ==
    /\ status = "running"
    /\ sid \in DOMAIN sessions
    /\ last_emitted_floor' =
           MapInsert(last_emitted_floor, sid, target_tick_floor(world.tick))
    /\ UNCHANGED <<world, identity_vars, input_buffer, last_known_intent,
                   replay_recorder, spawn_vars, baseline_recorded, status, artifact>>

disconnect_session_mutant_player_map_kept(sid) ==
    /\ status = "running"
    /\ sid \in DOMAIN sessions
    /\ last_known_intent' = MapInsert(last_known_intent, sessions[sid].player_id, 0)
    /\ sessions' = MapRemove(sessions, {sid})
    /\ session_players' = MapRemove(session_players, {sid})
    /\ last_emitted_floor' = MapRemove(last_emitted_floor, {sid})
    /\ UNCHANGED <<world, next_session_id, next_player_id, player_sessions, input_buffer,
                   replay_recorder, spawn_vars, baseline_recorded, status, artifact>>

disconnect_session_mutant_session_map_kept(sid) ==
    /\ status = "running"
    /\ sid \in DOMAIN sessions
    /\ LET p == sessions[sid].player_id IN
           /\ player_sessions' = MapRemove(player_sessions, {p})
           /\ last_known_intent' = MapInsert(last_known_intent, p, 0)
    /\ sessions' = MapRemove(sessions, {sid})
    /\ last_emitted_floor' = MapRemove(last_emitted_floor, {sid})
    /\ UNCHANGED <<world, next_session_id, next_player_id, session_players, input_buffer,
                   replay_recorder, spawn_vars, baseline_recorded, status, artifact>>

\* Buffered inputs of the departed player stay in input_buffer.
disconnect_session(sid) ==
    /\ status = "running"
    /\ sid \in DOMAIN sessions
    /\ LET p == sessions[sid].player_id IN
           /\ player_sessions' = MapRemove(player_sessions, {p})
           /\ last_known_intent' = MapInsert(last_known_intent, p, 0)
    /\ sessions' = MapRemove(sessions, {sid})
    /\ session_players' = MapRemove(session_players, {sid})
    /\ last_emitted_floor' = MapRemove(last_emitted_floor, {sid})
    /\ UNCHANGED <<world, next_session_id, next_player_id, input_buffer,
                   replay_recorder, spawn_vars, baseline_recorded, status, artifact>>

\* An unknown session is dropped: no change.
receive_input(sid, input) ==
    /\ status = "running"
    /\ sid \in DOMAIN session_players
    /\ input_buffer' = validate_input(input, world.tick,
                           MapGet(last_emitted_floor, sid, 0),
                           input_buffer, session_players[sid])
    /\ UNCHANGED <<world, identity_vars, last_known_intent, last_emitted_floor,
                   replay_recorder, spawn_vars, baseline_recorded, status, artifact>>

-----------------------------------------------------------------------------

(***************************************************************************)
(* step.  Its loop takes one turn per element of entity_spawn_order.       *)
(* `loop` is what a turn reads and writes: the buffer its input is taken   *)
(* from, the intents it falls back to and stores, and applied_inputs.      *)
(***************************************************************************)
TakenInput(loop, p) == take_input(loop.input_buffer, p, world.tick)

TurnDirection_mutant_intent_before_step(loop, p) ==
    IF TakenInput(loop, p) # None THEN TakenInput(loop, p).move_dir
    ELSE MapGet(last_known_intent, p, 0)

\* The buffered input's direction, or else the last known intent (LastKnownIntent).
TurnDirection(loop, p) ==
    IF TakenInput(loop, p) # None THEN TakenInput(loop, p).move_dir
    ELSE MapGet(loop.last_known_intent, p, 0)

ApplyInput_mutant_intent_not_stored(loop, p) ==
    [input_buffer      |-> MapRemove(loop.input_buffer, {<<p, world.tick>>}),
     last_known_intent |-> loop.last_known_intent,
     applied_inputs    |-> Append(loop.applied_inputs,
                               [tick        |-> world.tick,
                                player_id   |-> p,
                                move_dir    |-> TurnDirection(loop, p),
                                is_fallback |-> TakenInput(loop, p) = None])]

\* The turn of a player: the entry leaves the buffer, tied or not, the intent is
\* stored for the turns and ticks to come, and one applied input is pushed.
ApplyInput(loop, p) ==
    [input_buffer      |-> MapRemove(loop.input_buffer, {<<p, world.tick>>}),
     last_known_intent |-> MapInsert(loop.last_known_intent, p, TurnDirection(loop, p)),
     applied_inputs    |-> Append(loop.applied_inputs,
                               [tick        |-> world.tick,
                                player_id   |-> p,
                                move_dir    |-> TurnDirection(loop, p),
                                is_fallback |-> TakenInput(loop, p) = None])]

BeforeLoop == [input_buffer      |-> input_buffer,
               last_known_intent |-> last_known_intent,
               applied_inputs    |-> << >>]

InputLoop_mutant_connected_only ==
    LET order == SelectSeq(entity_spawn_order, LAMBDA p : p \in DOMAIN player_sessions)
        after[n \in 0 .. Len(order)] ==
            IF n = 0 THEN BeforeLoop ELSE ApplyInput(after[n - 1], order[n])
    IN  after[Len(order)]

\* The turns in spawn order, departed players and repeated ids included.
InputLoop ==
    LET after[n \in 0 .. Len(entity_spawn_order)] ==
            IF n = 0 THEN BeforeLoop ELSE ApplyInput(after[n - 1], entity_spawn_order[n])
    IN  after[Len(entity_spawn_order)]

\* The floor sent with this step's snapshot, from the post-step tick.
FloorsAfterStep_mutant_pre_step_tick ==
    [s \in DOMAIN last_emitted_floor \cup DOMAIN sessions |->
        IF s \in DOMAIN sessions THEN target_tick_floor(world.tick)
        ELSE last_emitted_floor[s]]

FloorsAfterStep ==
    [s \in DOMAIN last_emitted_floor \cup DOMAIN sessions |->
        IF s \in DOMAIN sessions THEN target_tick_floor(world.tick + 1)
        ELSE last_emitted_floor[s]]

BaselinedRecorder_mutant_every_step ==
    record_baseline(replay_recorder, baseline(world))

\* The baseline is recorded once, on the first step ever taken.
BaselinedRecorder ==
    IF baseline_recorded THEN replay_recorder
    ELSE record_baseline(replay_recorder, baseline(world))

should_end_match == world.tick >= match_duration_ticks

\* Callers ask should_end_match before every step.
step ==
    /\ status = "running"
    /\ ~should_end_match
    /\ baseline_recorded' = TRUE
    /\ last_known_intent' = InputLoop.last_known_intent
    /\ replay_recorder' = record_inputs(BaselinedRecorder, InputLoop.applied_inputs)
    /\ world' = advance(world, InputLoop.applied_inputs)
    /\ last_emitted_floor' = FloorsAfterStep
    /\ input_buffer' = evict_before(InputLoop.input_buffer, world.tick + 1)
    /\ UNCHANGED <<identity_vars, spawn_vars, status, artifact>>

finalize ==
    /\ status = "running"
    /\ status' = "finalized"
    /\ artifact' = recorder_finalize(replay_recorder, state_digest(world), world.tick)
    /\ UNCHANGED <<world, identity_vars, input_buffer, last_known_intent,
                   last_emitted_floor, replay_recorder, spawn_vars, baseline_recorded>>

\* The server keeps its own copy of the fingerprint, which nothing reads.
set_build_fingerprint(f) ==
    /\ status = "running"
    /\ replay_recorder' = record_fingerprint(replay_recorder, f)
    /\ UNCHANGED <<world, identity_vars, input_buffer, last_known_intent,
                   last_emitted_floor, spawn_vars, baseline_recorded, status, artifact>>

\* The server is consumed by finalize and gone after a panic.
Stopped == status # "running" /\ UNCHANGED server_vars

ServerNext ==
    \/ accept_session
    \/ accept_session_fails
    \/ \E sid \in SessionIds : welcome_for(sid)
    \/ \E sid \in SessionIds : disconnect_session(sid)
    \/ \E sid \in SessionIds, input \in InputCmd : receive_input(sid, input)
    \/ step
    \/ finalize
    \/ \E f \in Fingerprints : set_build_fingerprint(f)
    \/ Stopped

ServerSpec == ServerInit /\ [][ServerNext]_server_vars

-----------------------------------------------------------------------------
(***************************************************************************)
(* Properties.                                                             *)
(***************************************************************************)

InputRecords   == [tick : Nat, input_seq : Nat, move_dir : UnitDirs]
EntryRecords   == [selected : InputRecords, max_input_seq : Nat,
                   max_seq_tied : BOOLEAN, receive_count : Nat \ {0}]
AppliedRecords == [tick : Nat, player_id : PlayerIds, move_dir : UnitDirs,
                   is_fallback : BOOLEAN]
SpawnRecords   == [player_id : PlayerIds, entity_id : Nat \ {0}]

WorldTypeOK ==
    /\ world = [tick           |-> world.tick,
                next_entity_id |-> world.next_entity_id,
                characters     |-> world.characters]
    /\ world.tick \in Nat
    /\ world.next_entity_id \in Nat \ {0}
    /\ world.characters \in [1 .. world.next_entity_id - 1 ->
           [player_id : PlayerIds, position : Int, velocity : UnitDirs]]

IdentityTypeOK ==
    /\ next_session_id \in Nat \ {0}
    /\ next_player_id \in PlayerIds
    /\ DOMAIN sessions \subseteq 1 .. next_session_id - 1
    /\ sessions \in [DOMAIN sessions ->
           [player_id : PlayerIds, controlled_entity_id : Nat \ {0}]]
    /\ DOMAIN player_sessions \subseteq PlayerIds
    /\ player_sessions \in [DOMAIN player_sessions -> Nat \ {0}]
    /\ session_players \in [DOMAIN sessions -> PlayerIds]

BufferTypeOK ==
    /\ DOMAIN input_buffer \subseteq PlayerIds \X Nat
    /\ input_buffer \in [DOMAIN input_buffer -> EntryRecords]

IntentTypeOK ==
    /\ DOMAIN last_known_intent \subseteq PlayerIds
    /\ last_known_intent \in [DOMAIN last_known_intent -> UnitDirs]

FloorTypeOK ==
    /\ DOMAIN last_emitted_floor \subseteq DOMAIN sessions
    /\ last_emitted_floor \in [DOMAIN last_emitted_floor -> Nat]

SpawnTypeOK ==
    /\ entity_spawn_order \in Seq(PlayerIds)
    /\ DOMAIN player_entity_mapping \subseteq PlayerIds
    /\ player_entity_mapping \in [DOMAIN player_entity_mapping -> Nat \ {0}]

RecorderTypeOK ==
    /\ replay_recorder =
           [entity_spawn_order    |-> replay_recorder.entity_spawn_order,
            player_entity_mapping |-> replay_recorder.player_entity_mapping,
            initial_baseline      |-> replay_recorder.initial_baseline,
            inputs                |-> replay_recorder.inputs,
            build_fingerprint     |-> replay_recorder.build_fingerprint]
    /\ replay_recorder.entity_spawn_order \in Seq(PlayerIds)
    /\ replay_recorder.player_entity_mapping \in Seq(SpawnRecords)
    /\ replay_recorder.inputs \in Seq(AppliedRecords)
    /\ baseline_recorded \in BOOLEAN
    /\ status \in {"running", "finalized", "panicked"}

\* Each variable holds a value of its Rust type, and every stored direction,
\* buffered, held, recorded or turned into a velocity, has magnitude at most 1
\* (clamp_magnitude).
TypeOK ==
    /\ WorldTypeOK
    /\ IdentityTypeOK
    /\ BufferTypeOK
    /\ IntentTypeOK
    /\ FloorTypeOK
    /\ SpawnTypeOK
    /\ RecorderTypeOK

SpawnedPlayers == {entity_spawn_order[i] : i \in DOMAIN entity_spawn_order}

\* InputTickWindow (validate_input, evict_before): whatever was buffered when,
\* the buffer only ever holds inputs of spawned players for ticks that are not
\* yet simulated and at most max_future_ticks ahead.
BufferWithinWindow ==
    \A key \in DOMAIN input_buffer :
        /\ key[1] \in SpawnedPlayers
        /\ key[2] \in world.tick .. world.tick + max_future_ticks

\* ADR-0006 floor coherency (welcome_for, step): every connected session that
\* has been sent a floor is held to the same one, that of the current tick.
FloorCoherent ==
    \A sid \in DOMAIN last_emitted_floor :
        last_emitted_floor[sid] = world.tick + input_lead_ticks

IdsUnique == IsInjective(entity_spawn_order)

\* next_player_id's comment (accept_session): a player id is never given out
\* again, whatever sessions have left in between.
PlayerIdsNeverReused == IdsUnique

\* accept_session and disconnect_session keep the three identity maps in step:
\* while ids are not reused, session and player determine each other and a
\* session's inputs move exactly the entity it was told it controls.
SessionBindings ==
    /\ DOMAIN session_players = DOMAIN sessions
    /\ IdsUnique =>
        /\ DOMAIN player_sessions = {sessions[sid].player_id : sid \in DOMAIN sessions}
        /\ \A sid \in DOMAIN sessions :
            LET e == sessions[sid].controlled_entity_id IN
            /\ session_players[sid] = sessions[sid].player_id
            /\ player_sessions[session_players[sid]] = sid
            /\ e \in DOMAIN world.characters
            /\ world.characters[e].player_id = session_players[sid]
            /\ IsFirstOfPlayer(world, e)

\* INV-0006 and ADR-0006 (step): the recording holds exactly one applied input
\* per player and tick, without a gap from the first tick a player is simulated,
\* connected or not, and from tick 0 for everyone in the baseline.
OneAppliedInputPerTick ==
    IdsUnique =>
        \A i \in DOMAIN entity_spawn_order, t \in 0 .. world.tick :
            LET n(tick) == Cardinality(InputsAt(replay_recorder, entity_spawn_order[i], tick))
            IN  /\ n(t) \in {0, 1}
                /\ n(world.tick) = 0
                /\ n(t) = 1 /\ t + 1 < world.tick => n(t + 1) = 1
                /\ baseline_recorded /\ t < world.tick
                   /\ i \in DOMAIN replay_recorder.initial_baseline.entities => n(t) = 1

\* step's loop under reused ids: the turns of one player id in one step agree on
\* the direction, since the first one leaves the intent the later ones fall back
\* to.  advance, which moves a character once per input, and the sort in front of
\* it rely on this (apply_movement).
SameIntentPerStep ==
    \A i, j \in DOMAIN replay_recorder.inputs :
        LET a == replay_recorder.inputs[i]
            b == replay_recorder.inputs[j]
        IN  a.player_id = b.player_id /\ a.tick = b.tick => a.move_dir = b.move_dir

\* LastKnownIntent (step): what a connected player falls back to is the
\* direction recorded for it one tick ago, or zero if it has not been simulated.
IntentHeld ==
    IdsUnique =>
        \A p \in DOMAIN player_sessions :
            LET last == InputsAt(replay_recorder, p, world.tick - 1) IN
            IF last = {} THEN last_known_intent[p] = 0
            ELSE \A i \in last : last_known_intent[p] = replay_recorder.inputs[i].move_dir

EveryoneInBaseline ==
    /\ baseline_recorded
    /\ DOMAIN replay_recorder.initial_baseline.entities = DOMAIN world.characters

VerifyOptions == [current_build : {None} \cup Fingerprints, strict_build_check : BOOLEAN]

OtherBuild(options) ==
    /\ options.strict_build_check
    /\ options.current_build # None
    /\ artifact.build_fingerprint \notin {None, options.current_build}

\* INV-0006 (finalize, verify_replay): a finished match verifies exactly when it
\* took a step, every session was accepted before the first one, no player id
\* was given out twice, and a strict verifier is not known to be another build.
VerifiesIffComplete ==
    artifact # None =>
        \A options \in VerifyOptions :
            verify_replay(artifact, options) = "Ok" <=>
                EveryoneInBaseline /\ IdsUnique /\ ~OtherBuild(options)

\* A disconnect outlives nothing (disconnect_session, receive_input): only a
\* live session's player ever gains or changes a buffered input.
OnlyLivePlayersBuffer ==
    [][\A key \in DOMAIN input_buffer' :
           \/ key \in DOMAIN input_buffer /\ input_buffer'[key] = input_buffer[key]
           \/ \E sid \in DOMAIN sessions : sessions[sid].player_id = key[1]]_server_vars

Departed(p) ==
    /\ p \in SpawnedPlayers
    /\ \A sid \in DOMAIN sessions : sessions[sid].player_id # p

PositionsOf(p) ==
    {<<e, world.characters[e].position>> :
        e \in {e \in DOMAIN world.characters : world.characters[e].player_id = p}}

\* disconnect_session with nothing left in the buffer: the character of a
\* departed player whose intent is zero and who has no buffered input never
\* moves again.
Frozen(p) ==
    /\ Departed(p)
    /\ last_known_intent[p] = 0
    /\ \A key \in DOMAIN input_buffer : key[1] # p

FrozenStaysFrozen ==
    [][\A p \in SpawnedPlayers :
           Frozen(p) /\ IdsUnique' => Frozen(p)' /\ PositionsOf(p)' = PositionsOf(p)]_server_vars

\* disconnect_session's comment: a departed player's character freezes in place.
DepartedFreezes ==
    [][\A p \in SpawnedPlayers :
           Departed(p) /\ IdsUnique' => PositionsOf(p)' = PositionsOf(p)]_server_vars

\* INV-0006's claim without its side conditions: every match that took a step
\* can be verified from its artifact.
EveryMatchVerifies ==
    artifact # None /\ baseline_recorded =>
        verify_replay(artifact, [current_build |-> None, strict_build_check |-> TRUE]) = "Ok"
=============================================================================
