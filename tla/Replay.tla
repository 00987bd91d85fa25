------------------------------- MODULE Replay -------------------------------
(***************************************************************************)
(* Recording a match and verifying the recording, crates/replay.           *)
(* The recorder is a record held by the server; verify_replay is a         *)
(* function of the artifact that rebuilds the world and replays the match. *)
(***************************************************************************)
EXTENDS SimWorld

Snapshots == Seq([position : Int, velocity : Int])

\* Option<Baseline>: no baseline is None.
ASSUME NoneIsNoBaseline ==
    None \notin [tick : Nat, entities : Snapshots, digest : Nat \X Snapshots]

\* ReplayRecorder::new, without the configuration it copies through.
recorder_new == [entity_spawn_order    |-> << >>,
                 player_entity_mapping |-> << >>,
                 initial_baseline      |-> None,
                 inputs                |-> << >>,
                 build_fingerprint     |-> None]

record_spawn(recorder, p, e) ==
    [recorder EXCEPT !.entity_spawn_order = Append(@, p),
                     !.player_entity_mapping =
                         Append(@, [player_id |-> p, entity_id |-> e])]

record_baseline(recorder, b) == [recorder EXCEPT !.initial_baseline = b]

record_inputs(recorder, applied) == [recorder EXCEPT !.inputs = @ \o applied]

record_fingerprint(recorder, f) == [recorder EXCEPT !.build_fingerprint = f]

\* ReplayRecorder::finalize: the fields of ReplayArtifact that verification reads.
recorder_finalize(recorder, digest, tick) ==
    [entity_spawn_order    |-> recorder.entity_spawn_order,
     player_entity_mapping |-> recorder.player_entity_mapping,
     initial_baseline      |-> recorder.initial_baseline,
     inputs                |-> recorder.inputs,
     build_fingerprint     |-> recorder.build_fingerprint,
     final_digest          |-> digest,
     checkpoint_tick       |-> tick]

-----------------------------------------------------------------------------

MappedPlayers(artifact) ==
    {artifact.player_entity_mapping[i].player_id :
        i \in DOMAIN artifact.player_entity_mapping}

InputsAt(artifact, p, t) ==
    {i \in DOMAIN artifact.inputs :
        /\ artifact.inputs[i].player_id = p
        /\ artifact.inputs[i].tick = t}

ReplayedTicks(artifact) ==
    artifact.initial_baseline.tick .. artifact.checkpoint_tick - 1

(***************************************************************************)
(* validate_input_stream: every mapped player has exactly one input at     *)
(* every replayed tick, and there is no input besides these.               *)
(***************************************************************************)
validate_input_stream(artifact) ==
    /\ \A p \in MappedPlayers(artifact), t \in ReplayedTicks(artifact) :
           Cardinality(InputsAt(artifact, p, t)) = 1
    /\ \A i \in DOMAIN artifact.inputs :
           /\ artifact.inputs[i].tick \in ReplayedTicks(artifact)
           /\ artifact.inputs[i].player_id \in MappedPlayers(artifact)

\* Step 4: the entity a player maps to; the last mapping of a player wins.
ExpectedEntity(artifact, p) ==
    LET m == artifact.player_entity_mapping
        i == CHOOSE i \in DOMAIN m :
                 /\ m[i].player_id = p
                 /\ \A j \in DOMAIN m : j > i => m[j].player_id # p
    IN  m[i].entity_id

\* The world rebuilt from the spawn order alone, at tick 0.
ReconstructedWorld(artifact) ==
    LET order == artifact.entity_spawn_order
        spawned[n \in 0 .. Len(order)] ==
            IF n = 0 THEN world_new ELSE spawn_character(spawned[n - 1], order[n])
    IN  spawned[Len(order)]

SpawnMismatch(artifact) ==
    LET characters == ReconstructedWorld(artifact).characters IN
    \E e \in DOMAIN characters :
        /\ characters[e].player_id \in MappedPlayers(artifact)
        /\ ExpectedEntity(artifact, characters[e].player_id) # e

\* The inputs of a tick, under their positions in the stream; advance does not look
\* at their order.
inputs_by_tick(artifact, t) ==
    Restrict(artifact.inputs, {i \in DOMAIN artifact.inputs : artifact.inputs[i].tick = t})

\* Step 6: the reconstructed world advanced over every replayed tick.
ReplayedWorld(artifact) ==
    LET first == artifact.initial_baseline.tick
        world[t \in first .. artifact.checkpoint_tick] ==
            IF t = first THEN ReconstructedWorld(artifact)
            ELSE advance(world[t - 1], inputs_by_tick(artifact, t - 1))
    IN  world[artifact.checkpoint_tick]

\* As if the outcome of the replay were not compared with the recorded one.
verify_replay_mutant_no_final_digest(artifact, options) ==
    IF /\ artifact.build_fingerprint # None
       /\ options.current_build # None
       /\ artifact.build_fingerprint # options.current_build
       /\ options.strict_build_check
    THEN "BuildMismatch"
    ELSE IF artifact.initial_baseline = None
    THEN "MissingBaseline"
    ELSE IF ~validate_input_stream(artifact)
    THEN "InputStreamInvalid"
    ELSE IF SpawnMismatch(artifact)
    THEN "SpawnReconstructionMismatch"
    ELSE IF state_digest(ReconstructedWorld(artifact)) # artifact.initial_baseline.digest
    THEN "InitializationAnchorMismatch"
    ELSE "Ok"

(***************************************************************************)
(* verify_replay, its eight steps in order; options carries the build the  *)
(* verifier runs (or None) and whether a different build is an error.      *)
(***************************************************************************)
verify_replay(artifact, options) ==
    IF /\ artifact.build_fingerprint # None
       /\ options.current_build # None
       /\ artifact.build_fingerprint # options.current_build
       /\ options.strict_build_check
    THEN "BuildMismatch"
    ELSE IF artifact.initial_baseline = None
    THEN "MissingBaseline"
    ELSE IF ~validate_input_stream(artifact)
    THEN "InputStreamInvalid"
    ELSE IF SpawnMismatch(artifact)
    THEN "SpawnReconstructionMismatch"
    ELSE IF state_digest(ReconstructedWorld(artifact)) # artifact.initial_baseline.digest
    THEN "InitializationAnchorMismatch"
    ELSE IF ReplayedWorld(artifact).tick # artifact.checkpoint_tick
    THEN "CheckpointTickMismatch"
    ELSE IF state_digest(ReplayedWorld(artifact)) # artifact.final_digest
    THEN "FinalDigestMismatch"
    ELSE "Ok"
=============================================================================
