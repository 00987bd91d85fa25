----------------------- MODULE ServerEdgeSafetyProofs -----------------------
(***************************************************************************)
(* Safety theorems of ServerEdge beyond its types.  Each is the weakest    *)
(* conjunct of an inductive invariant that adds what the operations rely   *)
(* on: that a session's player has been spawned, that a character belongs  *)
(* to the player at its place in the spawn order, and that nothing has     *)
(* been recorded for a tick not yet simulated.                             *)
(***************************************************************************)
EXTENDS ServerEdgeProofs

\* A session's player and entity sit at the same place of the spawn order.
BindingsSpawned ==
    \A sid \in DOMAIN sessions :
        LET e == sessions[sid].controlled_entity_id IN
        /\ e \in DOMAIN entity_spawn_order
        /\ entity_spawn_order[e] = sessions[sid].player_id
        /\ session_players[sid] = sessions[sid].player_id

\* Entity ids count spawns, and an entity belongs to the player spawned then.
CharactersFollowSpawnOrder ==
    /\ Len(entity_spawn_order) = world.next_entity_id - 1
    /\ \A e \in DOMAIN world.characters :
           world.characters[e].player_id = entity_spawn_order[e]

\* While ids are not reused, players and sessions determine each other.
BindingsInverse ==
    IdsUnique =>
        /\ DOMAIN player_sessions = {sessions[sid].player_id : sid \in DOMAIN sessions}
        /\ \A sid \in DOMAIN sessions : player_sessions[sessions[sid].player_id] = sid

NothingRecordedAhead ==
    \A i \in DOMAIN replay_recorder.inputs : replay_recorder.inputs[i].tick < world.tick

SafetyInv ==
    /\ TypeOK
    /\ FloorCoherent
    /\ BufferWithinWindow
    /\ BindingsSpawned
    /\ CharactersFollowSpawnOrder
    /\ BindingsInverse
    /\ NothingRecordedAhead
    /\ SameIntentPerStep

-----------------------------------------------------------------------------

\* A new server satisfies the invariant.
LEMMA InitSafe == ServerInit => SafetyInv
<1> SUFFICES ASSUME ServerInit PROVE SafetyInv
  OBVIOUS
<1>1. TypeOK
  BY InitTypeOK
<1>2. FloorCoherent /\ BufferWithinWindow /\ BindingsSpawned /\ BindingsInverse
  BY DEF ServerInit, EmptyMap, FloorCoherent, BufferWithinWindow, BindingsSpawned,
         BindingsInverse
<1>3. CharactersFollowSpawnOrder
  BY DEF ServerInit, EmptyMap, world_new, CharactersFollowSpawnOrder
<1>4. NothingRecordedAhead /\ SameIntentPerStep
  BY DEF ServerInit, recorder_new, NothingRecordedAhead, SameIntentPerStep
<1> QED
  BY <1>1, <1>2, <1>3, <1>4 DEF SafetyInv

\* The fields the invariant speaks of, apart from the types.
safety_vars == <<world, sessions, player_sessions, session_players, input_buffer,
                 last_emitted_floor, entity_spawn_order, replay_recorder.inputs>>

\* An operation that leaves these fields alone keeps the invariant.
LEMMA UntouchedSafe == SafetyInv /\ TypeOK' /\ UNCHANGED safety_vars => SafetyInv'
<1> SUFFICES ASSUME SafetyInv, TypeOK', UNCHANGED safety_vars PROVE SafetyInv'
  OBVIOUS
<1> USE DEF safety_vars, SafetyInv
<1>1. FloorCoherent' /\ BufferWithinWindow'
  BY DEF FloorCoherent, BufferWithinWindow, SpawnedPlayers
<1>2. BindingsSpawned' /\ BindingsInverse' /\ CharactersFollowSpawnOrder'
  BY DEF BindingsSpawned, BindingsInverse, CharactersFollowSpawnOrder, IdsUnique
<1>3. NothingRecordedAhead' /\ SameIntentPerStep'
  BY DEF NothingRecordedAhead, SameIntentPerStep
<1> QED
  BY <1>1, <1>2, <1>3

\* welcome_for gives the session the floor of the current tick.
LEMMA WelcomeSafe ==
    ASSUME SafetyInv, NEW sid \in SessionIds, welcome_for(sid)
    PROVE  SafetyInv'
<1>1. TypeOK'
  BY WelcomeTypeOK DEF SafetyInv
<1>2. FloorCoherent'
  BY DEF welcome_for, SafetyInv, FloorCoherent, MapInsert, target_tick_floor
<1>3. BufferWithinWindow' /\ NothingRecordedAhead' /\ SameIntentPerStep'
  BY DEF welcome_for, SafetyInv, BufferWithinWindow, SpawnedPlayers, NothingRecordedAhead,
         SameIntentPerStep, spawn_vars
<1>4. BindingsSpawned' /\ BindingsInverse' /\ CharactersFollowSpawnOrder'
  BY DEF welcome_for, SafetyInv, BindingsSpawned, BindingsInverse, IdsUnique,
         CharactersFollowSpawnOrder, identity_vars, spawn_vars
<1> QED
  BY <1>1, <1>2, <1>3, <1>4 DEF SafetyInv

\* receive_input buffers for a spawned player, inside the window.
LEMMA ReceiveSafe ==
    ASSUME SafetyInv, NEW sid \in SessionIds, NEW input \in AnyInput,
           receive_input(sid, input)
    PROVE  SafetyInv'
<1>1. TypeOK /\ TypeOK'
  BY ReceiveTypeOK DEF SafetyInv
<1>2. BufferWithinWindow'
  <2>1. UNCHANGED <<world, entity_spawn_order>>
    BY DEF receive_input, spawn_vars
  <2>2. CASE input_buffer' = input_buffer
    BY <2>1, <2>2 DEF SafetyInv, BufferWithinWindow, SpawnedPlayers
  <2>3. CASE input_buffer' # input_buffer
    <3>1. /\ DOMAIN input_buffer' =
                 DOMAIN input_buffer \cup {<<session_players[sid], input.tick>>}
          /\ input.tick \in world.tick .. world.tick + max_future_ticks
      BY <1>1, <2>3, ReceiveBuffer
    <3>2. session_players[sid] \in SpawnedPlayers
      <4>1. sid \in DOMAIN sessions
        BY DEF receive_input, SafetyInv, TypeOK, IdentityTypeOK
      <4> QED
        BY <4>1 DEF SafetyInv, BindingsSpawned, SpawnedPlayers
    <3>3. SpawnedPlayers' = SpawnedPlayers
      BY <2>1 DEF SpawnedPlayers
    <3> QED
      BY <2>1, <3>1, <3>2, <3>3 DEF SafetyInv, BufferWithinWindow
  <2> QED
    BY <2>2, <2>3
<1>3. FloorCoherent' /\ NothingRecordedAhead' /\ SameIntentPerStep'
  BY DEF receive_input, SafetyInv, FloorCoherent, NothingRecordedAhead, SameIntentPerStep
<1>4. BindingsSpawned' /\ BindingsInverse' /\ CharactersFollowSpawnOrder'
  BY DEF receive_input, SafetyInv, BindingsSpawned, BindingsInverse, IdsUnique,
         CharactersFollowSpawnOrder, identity_vars, spawn_vars
<1> QED
  BY <1>1, <1>2, <1>3, <1>4 DEF SafetyInv

\* disconnect_session removes one binding and no other.
LEMMA DisconnectSafe ==
    ASSUME SafetyInv, NEW sid \in SessionIds, disconnect_session(sid)
    PROVE  SafetyInv'
<1> DEFINE p == sessions[sid].player_id
<1>1. TypeOK /\ TypeOK'
  BY DisconnectTypeOK DEF SafetyInv
<1>2. /\ sid \in DOMAIN sessions
      /\ DOMAIN sessions' = DOMAIN sessions \ {sid}
      /\ \A s \in DOMAIN sessions' : sessions'[s] = sessions[s]
      /\ \A s \in DOMAIN sessions' : session_players'[s] = session_players[s]
      /\ DOMAIN player_sessions' = DOMAIN player_sessions \ {p}
      /\ \A q \in DOMAIN player_sessions' : player_sessions'[q] = player_sessions[q]
      /\ UNCHANGED <<world, input_buffer, entity_spawn_order, replay_recorder>>
  BY <1>1 DEF disconnect_session, MapRemove, Restrict, spawn_vars, TypeOK, IdentityTypeOK
<1>3. FloorCoherent'
  BY <1>2 DEF disconnect_session, MapRemove, Restrict, SafetyInv, FloorCoherent
<1>4. /\ BufferWithinWindow' /\ CharactersFollowSpawnOrder'
      /\ NothingRecordedAhead' /\ SameIntentPerStep'
  BY <1>2 DEF SafetyInv, BufferWithinWindow, SpawnedPlayers, CharactersFollowSpawnOrder,
              NothingRecordedAhead, SameIntentPerStep
<1>5. BindingsSpawned'
  BY <1>2 DEF SafetyInv, BindingsSpawned
<1>6. BindingsInverse'
  <2> SUFFICES ASSUME IdsUnique' PROVE
          /\ DOMAIN player_sessions' = {sessions'[s].player_id : s \in DOMAIN sessions'}
          /\ \A s \in DOMAIN sessions' : player_sessions'[sessions'[s].player_id] = s
    BY DEF BindingsInverse
  <2>1. /\ DOMAIN player_sessions = {sessions[s].player_id : s \in DOMAIN sessions}
        /\ \A s \in DOMAIN sessions : player_sessions[sessions[s].player_id] = s
    BY <1>2 DEF SafetyInv, BindingsInverse, IdsUnique
  <2>2. \A s \in DOMAIN sessions' : sessions'[s].player_id # p
    BY <1>2, <2>1
  <2>3. {sessions'[s].player_id : s \in DOMAIN sessions'} = DOMAIN player_sessions \ {p}
    BY <1>2, <2>1, <2>2
  <2> QED
    BY <1>2, <2>1, <2>2, <2>3
<1> QED
  BY <1>1, <1>3, <1>4, <1>5, <1>6 DEF SafetyInv

\* accept_session adds one binding, at the end of the spawn order.
LEMMA AcceptSafe == SafetyInv /\ accept_session => SafetyInv'
<1> SUFFICES ASSUME SafetyInv, accept_session PROVE SafetyInv'
  OBVIOUS
<1> DEFINE p   == AssignedPlayerId
           sid == next_session_id
           e   == world.next_entity_id
           n   == Len(entity_spawn_order)
<1>1. TypeOK /\ TypeOK'
  BY AcceptTypeOK DEF SafetyInv
<1>2. /\ sessions' = MapInsert(sessions, sid, [player_id |-> p, controlled_entity_id |-> e])
      /\ player_sessions' = MapInsert(player_sessions, p, sid)
      /\ session_players' = MapInsert(session_players, sid, p)
      /\ entity_spawn_order' = Append(entity_spawn_order, p)
      /\ UNCHANGED <<input_buffer, last_emitted_floor>>
  BY DEF accept_session
<1>3. p \in PlayerIds
  BY <1>1, AssignedPlayerIdType DEF accept_session
<1>4. /\ n \in Nat /\ e \in Nat \ {0} /\ e = n + 1
      /\ entity_spawn_order \in Seq(PlayerIds)
      /\ DOMAIN entity_spawn_order = 1 .. n
  BY <1>1 DEF TypeOK, SpawnTypeOK, WorldTypeOK, SafetyInv, CharactersFollowSpawnOrder
<1>5. sid \notin DOMAIN sessions /\ DOMAIN session_players = DOMAIN sessions
  BY <1>1 DEF TypeOK, IdentityTypeOK
<1>6. /\ world'.tick = world.tick
      /\ world'.next_entity_id = e + 1
      /\ DOMAIN world'.characters = DOMAIN world.characters \cup {e}
      /\ world'.characters[e].player_id = p
      /\ \A f \in DOMAIN world.characters \ {e} : world'.characters[f] = world.characters[f]
  <2>1. PICK t, m, cs : world = [tick |-> t, next_entity_id |-> m, characters |-> cs]
    BY <1>1 DEF TypeOK, WorldTypeOK
  <2>2. world' = [tick |-> t, next_entity_id |-> m + 1,
                  characters |-> MapInsert(cs, m, Character(p))]
    BY <2>1 DEF accept_session, spawn_character
  <2> HIDE DEF p
  <2> QED
    BY <2>1, <2>2 DEF MapInsert, Character
<1>7. replay_recorder'.inputs = replay_recorder.inputs
  <2>1. PICK a, b, c, d, g :
            replay_recorder = [entity_spawn_order |-> a, player_entity_mapping |-> b,
                               initial_baseline |-> c, inputs |-> d, build_fingerprint |-> g]
    BY <1>1 DEF TypeOK, RecorderTypeOK
  <2> QED
    BY <2>1 DEF accept_session, record_spawn
<1> HIDE DEF p, sid, e, n
<1>8. /\ DOMAIN entity_spawn_order' = 1 .. n + 1
      /\ Len(entity_spawn_order') = n + 1
      /\ entity_spawn_order'[n + 1] = p
      /\ \A i \in 1 .. n : entity_spawn_order'[i] = entity_spawn_order[i]
  BY <1>2, <1>3, <1>4 DEF n
<1>9. FloorCoherent'
  BY <1>2, <1>6 DEF SafetyInv, FloorCoherent
<1>10. BufferWithinWindow'
  <2>1. SpawnedPlayers \subseteq SpawnedPlayers'
    BY <1>4, <1>8 DEF SpawnedPlayers
  <2> QED
    BY <1>2, <1>6, <2>1 DEF SafetyInv, BufferWithinWindow
<1>11. BindingsSpawned'
  <2>1. ASSUME NEW s \in DOMAIN sessions', s # sid
        PROVE  /\ s \in DOMAIN sessions
               /\ sessions'[s] = sessions[s]
               /\ session_players'[s] = session_players[s]
    BY <1>2, <1>5, <2>1 DEF MapInsert
  <2>2. /\ sessions'[sid] = [player_id |-> p, controlled_entity_id |-> e]
        /\ session_players'[sid] = p
    BY <1>2 DEF MapInsert
  <2> QED
    BY <1>4, <1>8, <2>1, <2>2 DEF SafetyInv, BindingsSpawned
<1>12. CharactersFollowSpawnOrder'
  <2>1. DOMAIN world.characters = 1 .. n
    BY <1>1, <1>4 DEF TypeOK, WorldTypeOK, e
  <2> QED
    BY <1>4, <1>6, <1>8, <2>1 DEF SafetyInv, CharactersFollowSpawnOrder
<1>13. BindingsInverse'
  <2> SUFFICES ASSUME IdsUnique' PROVE
          /\ DOMAIN player_sessions' = {sessions'[s].player_id : s \in DOMAIN sessions'}
          /\ \A s \in DOMAIN sessions' : player_sessions'[sessions'[s].player_id] = s
    BY DEF BindingsInverse
  <2>1. IdsUnique /\ \A i \in 1 .. n : entity_spawn_order[i] # p
    <3>1. \A i, j \in 1 .. n + 1 :
              entity_spawn_order'[i] = entity_spawn_order'[j] => i = j
      BY <1>8 DEF IdsUnique, IsInjective
    <3>2. \A i \in 1 .. n : i \in 1 .. n + 1 /\ i # n + 1
      BY <1>4
    <3>3. n + 1 \in 1 .. n + 1
      BY <1>4
    <3> QED
      BY <1>4, <1>8, <3>1, <3>2, <3>3 DEF IdsUnique, IsInjective
  <2>2. /\ DOMAIN player_sessions = {sessions[s].player_id : s \in DOMAIN sessions}
        /\ \A s \in DOMAIN sessions : player_sessions[sessions[s].player_id] = s
    BY <2>1 DEF SafetyInv, BindingsInverse
  <2>3. \A s \in DOMAIN sessions : sessions[s].player_id # p
    BY <1>4, <2>1 DEF SafetyInv, BindingsSpawned
  <2>4. /\ DOMAIN sessions' = DOMAIN sessions \cup {sid}
        /\ sessions'[sid].player_id = p
        /\ \A s \in DOMAIN sessions : sessions'[s] = sessions[s]
    BY <1>2, <1>5 DEF MapInsert
  <2>5. /\ DOMAIN player_sessions' = DOMAIN player_sessions \cup {p}
        /\ player_sessions'[p] = sid
        /\ \A q \in DOMAIN player_sessions \ {p} : player_sessions'[q] = player_sessions[q]
    BY <1>2 DEF MapInsert
  <2>6. {sessions'[s].player_id : s \in DOMAIN sessions'} =
            {sessions[s].player_id : s \in DOMAIN sessions} \cup {p}
    BY <2>4
  <2> QED
    BY <2>2, <2>3, <2>4, <2>5, <2>6
<1>14. NothingRecordedAhead' /\ SameIntentPerStep'
  BY <1>6, <1>7 DEF SafetyInv, NothingRecordedAhead, SameIntentPerStep
<1> QED
  BY <1>1, <1>9, <1>10, <1>11, <1>12, <1>13, <1>14 DEF SafetyInv

\* apply_movement moves characters and never gives one to another player.
LEMMA AdvanceKeepsPlayers ==
    ASSUME WorldTypeOK, NEW inputs, NEW e \in DOMAIN world.characters
    PROVE  /\ e \in DOMAIN advance(world, inputs).characters
           /\ advance(world, inputs).characters[e].player_id = world.characters[e].player_id
<1>1. apply_movement(world, inputs, e).player_id = world.characters[e].player_id
  <2> DEFINE c == world.characters[e]
  <2>1. c \in [player_id : PlayerIds, position : Int, velocity : UnitDirs]
    BY DEF WorldTypeOK
  <2>2. \A a, b : [c EXCEPT !.velocity = a, !.position = b].player_id = c.player_id
    BY <2>1
  <2> QED
    BY <2>2 DEF apply_movement
<1>2. advance(world, inputs).characters =
          [f \in DOMAIN world.characters |-> apply_movement(world, inputs, f)]
  <2>1. PICK t, n, cs : world = [tick |-> t, next_entity_id |-> n, characters |-> cs]
    BY DEF WorldTypeOK
  <2>2. world.characters = cs
    BY <2>1
  <2> DEFINE moved == [f \in DOMAIN world.characters |-> apply_movement(world, inputs, f)]
  <2>3. advance(world, inputs) = [world EXCEPT !.tick = @ + 1, !.characters = moved]
    BY DEF advance
  <2> HIDE DEF moved
  <2>4. advance(world, inputs).characters = moved
    BY <2>1, <2>3
  <2> QED
    BY <2>4 DEF moved
<1> QED
  BY <1>1, <1>2

\* step appends the applied inputs to the recording, and the first step of all
\* records the baseline.
LEMMA StepRecords ==
    ASSUME TypeOK, step
    PROVE  /\ replay_recorder'.inputs = replay_recorder.inputs \o AppliedInputs
           /\ replay_recorder'.initial_baseline =
                  IF baseline_recorded THEN replay_recorder.initial_baseline
                  ELSE baseline(world)
           /\ replay_recorder'.player_entity_mapping = replay_recorder.player_entity_mapping
           /\ replay_recorder'.entity_spawn_order = replay_recorder.entity_spawn_order
<1> DEFINE base == IF baseline_recorded THEN replay_recorder.initial_baseline
                   ELSE baseline(world)
<1>1. PICK r1, r2, r3, r4, r5 :
          replay_recorder = [entity_spawn_order |-> r1, player_entity_mapping |-> r2,
                             initial_baseline |-> r3, inputs |-> r4,
                             build_fingerprint |-> r5]
  BY DEF TypeOK, RecorderTypeOK
<1>2. BaselinedRecorder =
          [entity_spawn_order |-> r1, player_entity_mapping |-> r2,
           initial_baseline |-> base, inputs |-> r4, build_fingerprint |-> r5]
  BY <1>1 DEF BaselinedRecorder, record_baseline
<1> HIDE DEF base
<1>3. replay_recorder' =
          [entity_spawn_order |-> r1, player_entity_mapping |-> r2,
           initial_baseline |-> base, inputs |-> r4 \o AppliedInputs,
           build_fingerprint |-> r5]
  BY <1>2, StepResult DEF record_inputs
<1> QED
  BY <1>1, <1>3 DEF base

\* step evicts what falls out of the window, moves every floor along with the
\* tick and records one intent per player.
LEMMA StepSafe == SafetyInv /\ step => SafetyInv'
<1> SUFFICES ASSUME SafetyInv, step PROVE SafetyInv'
  OBVIOUS
<1>1. TypeOK /\ TypeOK'
  BY StepTypeOK DEF SafetyInv
<1>2. /\ world'.tick = world.tick + 1
      /\ world.tick \in Nat
      /\ world'.next_entity_id = world.next_entity_id
      /\ UNCHANGED <<sessions, player_sessions, session_players, entity_spawn_order>>
  BY <1>1, StepEffect DEF step, identity_vars, spawn_vars, TypeOK, WorldTypeOK
<1>3. FloorCoherent'
  BY <1>1, <1>2, StepEffect DEF FloorCoherent
<1>4. BufferWithinWindow'
  <2>1. SpawnedPlayers' = SpawnedPlayers
    BY <1>2 DEF SpawnedPlayers
  <2>2. ASSUME NEW key \in DOMAIN input_buffer'
        PROVE  /\ key[1] \in SpawnedPlayers'
               /\ key[2] \in world'.tick .. world'.tick + max_future_ticks
    <3>1. /\ key[1] \in SpawnedPlayers
          /\ key[2] \in world.tick .. world.tick + max_future_ticks
          /\ key[2] >= world.tick + 1
      BY <1>1, StepEffect DEF SafetyInv, BufferWithinWindow
    <3> QED
      BY <1>2, <2>1, <3>1, ValidationConfigAssumption
  <2> QED
    BY <2>2 DEF BufferWithinWindow
<1>5. BindingsSpawned' /\ BindingsInverse'
  BY <1>2 DEF SafetyInv, BindingsSpawned, BindingsInverse, IdsUnique
<1>6. CharactersFollowSpawnOrder'
  <2>1. world' = advance(world, AppliedInputs) /\ WorldTypeOK
    BY <1>1, StepResult DEF TypeOK
  <2>2. DOMAIN world'.characters = DOMAIN world.characters
    BY <1>1, <1>2 DEF TypeOK, WorldTypeOK
  <2>3. \A e \in DOMAIN world.characters :
            world'.characters[e].player_id = world.characters[e].player_id
    BY <2>1, AdvanceKeepsPlayers
  <2> QED
    BY <1>2, <2>2, <2>3 DEF SafetyInv, CharactersFollowSpawnOrder
<1>7. NothingRecordedAhead' /\ SameIntentPerStep'
  <2> DEFINE d == replay_recorder.inputs
             a == AppliedInputs
  <2>1. replay_recorder'.inputs = d \o a
    BY <1>1, StepRecords
  <2>2. d \in Seq(AppliedRecords) /\ a \in Seq(AppliedRecords)
    BY <1>1, AppliedInputsType DEF TypeOK, RecorderTypeOK
  <2>3. \A i \in DOMAIN a :
            /\ a[i].tick = world.tick
            /\ a[i].move_dir = AppliedIntent(a[i].player_id)
    BY <1>1, AppliedInputsType
  <2>4. \A i \in DOMAIN d : d[i].tick < world.tick /\ d[i].tick \in Nat
    <3>1. \A i \in DOMAIN d : d[i].tick < world.tick
      BY DEF SafetyInv, NothingRecordedAhead
    <3>2. \A i \in DOMAIN d : d[i] \in AppliedRecords
      BY <2>2
    <3>3. \A x \in AppliedRecords : x.tick \in Nat
      BY DEF AppliedRecords
    <3> QED
      BY <3>1, <3>2, <3>3
  <2> HIDE DEF d, a
  <2>5. \A i \in DOMAIN (d \o a) :
            \/ i \in DOMAIN d /\ (d \o a)[i] = d[i]
            \/ i - Len(d) \in DOMAIN a /\ (d \o a)[i] = a[i - Len(d)]
    BY <2>2
  <2>6. NothingRecordedAhead'
    BY <1>2, <2>1, <2>3, <2>4, <2>5 DEF NothingRecordedAhead
  <2>7. \A i, j \in DOMAIN d :
            d[i].player_id = d[j].player_id /\ d[i].tick = d[j].tick
                => d[i].move_dir = d[j].move_dir
    BY DEF SafetyInv, SameIntentPerStep, d
  <2>8. ASSUME NEW i \in DOMAIN (d \o a), NEW j \in DOMAIN (d \o a),
               (d \o a)[i].player_id = (d \o a)[j].player_id,
               (d \o a)[i].tick = (d \o a)[j].tick
        PROVE  (d \o a)[i].move_dir = (d \o a)[j].move_dir
    <3> DEFINE x == (d \o a)[i]
               y == (d \o a)[j]
    <3>1. CASE i \in DOMAIN d /\ x = d[i] /\ j \in DOMAIN d /\ y = d[j]
      BY <2>7, <2>8, <3>1
    <3>2. CASE \/ x.tick = world.tick /\ y.tick < world.tick
               \/ y.tick = world.tick /\ x.tick < world.tick
      BY <1>2, <2>8, <3>2
    <3>3. CASE /\ x.move_dir = AppliedIntent(x.player_id)
               /\ y.move_dir = AppliedIntent(y.player_id)
      BY <2>8, <3>3
    <3> HIDE DEF x, y
    <3>4. ASSUME NEW k \in DOMAIN (d \o a), NEW z, z = (d \o a)[k]
          PROVE  \/ k \in DOMAIN d /\ z = d[k] /\ z.tick < world.tick
                 \/ z.tick = world.tick /\ z.move_dir = AppliedIntent(z.player_id)
      BY <2>3, <2>4, <2>5, <3>4
    <3>5. /\ \/ i \in DOMAIN d /\ x = d[i] /\ x.tick < world.tick
             \/ x.tick = world.tick /\ x.move_dir = AppliedIntent(x.player_id)
          /\ \/ j \in DOMAIN d /\ y = d[j] /\ y.tick < world.tick
             \/ y.tick = world.tick /\ y.move_dir = AppliedIntent(y.player_id)
      BY <3>4 DEF x, y
    <3> QED
      BY <3>1, <3>2, <3>3, <3>5
  <2>9. SameIntentPerStep'
    BY <2>1, <2>8 DEF SameIntentPerStep
  <2> QED
    BY <2>6, <2>9
<1> QED
  BY <1>1, <1>3, <1>4, <1>5, <1>6, <1>7 DEF SafetyInv

\* Every operation keeps the invariant.
LEMMA NextSafe == SafetyInv /\ [ServerNext]_server_vars => SafetyInv'
<1> SUFFICES ASSUME SafetyInv, [ServerNext]_server_vars PROVE SafetyInv'
  OBVIOUS
<1>1. TypeOK /\ TypeOK'
  BY NextTypeOK DEF SafetyInv
<1>2. CASE accept_session
  BY <1>2, AcceptSafe
<1>3. CASE \E sid \in SessionIds : welcome_for(sid)
  BY <1>3, WelcomeSafe
<1>4. CASE \E sid \in SessionIds : disconnect_session(sid)
  BY <1>4, DisconnectSafe
<1>5. CASE \E sid \in SessionIds, input \in InputCmd : receive_input(sid, input)
  BY <1>5, ReceiveSafe, InputCmdIsInput
<1>6. CASE step
  BY <1>6, StepSafe
<1>7. CASE accept_session_fails \/ finalize \/ Stopped \/ UNCHANGED server_vars
  <2>1. UNCHANGED safety_vars
    BY <1>7 DEF accept_session_fails, Panic, finalize, Stopped, server_vars, safety_vars,
                identity_vars, spawn_vars
  <2> QED
    BY <1>1, <2>1, UntouchedSafe
<1>8. CASE \E f \in Fingerprints : set_build_fingerprint(f)
  <2>1. replay_recorder'.inputs = replay_recorder.inputs
    <3>1. PICK a, b, c, d, g :
            replay_recorder = [entity_spawn_order |-> a, player_entity_mapping |-> b,
                               initial_baseline |-> c, inputs |-> d, build_fingerprint |-> g]
      BY <1>1 DEF TypeOK, RecorderTypeOK
    <3> QED
      BY <1>8, <3>1 DEF set_build_fingerprint, record_fingerprint
  <2>2. UNCHANGED safety_vars
    BY <1>8, <2>1 DEF set_build_fingerprint, safety_vars, identity_vars, spawn_vars
  <2> QED
    BY <1>1, <2>2, UntouchedSafe
<1> QED
  BY <1>2, <1>3, <1>4, <1>5, <1>6, <1>7, <1>8 DEF ServerNext

\* The inductive invariant holds in every reachable state.
THEOREM Safety == ServerSpec => []SafetyInv
<1>1. ServerInit => SafetyInv
  BY InitSafe
<1>2. SafetyInv /\ [ServerNext]_server_vars => SafetyInv'
  BY NextSafe
<1> QED
  BY <1>1, <1>2, PTL DEF ServerSpec

\* Whatever clients send and whenever they leave, the buffer holds only inputs of
\* spawned players inside the tick window (validate_input, evict_before).
THEOREM BufferBounded == ServerSpec => []BufferWithinWindow
<1>1. SafetyInv => BufferWithinWindow
  BY DEF SafetyInv
<1> QED
  BY <1>1, Safety, PTL

\* All welcomed sessions are always held to the one floor of the current tick
\* (welcome_for, step), as ADR-0006 requires.
THEOREM FloorsAgree == ServerSpec => []FloorCoherent
<1>1. SafetyInv => FloorCoherent
  BY DEF SafetyInv
<1> QED
  BY <1>1, Safety, PTL

\* Two inputs recorded for one player and tick have one direction (step), so
\* advance may apply any of them, even with player ids reused.
THEOREM OneIntentPerStep == ServerSpec => []SameIntentPerStep
<1>1. SafetyInv => SameIntentPerStep
  BY DEF SafetyInv
<1> QED
  BY <1>1, Safety, PTL

\* While no player id is reused, sessions and players determine each other and a
\* session drives exactly the entity it was welcomed with (accept_session,
\* disconnect_session, apply_movement).
THEOREM BindingsCorrect == ServerSpec => []SessionBindings
<1>1. SafetyInv => SessionBindings
  <2> SUFFICES ASSUME SafetyInv PROVE SessionBindings
    OBVIOUS
  <2>1. DOMAIN session_players = DOMAIN sessions
    BY DEF SafetyInv, TypeOK, IdentityTypeOK
  <2>2. DOMAIN world.characters = DOMAIN entity_spawn_order
    <3>1. DOMAIN entity_spawn_order = 1 .. Len(entity_spawn_order)
      BY DEF SafetyInv, TypeOK, SpawnTypeOK
    <3> QED
      BY <3>1 DEF SafetyInv, TypeOK, WorldTypeOK, CharactersFollowSpawnOrder
  <2>3. ASSUME IdsUnique, NEW sid \in DOMAIN sessions,
               NEW e, e = sessions[sid].controlled_entity_id
        PROVE  /\ session_players[sid] = sessions[sid].player_id
               /\ player_sessions[session_players[sid]] = sid
               /\ e \in DOMAIN world.characters
               /\ world.characters[e].player_id = session_players[sid]
               /\ IsFirstOfPlayer(world, e)
    <3>1. /\ e \in DOMAIN entity_spawn_order
          /\ entity_spawn_order[e] = sessions[sid].player_id
          /\ session_players[sid] = sessions[sid].player_id
      BY <2>3 DEF SafetyInv, BindingsSpawned
    <3>2. player_sessions[session_players[sid]] = sid
      BY <2>3, <3>1 DEF SafetyInv, BindingsInverse
    <3>3. \A f \in DOMAIN world.characters :
              world.characters[f].player_id = entity_spawn_order[f]
      BY DEF SafetyInv, CharactersFollowSpawnOrder
    <3>4. IsFirstOfPlayer(world, e)
      <4>1. ASSUME NEW f \in DOMAIN world.characters, f < e
            PROVE  entity_spawn_order[f] # entity_spawn_order[e]
        <5>1. f # e
          <6>1. e \in Nat /\ f \in Nat
            BY <2>2, <3>1 DEF SafetyInv, TypeOK, SpawnTypeOK
          <6> QED
            BY <4>1, <6>1
        <5> QED
          BY <2>2, <2>3, <3>1, <5>1 DEF IdsUnique, IsInjective
      <4> QED
        BY <2>2, <3>1, <3>3, <4>1 DEF IsFirstOfPlayer
    <3> QED
      BY <2>2, <3>1, <3>2, <3>3, <3>4
  <2>4. IdsUnique => DOMAIN player_sessions =
                         {sessions[sid].player_id : sid \in DOMAIN sessions}
    BY DEF SafetyInv, BindingsInverse
  <2> QED
    BY <2>1, <2>3, <2>4 DEF SessionBindings
<1> QED
  BY <1>1, Safety, PTL
=============================================================================
