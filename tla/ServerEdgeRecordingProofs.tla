------------------------ MODULE ServerEdgeRecordingProofs ------------------------
(***************************************************************************)
(* What ServerEdge records: one applied input per player and tick, without *)
(* a gap, and the intent a connected player falls back to is the one last  *)
(* recorded for it.                                                        *)
(***************************************************************************)
EXTENDS ServerEdgeActionProofs

\* Inputs are only ever recorded for players that have been spawned.
RecordedSpawned ==
    \A k \in DOMAIN replay_recorder.inputs :
        replay_recorder.inputs[k].player_id \in SpawnedPlayers

\* The baseline is recorded by the step of tick 0, of the characters there are then.
BaselineFirst ==
    IF baseline_recorded
    THEN /\ replay_recorder.initial_baseline.tick = 0
         /\ DOMAIN replay_recorder.initial_baseline.entities \subseteq
                DOMAIN entity_spawn_order
    ELSE world.tick = 0

\* Player p has exactly one input at each tick from first on, and none before.
RecordedSince(p, first) ==
    \A t \in Nat :
        IF t \in first .. world.tick - 1
        THEN \E k : InputsAt(replay_recorder, p, t) = {k}
        ELSE InputsAt(replay_recorder, p, t) = {}

RecordedWithoutGap ==
    IdsUnique =>
        \A i \in DOMAIN entity_spawn_order :
            \E first \in 0 .. world.tick :
                /\ RecordedSince(entity_spawn_order[i], first)
                /\ baseline_recorded /\ i \in DOMAIN replay_recorder.initial_baseline.entities
                       => first = 0

\* IntentHeld, for one player.
Held(p) ==
    LET last == InputsAt(replay_recorder, p, world.tick - 1) IN
    IF last = {} THEN last_known_intent[p] = 0
    ELSE \A i \in last : last_known_intent[p] = replay_recorder.inputs[i].move_dir

RecordingInv ==
    /\ SafetyInv
    /\ IntentsMatchSpawned
    /\ RecordedSpawned
    /\ BaselineFirst
    /\ RecordedWithoutGap
    /\ IntentHeld

-----------------------------------------------------------------------------

\* Nothing is recorded in a new server.
LEMMA InitRecording == ServerInit => RecordingInv
<1> SUFFICES ASSUME ServerInit PROVE RecordingInv
  OBVIOUS
<1>1. SafetyInv
  BY InitSafe
<1>2. /\ entity_spawn_order = << >> /\ replay_recorder.inputs = << >>
      /\ world.tick = 0 /\ ~baseline_recorded /\ DOMAIN last_known_intent = {}
  BY DEF ServerInit, recorder_new, world_new, EmptyMap
<1>3. IntentsMatchSpawned /\ RecordedSpawned /\ BaselineFirst /\ RecordedWithoutGap
  BY <1>2 DEF IntentsMatchSpawned, SpawnedPlayers, RecordedSpawned, BaselineFirst,
              RecordedWithoutGap
<1>4. IntentHeld
  BY DEF ServerInit, EmptyMap, IntentHeld
<1> QED
  BY <1>1, <1>3, <1>4 DEF RecordingInv

\* What is recorded for a player at a tick only depends on the recorded inputs.
LEMMA SameInputs ==
    ASSUME UNCHANGED replay_recorder.inputs, NEW p, NEW t
    PROVE  InputsAt(replay_recorder, p, t)' = InputsAt(replay_recorder, p, t)
BY DEF InputsAt

\* The state the recording depends on.
recording_vars == <<world.tick, player_sessions, entity_spawn_order, last_known_intent,
                    replay_recorder.inputs, replay_recorder.initial_baseline,
                    baseline_recorded>>

\* An operation that leaves these fields alone keeps the invariant.
LEMMA UntouchedRecording ==
    ASSUME RecordingInv, SafetyInv', IntentsMatchSpawned', UNCHANGED recording_vars
    PROVE  RecordingInv'
<1> USE DEF recording_vars
<1>1. RecordedSpawned' /\ BaselineFirst'
  BY DEF RecordingInv, RecordedSpawned, SpawnedPlayers, BaselineFirst
<1>2. RecordedWithoutGap'
  <2>1. ASSUME NEW p, NEW first, RecordedSince(p, first)
        PROVE  RecordedSince(p, first)'
    <3>1. \A t : InputsAt(replay_recorder, p, t)' = InputsAt(replay_recorder, p, t)
      BY SameInputs
    <3> QED
      BY <2>1, <3>1 DEF RecordedSince
  <2> QED
    BY <2>1 DEF RecordingInv, RecordedWithoutGap, IdsUnique
<1>3. IntentHeld'
  BY DEF RecordingInv, IntentHeld, InputsAt, IdsUnique
<1> QED
  BY <1>1, <1>2, <1>3 DEF RecordingInv

\* A player with a session has been spawned.
LEMMA ConnectedSpawned ==
    ASSUME SafetyInv, IdsUnique, NEW p \in DOMAIN player_sessions
    PROVE  p \in SpawnedPlayers
<1>1. PICK sid \in DOMAIN sessions : sessions[sid].player_id = p
  BY DEF SafetyInv, BindingsInverse
<1> QED
  BY <1>1 DEF SafetyInv, BindingsSpawned, SpawnedPlayers

\* A player's intent is still the recorded one if neither has changed.
LEMMA HeldKept ==
    ASSUME NEW p, Held(p), UNCHANGED <<world, replay_recorder.inputs, last_known_intent[p]>>
    PROVE  Held(p)'
<1>1. InputsAt(replay_recorder', p, world'.tick - 1)
          = InputsAt(replay_recorder, p, world.tick - 1)
  BY SameInputs
<1> QED
  BY <1>1 DEF Held

\* disconnect_session zeroes the intent of a player that is then not connected.
LEMMA DisconnectRecording ==
    ASSUME RecordingInv, SafetyInv', IntentsMatchSpawned',
           NEW sid, disconnect_session(sid)
    PROVE  RecordingInv'
<1> DEFINE p == sessions[sid].player_id
<1>1. /\ last_known_intent' = MapInsert(last_known_intent, p, 0)
      /\ player_sessions' = MapRemove(player_sessions, {p})
      /\ UNCHANGED <<world, replay_recorder, entity_spawn_order, baseline_recorded>>
  BY DEF disconnect_session, spawn_vars
<1> HIDE DEF p
<1>2. RecordedSpawned' /\ BaselineFirst'
  BY <1>1 DEF RecordingInv, RecordedSpawned, SpawnedPlayers, BaselineFirst
<1>3. RecordedWithoutGap'
  <2>1. \A q, first : RecordedSince(q, first) => RecordedSince(q, first)'
    BY <1>1 DEF RecordedSince, InputsAt
  <2> QED
    BY <1>1, <2>1 DEF RecordingInv, RecordedWithoutGap, IdsUnique
<1>4. IntentHeld'
  <2>1. \A q \in DOMAIN player_sessions' : q \in DOMAIN player_sessions /\ q # p
    BY <1>1 DEF MapRemove, Restrict
  <2>2. ASSUME IdsUnique, NEW q \in DOMAIN player_sessions'
        PROVE  last_known_intent'[q] = last_known_intent[q]
    <3>1. q \in DOMAIN last_known_intent
      BY <2>1, <2>2, ConnectedSpawned DEF RecordingInv, IntentsMatchSpawned
    <3> QED
      BY <1>1, <2>1, <3>1 DEF MapInsert
  <2>3. ASSUME IdsUnique, NEW q \in DOMAIN player_sessions'
        PROVE  Held(q)'
    <3>1. Held(q)
      BY <2>1, <2>3 DEF RecordingInv, IntentHeld, Held
    <3> QED
      BY <1>1, <2>2, <2>3, <3>1, HeldKept
  <2>4. IdsUnique' => IdsUnique
    BY <1>1 DEF IdsUnique
  <2> QED
    BY <2>3, <2>4 DEF IntentHeld, Held
<1> QED
  BY <1>2, <1>3, <1>4 DEF RecordingInv

\* accept_session records the spawn, no input and no baseline.
LEMMA AcceptRecords ==
    ASSUME TypeOK, accept_session
    PROVE  /\ replay_recorder'.inputs = replay_recorder.inputs
           /\ replay_recorder'.initial_baseline = replay_recorder.initial_baseline
           /\ replay_recorder'.player_entity_mapping =
                  Append(replay_recorder.player_entity_mapping,
                         [player_id |-> AssignedPlayerId, entity_id |-> world.next_entity_id])
           /\ replay_recorder'.entity_spawn_order =
                  Append(replay_recorder.entity_spawn_order, AssignedPlayerId)
           /\ world'.tick = world.tick
<1>1. PICK a, b, c, d, g :
          replay_recorder = [entity_spawn_order |-> a, player_entity_mapping |-> b,
                             initial_baseline |-> c, inputs |-> d, build_fingerprint |-> g]
  BY DEF TypeOK, RecorderTypeOK
<1>2. PICK t, m, cs : world = [tick |-> t, next_entity_id |-> m, characters |-> cs]
  BY DEF TypeOK, WorldTypeOK
<1> DEFINE q == AssignedPlayerId
<1>3. /\ replay_recorder' = record_spawn(replay_recorder, q, world.next_entity_id)
      /\ world' = spawn_character(world, q)
  BY DEF accept_session
<1> HIDE DEF q
<1>4. replay_recorder' =
          [entity_spawn_order |-> Append(a, q),
           player_entity_mapping |-> Append(b, [player_id |-> q, entity_id |-> m]),
           initial_baseline |-> c, inputs |-> d, build_fingerprint |-> g]
  BY <1>1, <1>2, <1>3 DEF record_spawn
<1>5. world'.tick = t
  BY <1>2, <1>3 DEF spawn_character
<1> QED
  BY <1>1, <1>2, <1>4, <1>5 DEF q

\* A player that was never spawned has no recorded input.
LEMMA NothingForStrangers ==
    ASSUME RecordedSpawned, NEW p, p \notin SpawnedPlayers, NEW t
    PROVE  InputsAt(replay_recorder, p, t) = {}
BY DEF RecordedSpawned, InputsAt

\* A player is recorded from the tick it was accepted at; the baseline, if there is
\* one, was made without it.
LEMMA AcceptRecording ==
    ASSUME RecordingInv, SafetyInv', IntentsMatchSpawned', accept_session
    PROVE  RecordingInv'
<1>0. PICK q : q = AssignedPlayerId
  OBVIOUS
<1> DEFINE n == Len(entity_spawn_order)
<1>1. SafetyInv /\ TypeOK
  BY DEF RecordingInv, SafetyInv
<1>2. /\ replay_recorder'.inputs = replay_recorder.inputs
      /\ replay_recorder'.initial_baseline = replay_recorder.initial_baseline
      /\ world'.tick = world.tick
      /\ baseline_recorded' = baseline_recorded
  BY <1>1, AcceptRecords DEF accept_session
<1>3. /\ q \in PlayerIds
      /\ SpawnedPlayers' = SpawnedPlayers \cup {q}
      /\ IdsUnique' => IdsUnique /\ q \notin SpawnedPlayers
  BY <1>0, <1>1, AcceptSpawns
<1>4. /\ last_known_intent' = MapInsert(last_known_intent, q, 0)
      /\ player_sessions' = MapInsert(player_sessions, q, next_session_id)
      /\ entity_spawn_order' = Append(entity_spawn_order, q)
  BY <1>0 DEF accept_session
<1>5. /\ entity_spawn_order \in Seq(PlayerIds)
      /\ n \in Nat
      /\ DOMAIN entity_spawn_order = 1 .. n
      /\ world.tick \in Nat
  BY <1>1 DEF TypeOK, SpawnTypeOK, WorldTypeOK
<1>6. /\ DOMAIN entity_spawn_order' = 1 .. n + 1
      /\ entity_spawn_order'[n + 1] = q
      /\ \A i \in 1 .. n : entity_spawn_order'[i] = entity_spawn_order[i]
  BY <1>3, <1>4, <1>5
<1>7. \A p, t : InputsAt(replay_recorder, p, t)' = InputsAt(replay_recorder, p, t)
  BY <1>2, SameInputs
<1>8. RecordedSpawned' /\ BaselineFirst'
  <2>1. DOMAIN entity_spawn_order \subseteq DOMAIN entity_spawn_order'
    BY <1>5, <1>6
  <2> QED
    BY <1>2, <1>3, <2>1 DEF RecordingInv, RecordedSpawned, BaselineFirst
<1>9. RecordedWithoutGap'
  <2> SUFFICES ASSUME IdsUnique', NEW i \in DOMAIN entity_spawn_order'
               PROVE  \E first \in 0 .. world'.tick :
                   /\ RecordedSince(entity_spawn_order[i], first)'
                   /\ baseline_recorded'
                      /\ i \in DOMAIN replay_recorder'.initial_baseline.entities => first = 0
    BY DEF RecordedWithoutGap
  <2>1. CASE i \in 1 .. n
    <3>1. PICK first \in 0 .. world.tick :
              /\ RecordedSince(entity_spawn_order[i], first)
              /\ baseline_recorded /\ i \in DOMAIN replay_recorder.initial_baseline.entities
                     => first = 0
      BY <1>3, <1>5, <2>1 DEF RecordingInv, RecordedWithoutGap
    <3>2. RecordedSince(entity_spawn_order[i], first)'
      <4>1. PICK p : p = entity_spawn_order[i] /\ p = entity_spawn_order'[i]
        BY <1>6, <2>1
      <4>2. \A t : InputsAt(replay_recorder, p, t)' = InputsAt(replay_recorder, p, t)
        BY <1>7
      <4> QED
        BY <1>2, <3>1, <4>1, <4>2 DEF RecordedSince
    <3> QED
      BY <1>2, <3>1, <3>2
  <2>2. CASE i = n + 1
    <3>1. PICK first : first = world.tick
      OBVIOUS
    <3>2. RecordedSince(entity_spawn_order[i], first)'
      <4>1. \A t : InputsAt(replay_recorder, q, t) = {}
        BY <1>3, NothingForStrangers DEF RecordingInv
      <4>2. \A t \in Nat : t \notin first .. world.tick - 1
        BY <1>5, <3>1
      <4> QED
        BY <1>2, <1>6, <1>7, <2>2, <4>1, <4>2 DEF RecordedSince
    <3>3. ~(baseline_recorded /\ i \in DOMAIN replay_recorder.initial_baseline.entities)
      BY <1>5, <2>2 DEF RecordingInv, BaselineFirst
    <3> QED
      BY <1>2, <1>5, <3>1, <3>2, <3>3
  <2> QED
    BY <1>5, <1>6, <2>1, <2>2
<1>10. IntentHeld'
  <2> SUFFICES ASSUME IdsUnique', NEW p \in DOMAIN player_sessions' PROVE Held(p)'
    BY DEF IntentHeld, Held
  <2>1. CASE p = q
    <3>1. last_known_intent'[q] = 0
      BY <1>4 DEF MapInsert
    <3>2. InputsAt(replay_recorder', q, world'.tick - 1) = {}
      BY <1>2, <1>3, <1>7, NothingForStrangers DEF RecordingInv
    <3> QED
      BY <2>1, <3>1, <3>2 DEF Held
  <2>2. CASE p # q
    <3>1. p \in DOMAIN player_sessions
      BY <1>4, <2>2 DEF MapInsert
    <3>2. Held(p)
      BY <1>3, <3>1 DEF RecordingInv, IntentHeld, Held
    <3>3. p \in DOMAIN last_known_intent
      BY <1>1, <1>3, <3>1, ConnectedSpawned DEF RecordingInv, IntentsMatchSpawned
    <3>4. last_known_intent'[p] = last_known_intent[p]
      BY <1>4, <2>2, <3>3 DEF MapInsert
    <3>5. InputsAt(replay_recorder', p, world'.tick - 1)
              = InputsAt(replay_recorder, p, world.tick - 1)
      BY <1>2, <1>7
    <3> QED
      BY <1>2, <3>2, <3>4, <3>5 DEF Held
  <2> QED
    BY <2>1, <2>2
<1> QED
  BY <1>8, <1>9, <1>10 DEF RecordingInv

\* What step adds to the recording: for each place of the spawn order one input of
\* this tick, and no input of another tick.
LEMMA StepInputs ==
    ASSUME TypeOK, NothingRecordedAhead, step, NEW d, d = replay_recorder.inputs
    PROVE  /\ DOMAIN replay_recorder'.inputs =
                  DOMAIN d \cup {Len(d) + i : i \in DOMAIN entity_spawn_order}
           /\ \A k \in DOMAIN d :
                  replay_recorder'.inputs[k] = d[k] /\ d[k].tick < world.tick
           /\ \A i \in DOMAIN entity_spawn_order :
                  /\ Len(d) + i \notin DOMAIN d
                  /\ replay_recorder'.inputs[Len(d) + i] = AppliedInputs[i]
                  /\ replay_recorder'.inputs[Len(d) + i].tick = world.tick
                  /\ replay_recorder'.inputs[Len(d) + i].player_id = entity_spawn_order[i]
                  /\ replay_recorder'.inputs[Len(d) + i].move_dir =
                         AppliedIntent(entity_spawn_order[i])
<1> DEFINE a == AppliedInputs
<1>1. replay_recorder'.inputs = d \o a
  BY StepRecords
<1>2. d \in Seq(AppliedRecords) /\ a \in Seq(AppliedRecords)
  BY AppliedInputsType DEF TypeOK, RecorderTypeOK
<1>3. /\ DOMAIN a = DOMAIN entity_spawn_order
      /\ \A i \in DOMAIN a :
             /\ a[i].tick = world.tick
             /\ a[i].player_id = entity_spawn_order[i]
             /\ a[i].move_dir = AppliedIntent(entity_spawn_order[i])
  BY AppliedInputsType
<1>4. \A k \in DOMAIN d : d[k].tick < world.tick
  BY DEF NothingRecordedAhead
<1> HIDE DEF a
<1>5. /\ DOMAIN d = 1 .. Len(d) /\ Len(d) \in Nat
      /\ DOMAIN a = 1 .. Len(a) /\ Len(a) \in Nat
      /\ DOMAIN (d \o a) = 1 .. Len(d) + Len(a)
      /\ \A k \in DOMAIN d : (d \o a)[k] = d[k]
      /\ \A i \in DOMAIN a : (d \o a)[Len(d) + i] = a[i]
  BY <1>2
<1>6. DOMAIN (d \o a) = DOMAIN d \cup {Len(d) + i : i \in DOMAIN a}
  <2>1. ASSUME NEW k \in DOMAIN (d \o a), k \notin DOMAIN d
        PROVE  k \in {Len(d) + i : i \in DOMAIN a}
    <3>1. PICK m, n : m = Len(d) /\ n = Len(a)
      OBVIOUS
    <3>2. m \in Nat /\ n \in Nat /\ k \in 1 .. m + n /\ k \notin 1 .. m
      BY <1>5, <2>1, <3>1
    <3>3. k - m \in 1 .. n /\ k = m + (k - m)
      BY <3>2
    <3> QED
      BY <1>5, <3>1, <3>3
  <2> QED
    BY <1>5, <2>1
<1>7. \A i \in DOMAIN a : Len(d) + i \notin DOMAIN d
  BY <1>5
<1> QED
  BY <1>1, <1>3, <1>4, <1>5, <1>6, <1>7 DEF a

\* The recorded inputs of a player after step: those of earlier ticks are unchanged,
\* and at this tick there is one for each of the player's places in the spawn order.
LEMMA StepInputsAt ==
    ASSUME TypeOK, NothingRecordedAhead, step, NEW d, d = replay_recorder.inputs,
           NEW p, NEW t
    PROVE  /\ t # world.tick =>
                  InputsAt(replay_recorder', p, t) = InputsAt(replay_recorder, p, t)
           /\ InputsAt(replay_recorder, p, world.tick) = {}
           /\ InputsAt(replay_recorder', p, world.tick) =
                  {Len(d) + i : i \in {i \in DOMAIN entity_spawn_order :
                                           entity_spawn_order[i] = p}}
<1>1. world.tick \in Nat
  BY DEF TypeOK, WorldTypeOK
<1>2. \A k \in DOMAIN d : d[k].tick # world.tick
  <2>1. \A k \in DOMAIN d : d[k] \in AppliedRecords
    BY DEF TypeOK, RecorderTypeOK
  <2>2. \A k \in DOMAIN d : d[k].tick \in Nat
    BY <2>1 DEF AppliedRecords
  <2> QED
    BY <1>1, <2>2 DEF NothingRecordedAhead
<1>3. InputsAt(replay_recorder, p, world.tick) = {}
  BY <1>2 DEF InputsAt
<1>4. ASSUME t # world.tick
      PROVE  InputsAt(replay_recorder', p, t) = InputsAt(replay_recorder, p, t)
  BY <1>4, StepInputs DEF InputsAt
<1>5. InputsAt(replay_recorder', p, world.tick) =
          {Len(d) + i : i \in {i \in DOMAIN entity_spawn_order : entity_spawn_order[i] = p}}
  BY <1>2, StepInputs DEF InputsAt
<1> QED
  BY <1>3, <1>4, <1>5

\* step records one input for every player ever spawned, connected or not, and each
\* player's intent becomes the direction recorded for it.
LEMMA StepRecording ==
    ASSUME RecordingInv, SafetyInv', IntentsMatchSpawned', step
    PROVE  RecordingInv'
<1>1. PICK d, now : d = replay_recorder.inputs /\ now = world.tick
  OBVIOUS
<1>2. SafetyInv /\ TypeOK /\ NothingRecordedAhead
  BY DEF RecordingInv, SafetyInv
<1>3. /\ entity_spawn_order \in Seq(PlayerIds)
      /\ DOMAIN entity_spawn_order = 1 .. Len(entity_spawn_order)
      /\ now \in Nat
      /\ world'.tick = now + 1
      /\ UNCHANGED <<entity_spawn_order, player_sessions>>
      /\ baseline_recorded' = TRUE
  BY <1>1, <1>2, StepEffect
     DEF TypeOK, SpawnTypeOK, WorldTypeOK, step, identity_vars, spawn_vars
<1>4. RecordedSpawned'
  <2>1. SpawnedPlayers' = SpawnedPlayers
    BY <1>3 DEF SpawnedPlayers
  <2>2. \A i \in DOMAIN entity_spawn_order : entity_spawn_order[i] \in SpawnedPlayers
    BY DEF SpawnedPlayers
  <2> QED
    BY <1>1, <1>2, <2>1, <2>2, StepInputs DEF RecordingInv, RecordedSpawned
<1>5. /\ BaselineFirst'
      /\ baseline_recorded =>
             replay_recorder'.initial_baseline = replay_recorder.initial_baseline
  <2>1. CASE baseline_recorded
    BY <1>2, <1>3, <2>1, StepRecords DEF RecordingInv, BaselineFirst
  <2>2. CASE ~baseline_recorded
    <3>1. replay_recorder'.initial_baseline = baseline(world)
      BY <1>2, <2>2, StepRecords
    <3>2. world.tick = 0
      BY <2>2 DEF RecordingInv, BaselineFirst
    <3>3. DOMAIN world.characters = DOMAIN entity_spawn_order
      BY <1>2, <1>3 DEF SafetyInv, CharactersFollowSpawnOrder, TypeOK, WorldTypeOK
    <3> QED
      BY <1>3, <2>2, <3>1, <3>2, <3>3
         DEF BaselineFirst, baseline, sorted_entity_snapshots
  <2> QED
    BY <2>1, <2>2
<1>6. ASSUME IdsUnique, NEW i \in DOMAIN entity_spawn_order
      PROVE  InputsAt(replay_recorder', entity_spawn_order[i], now) = {Len(d) + i}
  <2>1. {j \in DOMAIN entity_spawn_order : entity_spawn_order[j] = entity_spawn_order[i]} = {i}
    BY <1>6 DEF IdsUnique, IsInjective
  <2> QED
    BY <1>1, <1>2, <2>1, StepInputsAt
<1>7. IdsUnique' => IdsUnique
  BY <1>3 DEF IdsUnique
<1>8. RecordedWithoutGap'
  <2> SUFFICES ASSUME IdsUnique', NEW i \in DOMAIN entity_spawn_order
               PROVE  \E first \in 0 .. now + 1 :
                   /\ RecordedSince(entity_spawn_order[i], first)'
                   /\ i \in DOMAIN replay_recorder'.initial_baseline.entities => first = 0
    BY <1>3 DEF RecordedWithoutGap
  <2>1. PICK p : p = entity_spawn_order[i]
    OBVIOUS
  <2>2. PICK first \in 0 .. now :
            /\ RecordedSince(p, first)
            /\ baseline_recorded /\ i \in DOMAIN replay_recorder.initial_baseline.entities
                   => first = 0
    BY <1>1, <1>7, <2>1 DEF RecordingInv, RecordedWithoutGap
  <2>3. ASSUME NEW t \in Nat
        PROVE  IF t \in first .. now
               THEN \E k : InputsAt(replay_recorder', p, t) = {k}
               ELSE InputsAt(replay_recorder', p, t) = {}
    <3>1. CASE t = now
      <4>1. InputsAt(replay_recorder', p, t) = {Len(d) + i}
        BY <1>6, <1>7, <2>1, <3>1
      <4> QED
        BY <1>3, <2>2, <3>1, <4>1
    <3>2. CASE t # now
      <4>1. InputsAt(replay_recorder', p, t) = InputsAt(replay_recorder, p, t)
        BY <1>1, <1>2, <3>2, StepInputsAt
      <4>2. t \in first .. now <=> t \in first .. now - 1
        BY <1>3, <3>2
      <4> QED
        BY <1>1, <2>2, <4>1, <4>2 DEF RecordedSince
    <3> QED
      BY <3>1, <3>2
  <2>4. RecordedSince(p, first)'
    <3>1. world'.tick - 1 = now
      BY <1>3
    <3> QED
      BY <2>3, <3>1 DEF RecordedSince
  <2>5. RecordedSince(entity_spawn_order[i], first)'
    BY <1>3, <2>1, <2>4
  <2>6. i \in DOMAIN replay_recorder'.initial_baseline.entities => first = 0
    <3>1. CASE baseline_recorded
      BY <1>5, <2>2, <3>1
    <3>2. CASE ~baseline_recorded
      BY <1>1, <1>3, <2>2, <3>2 DEF RecordingInv, BaselineFirst
    <3> QED
      BY <3>1, <3>2
  <2> QED
    BY <1>3, <2>2, <2>5, <2>6
<1>9. IntentHeld'
  <2> SUFFICES ASSUME IdsUnique', NEW p \in DOMAIN player_sessions PROVE Held(p)'
    BY <1>3 DEF IntentHeld, Held
  <2>1. p \in SpawnedPlayers
    BY <1>2, <1>7, ConnectedSpawned
  <2>2. PICK i \in DOMAIN entity_spawn_order : entity_spawn_order[i] = p
    BY <2>1 DEF SpawnedPlayers
  <2>3. InputsAt(replay_recorder', p, world'.tick - 1) = {Len(d) + i}
    <3>1. world'.tick - 1 = now
      BY <1>3
    <3> QED
      BY <1>6, <1>7, <2>2, <3>1
  <2>4. replay_recorder'.inputs[Len(d) + i].move_dir = AppliedIntent(p)
    BY <1>1, <1>2, <2>2, StepInputs
  <2>5. last_known_intent'[p] = AppliedIntent(p)
    BY <1>2, <2>1, StepResult DEF UpdatedIntents, IntentsAfter
  <2> QED
    BY <2>3, <2>4, <2>5 DEF Held
<1> QED
  BY <1>4, <1>5, <1>8, <1>9 DEF RecordingInv

\* Every operation keeps the invariant.
LEMMA NextRecording == RecordingInv /\ [ServerNext]_server_vars => RecordingInv'
<1> SUFFICES ASSUME RecordingInv, [ServerNext]_server_vars PROVE RecordingInv'
  OBVIOUS
<1>1. SafetyInv' /\ IntentsMatchSpawned' /\ TypeOK
  BY NextSafe, IntentsKept DEF RecordingInv, SafetyInv
<1>2. CASE accept_session
  BY <1>1, <1>2, AcceptRecording
<1>3. CASE \E sid \in SessionIds : disconnect_session(sid)
  BY <1>1, <1>3, DisconnectRecording
<1>4. CASE step
  BY <1>1, <1>4, StepRecording
<1>5. CASE \E f \in Fingerprints : set_build_fingerprint(f)
  <2>1. PICK f \in Fingerprints : set_build_fingerprint(f)
    BY <1>5
  <2>2. PICK a, b, c, d, g :
          replay_recorder = [entity_spawn_order |-> a, player_entity_mapping |-> b,
                             initial_baseline |-> c, inputs |-> d, build_fingerprint |-> g]
    BY <1>1 DEF TypeOK, RecorderTypeOK
  <2>3. replay_recorder'.inputs = d /\ replay_recorder'.initial_baseline = c
    BY <2>1, <2>2 DEF set_build_fingerprint, record_fingerprint
  <2>4. UNCHANGED recording_vars
    BY <2>1, <2>2, <2>3 DEF set_build_fingerprint, recording_vars, identity_vars, spawn_vars
  <2> QED
    BY <1>1, <2>4, UntouchedRecording
<1>6. CASE \/ accept_session_fails
           \/ \E sid \in SessionIds : welcome_for(sid)
           \/ \E sid \in SessionIds, input \in InputCmd : receive_input(sid, input)
           \/ finalize
           \/ Stopped
           \/ UNCHANGED server_vars
  <2>1. UNCHANGED recording_vars
    BY <1>6 DEF accept_session_fails, Panic, welcome_for, receive_input, finalize, Stopped,
                server_vars, recording_vars, identity_vars, spawn_vars
  <2> QED
    BY <1>1, <2>1, UntouchedRecording
<1> QED
  BY <1>2, <1>3, <1>4, <1>5, <1>6 DEF ServerNext

\* The inductive invariant of the recording holds in every reachable state.
THEOREM Recording == ServerSpec => []RecordingInv
<1>1. ServerInit => RecordingInv
  BY InitRecording
<1>2. RecordingInv /\ [ServerNext]_server_vars => RecordingInv'
  BY NextRecording
<1> QED
  BY <1>1, <1>2, PTL DEF ServerSpec

\* A connected player falls back to the direction recorded for it one tick ago
\* (step, disconnect_session), however inputs, joins and leaves are interleaved.
THEOREM FallbackIsRecorded == ServerSpec => []IntentHeld
<1>1. RecordingInv => IntentHeld
  BY DEF RecordingInv
<1> QED
  BY <1>1, Recording, PTL

\* Exactly one input per player and tick, without a gap from the tick a player is
\* first simulated at, and from tick 0 for everyone in the baseline (INV-0006, step).
THEOREM OneInputPerTick == ServerSpec => []OneAppliedInputPerTick
<1>1. RecordingInv => OneAppliedInputPerTick
  <2> SUFFICES ASSUME RecordingInv, IdsUnique,
                      NEW i \in DOMAIN entity_spawn_order, NEW t \in 0 .. world.tick
               PROVE  LET n(at) == Cardinality(
                                      InputsAt(replay_recorder, entity_spawn_order[i], at))
                      IN  /\ n(t) \in {0, 1}
                          /\ n(world.tick) = 0
                          /\ n(t) = 1 /\ t + 1 < world.tick => n(t + 1) = 1
                          /\ baseline_recorded /\ t < world.tick
                             /\ i \in DOMAIN replay_recorder.initial_baseline.entities
                                    => n(t) = 1
    BY DEF OneAppliedInputPerTick
  <2> DEFINE At(at) == InputsAt(replay_recorder, entity_spawn_order[i], at)
  <2>1. world.tick \in Nat /\ t \in Nat /\ t + 1 \in Nat
    BY DEF RecordingInv, SafetyInv, TypeOK, WorldTypeOK
  <2>2. PICK first \in 0 .. world.tick :
            /\ RecordedSince(entity_spawn_order[i], first)
            /\ baseline_recorded /\ i \in DOMAIN replay_recorder.initial_baseline.entities
                   => first = 0
    BY DEF RecordingInv, RecordedWithoutGap
  <2>3. \A at \in Nat : IF at \in first .. world.tick - 1 THEN \E k : At(at) = {k}
                        ELSE At(at) = {}
    BY <2>2 DEF RecordedSince
  <2> HIDE DEF At
  <2>4. \A at \in Nat :
            Cardinality(At(at)) = IF at \in first .. world.tick - 1 THEN 1 ELSE 0
    BY <2>3, FS_EmptySet, FS_Singleton
  <2>5. world.tick \notin first .. world.tick - 1
    BY <2>1
  <2>6. t \in first .. world.tick - 1 /\ t + 1 < world.tick => t + 1 \in first .. world.tick - 1
    BY <2>1, <2>2
  <2>7. first = 0 /\ t < world.tick => t \in first .. world.tick - 1
    BY <2>1
  <2> QED
    BY <2>1, <2>2, <2>4, <2>5, <2>6, <2>7 DEF At
<1> QED
  BY <1>1, Recording, PTL

-----------------------------------------------------------------------------
(***************************************************************************)
(* The artifact of a finished match.                                       *)
(***************************************************************************)

\* The recording knows the spawn order and maps the n-th spawned player to entity n.
MappingFollowsSpawnOrder ==
    /\ replay_recorder.entity_spawn_order = entity_spawn_order
    /\ DOMAIN replay_recorder.player_entity_mapping = DOMAIN entity_spawn_order
    /\ \A i \in DOMAIN entity_spawn_order :
           /\ replay_recorder.player_entity_mapping[i].player_id = entity_spawn_order[i]
           /\ replay_recorder.player_entity_mapping[i].entity_id = i

\* An artifact is what finalize made of the state, which nothing changes any more.
ArtifactIsFinal ==
    artifact # None =>
        /\ status # "running"
        /\ artifact = recorder_finalize(replay_recorder, state_digest(world), world.tick)

\* accept_session maps the new player, and nothing else touches the mapping.
LEMMA NextMapping ==
    ASSUME SafetyInv, MappingFollowsSpawnOrder, [ServerNext]_server_vars
    PROVE  MappingFollowsSpawnOrder'
<1>1. TypeOK
  BY DEF SafetyInv
<1>2. PICK a, b, c, d, g :
          replay_recorder = [entity_spawn_order |-> a, player_entity_mapping |-> b,
                             initial_baseline |-> c, inputs |-> d, build_fingerprint |-> g]
  BY <1>1 DEF TypeOK, RecorderTypeOK
<1>3. CASE accept_session
  <2>1. PICK q, m : /\ q = AssignedPlayerId
                    /\ m = [player_id |-> q, entity_id |-> world.next_entity_id]
    OBVIOUS
  <2>2. q \in PlayerIds /\ world.next_entity_id \in Nat \ {0}
    BY <1>1, <1>3, <2>1, AcceptSpawns DEF TypeOK, WorldTypeOK
  <2>3. m \in SpawnRecords
    BY <2>1, <2>2 DEF SpawnRecords
  <2>4. /\ replay_recorder'.player_entity_mapping = Append(b, m)
        /\ entity_spawn_order' = Append(entity_spawn_order, q)
    BY <1>1, <1>2, <1>3, <2>1, AcceptRecords DEF accept_session
  <2>5. b \in Seq(SpawnRecords) /\ entity_spawn_order \in Seq(PlayerIds)
    BY <1>1, <1>2 DEF TypeOK, RecorderTypeOK, SpawnTypeOK
  <2>6. /\ DOMAIN b = DOMAIN entity_spawn_order
        /\ \A i \in DOMAIN entity_spawn_order :
               b[i].player_id = entity_spawn_order[i] /\ b[i].entity_id = i
    BY <1>2 DEF MappingFollowsSpawnOrder
  <2>7. /\ Len(b) = Len(entity_spawn_order)
        /\ world.next_entity_id = Len(entity_spawn_order) + 1
    BY <2>2, <2>5, <2>6 DEF SafetyInv, CharactersFollowSpawnOrder
  <2>8. /\ DOMAIN Append(b, m) = DOMAIN Append(entity_spawn_order, q)
        /\ \A i \in DOMAIN Append(entity_spawn_order, q) :
               /\ Append(b, m)[i].player_id = Append(entity_spawn_order, q)[i]
               /\ Append(b, m)[i].entity_id = i
    BY <2>1, <2>2, <2>3, <2>5, <2>6, <2>7
  <2>9. replay_recorder'.entity_spawn_order = entity_spawn_order'
    BY <1>1, <1>3, <2>1, <2>4, AcceptRecords DEF MappingFollowsSpawnOrder
  <2> QED
    BY <2>4, <2>8, <2>9 DEF MappingFollowsSpawnOrder
<1>4. CASE ~accept_session
  <2>1. replay_recorder'.player_entity_mapping = b /\ replay_recorder'.entity_spawn_order = a
    <3>1. CASE step
      BY <1>1, <1>2, <3>1, StepRecords
    <3>2. CASE \E f \in Fingerprints : set_build_fingerprint(f)
      BY <1>2, <3>2 DEF set_build_fingerprint, record_fingerprint
    <3>3. CASE UNCHANGED replay_recorder
      BY <1>2, <3>3
    <3> QED
      BY <1>4, <3>1, <3>2, <3>3
         DEF ServerNext, accept_session_fails, Panic, welcome_for, disconnect_session,
             receive_input, finalize, Stopped, server_vars
  <2> QED
    BY <1>2, <1>4, <2>1, SpawnOrderUntouched DEF MappingFollowsSpawnOrder
<1> QED
  BY <1>3, <1>4

\* finalize makes the artifact, and a server that is not running does nothing.
LEMMA NextArtifact ==
    ASSUME ArtifactIsFinal, [ServerNext]_server_vars
    PROVE  ArtifactIsFinal'
<1>1. CASE finalize
  BY <1>1 DEF finalize, ArtifactIsFinal, state_digest, sorted_entity_snapshots
<1>2. CASE UNCHANGED server_vars
  BY <1>2 DEF server_vars, ArtifactIsFinal
<1>3. CASE status = "running" /\ UNCHANGED artifact
  BY <1>3 DEF ArtifactIsFinal
<1> QED
  BY <1>1, <1>2, <1>3
     DEF ServerNext, accept_session, accept_session_fails, Panic, welcome_for,
         disconnect_session, receive_input, step, set_build_fingerprint, Stopped

\* A finished match in which everyone was accepted before the first step and no id
\* was reused carries a complete input stream.
CompleteMatchHasStream ==
    artifact # None /\ EveryoneInBaseline /\ IdsUnique => validate_input_stream(artifact)

\* The recording of such a match passes verify_replay's input stream check, whatever
\* was sent, lost or disconnected while it was played (record_inputs, finalize,
\* validate_input_stream): the part of VerifiesIffComplete that needs no replay.
THEOREM CompleteStream == ServerSpec => []CompleteMatchHasStream
<1>1. ServerInit => MappingFollowsSpawnOrder /\ ArtifactIsFinal
  BY DEF ServerInit, recorder_new, MappingFollowsSpawnOrder, ArtifactIsFinal
<1>2. SafetyInv /\ MappingFollowsSpawnOrder /\ ArtifactIsFinal /\ [ServerNext]_server_vars
          => MappingFollowsSpawnOrder' /\ ArtifactIsFinal'
  BY NextMapping, NextArtifact
<1>3. RecordingInv /\ MappingFollowsSpawnOrder /\ ArtifactIsFinal => CompleteMatchHasStream
  <2> SUFFICES ASSUME RecordingInv, MappingFollowsSpawnOrder, ArtifactIsFinal,
                      artifact # None, EveryoneInBaseline, IdsUnique
               PROVE  validate_input_stream(artifact)
    BY DEF CompleteMatchHasStream
  <2>1. /\ artifact.player_entity_mapping = replay_recorder.player_entity_mapping
        /\ artifact.initial_baseline = replay_recorder.initial_baseline
        /\ artifact.inputs = replay_recorder.inputs
        /\ artifact.checkpoint_tick = world.tick
    BY DEF ArtifactIsFinal, recorder_finalize
  <2>2. ReplayedTicks(artifact) = 0 .. world.tick - 1 /\ world.tick \in Nat
    BY <2>1 DEF ReplayedTicks, RecordingInv, BaselineFirst, EveryoneInBaseline,
                SafetyInv, TypeOK, WorldTypeOK
  <2>3. MappedPlayers(artifact) = SpawnedPlayers
    BY <2>1 DEF MappedPlayers, MappingFollowsSpawnOrder, SpawnedPlayers
  <2>4. \A i \in DOMAIN entity_spawn_order :
            i \in DOMAIN replay_recorder.initial_baseline.entities
    BY DEF EveryoneInBaseline, RecordingInv, SafetyInv, CharactersFollowSpawnOrder,
           TypeOK, SpawnTypeOK, WorldTypeOK
  <2>5. ASSUME NEW p \in MappedPlayers(artifact), NEW t \in ReplayedTicks(artifact)
        PROVE  Cardinality(InputsAt(artifact, p, t)) = 1
    <3>1. PICK i \in DOMAIN entity_spawn_order : entity_spawn_order[i] = p
      BY <2>3 DEF SpawnedPlayers
    <3>2. RecordedSince(p, 0)
      BY <2>4, <3>1 DEF RecordingInv, RecordedWithoutGap, EveryoneInBaseline
    <3>3. t \in Nat /\ t \in 0 .. world.tick - 1
      BY <2>2
    <3>4. PICK k : InputsAt(replay_recorder, p, t) = {k}
      BY <3>2, <3>3 DEF RecordedSince
    <3>5. InputsAt(artifact, p, t) = {k}
      BY <2>1, <3>4 DEF InputsAt
    <3> QED
      BY <3>5, FS_Singleton
  <2>6. ASSUME NEW i \in DOMAIN artifact.inputs
        PROVE  /\ artifact.inputs[i].tick \in ReplayedTicks(artifact)
               /\ artifact.inputs[i].player_id \in MappedPlayers(artifact)
    <3>1. replay_recorder.inputs[i] \in AppliedRecords
      BY <2>1 DEF RecordingInv, SafetyInv, TypeOK, RecorderTypeOK
    <3>2. replay_recorder.inputs[i].tick \in Nat
      BY <3>1 DEF AppliedRecords
    <3>3. replay_recorder.inputs[i].tick < world.tick
      BY <2>1 DEF RecordingInv, SafetyInv, NothingRecordedAhead
    <3>4. replay_recorder.inputs[i].player_id \in SpawnedPlayers
      BY <2>1 DEF RecordingInv, RecordedSpawned
    <3> QED
      BY <2>1, <2>2, <2>3, <3>2, <3>3, <3>4
  <2> QED
    BY <2>5, <2>6 DEF validate_input_stream
<1> QED
  BY <1>1, <1>2, <1>3, Safety, Recording, PTL DEF ServerSpec
=============================================================================
