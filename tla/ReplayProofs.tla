---------------------------- MODULE ReplayProofs ----------------------------
(***************************************************************************)
(* verify_replay accepts the artifact of a match exactly when the match    *)
(* was complete, and main stores that artifact whole, or not at all.       *)
(***************************************************************************)
EXTENDS ReplayFile, ServerEdgeRecordingProofs

-----------------------------------------------------------------------------
(***************************************************************************)
(* The world at tick 0.                                                    *)
(***************************************************************************)

\* The world the first n places of a spawn order make: the e-th player's character is
\* entity e, at rest.
SpawnedWorld(order, n) ==
    [tick           |-> 0,
     next_entity_id |-> n + 1,
     characters     |-> [e \in 1 .. n |-> Character(order[e])]]

\* spawn_character adds the character of the next place.
LEMMA SpawnNext ==
    ASSUME NEW order, NEW n \in Nat
    PROVE  spawn_character(SpawnedWorld(order, n), order[n + 1]) = SpawnedWorld(order, n + 1)
<1>1. PICK p, m, cs, ds : /\ p = order[n + 1] /\ m = n + 1
                          /\ cs = [e \in 1 .. n |-> Character(order[e])]
                          /\ ds = [e \in 1 .. n + 1 |-> Character(order[e])]
  OBVIOUS
<1>2. MapInsert(cs, m, Character(p)) = ds
  <2>1. DOMAIN cs \cup {m} = 1 .. n + 1
    BY <1>1
  <2>2. \A e \in 1 .. n + 1 : ds[e] = IF e = m THEN Character(p) ELSE cs[e]
    BY <1>1
  <2> QED
    BY <1>1, <2>1, <2>2 DEF MapInsert
<1>3. spawn_character([tick |-> 0, next_entity_id |-> m, characters |-> cs], p)
          = [tick |-> 0, next_entity_id |-> m + 1,
             characters |-> MapInsert(cs, m, Character(p))]
  <2>1. PICK c, ds1 : c = Character(p) /\ ds1 = MapInsert(cs, m, c)
    OBVIOUS
  <2>2. PICK w : w = [tick |-> 0, next_entity_id |-> m, characters |-> cs]
    OBVIOUS
  <2>3. spawn_character(w, p) = [w EXCEPT !.next_entity_id = m + 1, !.characters = ds1]
    BY <2>1, <2>2 DEF spawn_character
  <2> QED
    BY <2>1, <2>2, <2>3
<1>4. SpawnedWorld(order, n) = [tick |-> 0, next_entity_id |-> m, characters |-> cs]
  BY <1>1 DEF SpawnedWorld
<1>5. SpawnedWorld(order, n + 1) = [tick |-> 0, next_entity_id |-> m + 1, characters |-> ds]
  BY <1>1 DEF SpawnedWorld
<1> QED
  BY <1>1, <1>2, <1>3, <1>4, <1>5

\* verify_replay rebuilds the world of the whole spawn order.
LEMMA ReconstructedIsSpawned ==
    ASSUME NEW a, NEW order, a.entity_spawn_order = order, Len(order) \in Nat
    PROVE  ReconstructedWorld(a) = SpawnedWorld(order, Len(order))
<1> DEFINE Next(f, n) == IF n = 0 THEN world_new ELSE spawn_character(f[n - 1], order[n])
           spawned == CHOOSE f : f = [n \in 0 .. Len(order) |-> Next(f, n)]
           worlds == [n \in 0 .. Len(order) |-> SpawnedWorld(order, n)]
<1>1. ReconstructedWorld(a) = spawned[Len(order)]
  BY DEF ReconstructedWorld
<1>2. SpawnedWorld(order, 0) = world_new
  <2>1. [e \in 1 .. 0 |-> Character(order[e])] = EmptyMap
    BY DEF EmptyMap
  <2> QED
    BY <2>1 DEF SpawnedWorld, world_new
<1>3. worlds = [n \in 0 .. Len(order) |-> Next(worlds, n)]
  <2>1. ASSUME NEW n \in 0 .. Len(order) PROVE SpawnedWorld(order, n) = Next(worlds, n)
    <3>1. CASE n = 0
      BY <1>2, <3>1
    <3>2. CASE n # 0
      <4>1. n - 1 \in Nat /\ n - 1 \in 0 .. Len(order) /\ n - 1 + 1 = n
        BY <3>2
      <4>2. spawn_character(SpawnedWorld(order, n - 1), order[n]) = SpawnedWorld(order, n)
        BY <4>1, SpawnNext
      <4> QED
        BY <3>2, <4>1, <4>2
    <3> QED
      BY <3>1, <3>2
  <2> HIDE DEF Next
  <2> QED
    BY <2>1
<1>4. spawned = [n \in 0 .. Len(order) |-> Next(spawned, n)]
  <2> HIDE DEF Next, worlds
  <2> QED
    BY <1>3
<1> HIDE DEF spawned
<1>5. Nat \subseteq {n \in Nat : n <= Len(order) => spawned[n] = SpawnedWorld(order, n)}
  <2> DEFINE S == {n \in Nat : n <= Len(order) => spawned[n] = SpawnedWorld(order, n)}
  <2>1. 0 \in S
    <3>1. spawned[0] = world_new
      BY <1>4
    <3> QED
      BY <1>2, <3>1
  <2>2. ASSUME NEW n \in Nat, n \in S PROVE n + 1 \in S
    <3>1. SUFFICES ASSUME n + 1 <= Len(order) PROVE spawned[n + 1] = SpawnedWorld(order, n + 1)
      OBVIOUS
    <3>2. spawned[n] = SpawnedWorld(order, n)
      BY <2>2, <3>1
    <3>3. n + 1 \in 0 .. Len(order) /\ n + 1 # 0 /\ n + 1 - 1 = n
      BY <3>1
    <3>4. spawned[n + 1] = spawn_character(spawned[n], order[n + 1])
      BY <1>4, <3>3
    <3> QED
      BY <3>2, <3>4, SpawnNext
  <2> HIDE DEF S
  <2>3. Nat \subseteq S
    BY <2>1, <2>2, SetInduction
  <2> QED
    BY <2>3 DEF S
<1> QED
  BY <1>1, <1>5

-----------------------------------------------------------------------------
(***************************************************************************)
(* A replay that follows the match.                                        *)
(***************************************************************************)

\* The positions at which a step's inputs hold one for player p.
InputsOf(p, step_inputs) == {i \in DOMAIN step_inputs : step_inputs[i].player_id = p}

\* advance looks at nothing but the direction of each player's inputs, and their
\* number: here one each.
LEMMA SameMoves ==
    ASSUME NEW w, NEW xs, NEW ys,
           \A e \in DOMAIN w.characters : \E i, j :
               /\ InputsOf(w.characters[e].player_id, xs) = {i}
               /\ InputsOf(w.characters[e].player_id, ys) = {j}
               /\ xs[i].move_dir = ys[j].move_dir
    PROVE  advance(w, xs) = advance(w, ys)
<1>1. ASSUME NEW e \in DOMAIN w.characters
      PROVE  apply_movement(w, xs, e) = apply_movement(w, ys, e)
  <2>1. PICK p : p = w.characters[e].player_id
    OBVIOUS
  <2>2. PICK i, j : /\ InputsOf(p, xs) = {i} /\ InputsOf(p, ys) = {j}
                    /\ xs[i].move_dir = ys[j].move_dir
    BY <2>1
  <2>3. (CHOOSE k \in {i} : TRUE) = i /\ (CHOOSE k \in {j} : TRUE) = j
    OBVIOUS
  <2>4. Cardinality({i}) = 1 /\ Cardinality({j}) = 1
    BY FS_Singleton
  <2>5. /\ {k \in DOMAIN xs : xs[k].player_id = w.characters[e].player_id} = {i}
        /\ {k \in DOMAIN ys : ys[k].player_id = w.characters[e].player_id} = {j}
    BY <2>1, <2>2 DEF InputsOf
  <2>6. PICK m, n : m = xs[i].move_dir /\ n = ys[j].move_dir /\ m = n
    BY <2>2
  <2>7. PICK c : c = w.characters[e]
    OBVIOUS
  <2>8. apply_movement(w, xs, e) = IF ~IsFirstOfPlayer(w, e) THEN c
            ELSE [c EXCEPT !.velocity = clamp_magnitude(m),
                           !.position = @ + 1 * clamp_magnitude(m)]
    BY <2>3, <2>4, <2>5, <2>6, <2>7 DEF apply_movement
  <2>9. apply_movement(w, ys, e) = IF ~IsFirstOfPlayer(w, e) THEN c
            ELSE [c EXCEPT !.velocity = clamp_magnitude(n),
                           !.position = @ + 1 * clamp_magnitude(n)]
    BY <2>3, <2>4, <2>5, <2>6, <2>7 DEF apply_movement
  <2> QED
    BY <2>6, <2>8, <2>9
<1>2. [e \in DOMAIN w.characters |-> apply_movement(w, xs, e)]
          = [e \in DOMAIN w.characters |-> apply_movement(w, ys, e)]
  BY <1>1
<1> QED
  BY <1>2 DEF advance

\* A replay: the world of the spawn order, then one advance per recorded tick.
Replays(worlds, recorder, tick) ==
    /\ worlds[0] = SpawnedWorld(recorder.entity_spawn_order, Len(recorder.entity_spawn_order))
    /\ \A t \in 1 .. tick :
           worlds[t] = advance(worlds[t - 1], inputs_by_tick(recorder, t - 1))

\* verify_replay arrives at the same world as any such replay.
LEMMA ReplayedIsReplay ==
    ASSUME NEW a, NEW worlds, NEW T \in Nat, Replays(worlds, a, T),
           a.initial_baseline.tick = 0, a.checkpoint_tick = T,
           Len(a.entity_spawn_order) \in Nat
    PROVE  ReplayedWorld(a) = worlds[T]
<1>0. PICK start : start = ReconstructedWorld(a)
  OBVIOUS
<1> DEFINE Next(f, t) == IF t = 0 THEN start
                         ELSE advance(f[t - 1], inputs_by_tick(a, t - 1))
           world_at == CHOOSE f : f = [t \in 0 .. T |-> Next(f, t)]
           same == [t \in 0 .. T |-> worlds[t]]
<1>1. ReplayedWorld(a) = world_at[T]
  BY <1>0 DEF ReplayedWorld
<1>2. worlds[0] = start
  BY <1>0, ReconstructedIsSpawned DEF Replays
<1>3. same = [t \in 0 .. T |-> Next(same, t)]
  <2>1. ASSUME NEW t \in 0 .. T PROVE worlds[t] = Next(same, t)
    <3>1. CASE t = 0
      BY <1>2, <3>1
    <3>2. CASE t # 0
      <4>1. t \in 1 .. T /\ t - 1 \in 0 .. T
        BY <3>2
      <4>2. worlds[t] = advance(worlds[t - 1], inputs_by_tick(a, t - 1))
        BY <4>1 DEF Replays
      <4> QED
        BY <3>2, <4>1, <4>2
    <3> QED
      BY <3>1, <3>2
  <2> HIDE DEF Next
  <2> QED
    BY <2>1
<1>4. world_at = [t \in 0 .. T |-> Next(world_at, t)]
  <2> HIDE DEF Next, same
  <2> QED
    BY <1>3
<1> HIDE DEF world_at
<1> DEFINE S == {t \in Nat : t <= T => world_at[t] = worlds[t]}
<1>5. Nat \subseteq S
  <2>1. 0 \in S
    BY <1>2, <1>4
  <2>2. ASSUME NEW t \in Nat, t \in S PROVE t + 1 \in S
    <3>1. SUFFICES ASSUME t + 1 <= T PROVE world_at[t + 1] = worlds[t + 1]
      OBVIOUS
    <3>2. world_at[t] = worlds[t]
      BY <2>2, <3>1
    <3>3. t + 1 \in 1 .. T /\ t + 1 \in 0 .. T /\ t + 1 # 0 /\ t + 1 - 1 = t
      BY <3>1
    <3>4. world_at[t + 1] = advance(world_at[t], inputs_by_tick(a, t))
      BY <1>4, <3>3
    <3>5. worlds[t + 1] = advance(worlds[t], inputs_by_tick(a, t))
      BY <3>3 DEF Replays
    <3> QED
      BY <3>2, <3>4, <3>5
  <2> HIDE DEF S
  <2> QED
    BY <2>1, <2>2, SetInduction
<1> QED
  BY <1>1, <1>5

-----------------------------------------------------------------------------
(***************************************************************************)
(* The recording always describes the match that is being played.          *)
(***************************************************************************)

\* The baseline is that of a world no step has touched, and until it is recorded the
\* world is such a world.
AtRest(n) == [e \in 1 .. n |-> [position |-> 0, velocity |-> 0]]

BaselineAtRest ==
    IF baseline_recorded
    THEN \E n \in Nat : replay_recorder.initial_baseline =
             [tick |-> 0, entities |-> AtRest(n), digest |-> <<0, AtRest(n)>>]
    ELSE /\ replay_recorder.initial_baseline = None
         /\ world = SpawnedWorld(entity_spawn_order, Len(entity_spawn_order))

\* While the match is complete, replaying the recording so far gives the world.
WorldIsReplayed ==
    EveryoneInBaseline /\ IdsUnique =>
        \E worlds : /\ Replays(worlds, replay_recorder, world.tick)
                    /\ worlds[world.tick] = world

ReplayInv ==
    /\ RecordingInv
    /\ MappingFollowsSpawnOrder
    /\ ArtifactIsFinal
    /\ BaselineAtRest
    /\ WorldIsReplayed

\* The empty world of a new server is the replay of its empty recording.
LEMMA InitReplay == ServerInit => ReplayInv
<1> SUFFICES ASSUME ServerInit PROVE ReplayInv
  OBVIOUS
<1>1. RecordingInv
  BY InitRecording
<1>2. MappingFollowsSpawnOrder /\ ArtifactIsFinal
  BY DEF ServerInit, recorder_new, MappingFollowsSpawnOrder, ArtifactIsFinal
<1>3. BaselineAtRest
  <2>1. [e \in 1 .. 0 |-> Character(entity_spawn_order[e])] = EmptyMap
    BY DEF EmptyMap
  <2>2. Len(entity_spawn_order) = 0
    BY DEF ServerInit
  <2> QED
    BY <2>1, <2>2 DEF ServerInit, BaselineAtRest, SpawnedWorld, recorder_new, world_new
<1>4. WorldIsReplayed
  BY DEF ServerInit, WorldIsReplayed, EveryoneInBaseline
<1> QED
  BY <1>1, <1>2, <1>3, <1>4 DEF ReplayInv

\* Before the first step, accept_session spawns what verify_replay will spawn.
LEMMA AcceptAtRest ==
    ASSUME SafetyInv, BaselineAtRest, accept_session
    PROVE  BaselineAtRest'
<1>1. TypeOK
  BY DEF SafetyInv
<1>2. /\ replay_recorder'.initial_baseline = replay_recorder.initial_baseline
      /\ baseline_recorded' = baseline_recorded
  BY <1>1, AcceptRecords DEF accept_session
<1>3. CASE baseline_recorded
  BY <1>2, <1>3 DEF BaselineAtRest
<1>4. CASE ~baseline_recorded
  <2>1. PICK q, n : q = AssignedPlayerId /\ n = Len(entity_spawn_order)
    OBVIOUS
  <2>2. q \in PlayerIds /\ entity_spawn_order \in Seq(PlayerIds)
    BY <1>1, <2>1, AcceptSpawns DEF TypeOK, SpawnTypeOK
  <2>3. /\ entity_spawn_order' = Append(entity_spawn_order, q)
        /\ world' = spawn_character(world, q)
    BY <2>1 DEF accept_session
  <2>4. /\ Len(entity_spawn_order') = n + 1 /\ n \in Nat
        /\ entity_spawn_order'[n + 1] = q
        /\ \A e \in 1 .. n : entity_spawn_order'[e] = entity_spawn_order[e]
    BY <2>1, <2>2, <2>3
  <2>5. SpawnedWorld(entity_spawn_order, n) = SpawnedWorld(entity_spawn_order', n)
    <3>1. [e \in 1 .. n |-> Character(entity_spawn_order[e])]
              = [e \in 1 .. n |-> Character(entity_spawn_order'[e])]
      BY <2>4
    <3> QED
      BY <3>1 DEF SpawnedWorld
  <2>6. world' = SpawnedWorld(entity_spawn_order', n + 1)
    <3>1. world = SpawnedWorld(entity_spawn_order', n)
      BY <1>4, <2>1, <2>5 DEF BaselineAtRest
    <3> QED
      BY <2>3, <2>4, <3>1, SpawnNext
  <2> QED
    BY <1>2, <1>4, <2>4, <2>6 DEF BaselineAtRest
<1> QED
  BY <1>3, <1>4

\* A session accepted after the first step is in no baseline.
LEMMA AcceptReplays ==
    ASSUME RecordingInv, RecordingInv', accept_session
    PROVE  ~EveryoneInBaseline'
<1>1. SafetyInv /\ TypeOK /\ SafetyInv' /\ TypeOK'
  BY DEF RecordingInv, SafetyInv
<1>2. /\ entity_spawn_order \in Seq(PlayerIds)
      /\ entity_spawn_order' = Append(entity_spawn_order, AssignedPlayerId)
      /\ replay_recorder'.initial_baseline = replay_recorder.initial_baseline
      /\ baseline_recorded' = baseline_recorded
  BY <1>1, AcceptRecords DEF TypeOK, SpawnTypeOK, accept_session
<1>3. PICK n \in Nat : n = Len(entity_spawn_order) /\ DOMAIN entity_spawn_order = 1 .. n
  BY <1>2
<1>4. DOMAIN world'.characters = 1 .. n + 1
  <2>1. Len(entity_spawn_order') = n + 1
    BY <1>2, <1>3
  <2> QED
    BY <1>1, <2>1 DEF SafetyInv, CharactersFollowSpawnOrder, TypeOK, WorldTypeOK
<1>5. baseline_recorded => n + 1 \notin DOMAIN replay_recorder.initial_baseline.entities
  BY <1>3 DEF RecordingInv, BaselineFirst
<1> QED
  BY <1>2, <1>3, <1>4, <1>5 DEF EveryoneInBaseline

\* The first step records the world as the baseline before it moves anyone.
LEMMA StepAtRest ==
    ASSUME SafetyInv, BaselineAtRest, step
    PROVE  BaselineAtRest'
<1>1. TypeOK
  BY DEF SafetyInv
<1>2. CASE baseline_recorded
  BY <1>1, <1>2, StepRecords DEF BaselineAtRest, step
<1>3. CASE ~baseline_recorded
  <2>1. PICK order, n : order = entity_spawn_order /\ n = Len(entity_spawn_order)
    OBVIOUS
  <2>2. n \in Nat
    BY <1>1, <2>1 DEF TypeOK, SpawnTypeOK
  <2>3. world = SpawnedWorld(order, n)
    BY <1>3, <2>1 DEF BaselineAtRest
  <2>4. world.tick = 0 /\ sorted_entity_snapshots(world) = AtRest(n)
    <3>1. [e \in 1 .. n |-> [position |-> 0, velocity |-> 0]] = sorted_entity_snapshots(world)
      BY <2>3 DEF SpawnedWorld, sorted_entity_snapshots, Character
    <3> QED
      BY <2>3, <3>1 DEF SpawnedWorld, AtRest
  <2>5. replay_recorder'.initial_baseline =
            [tick |-> 0, entities |-> AtRest(n), digest |-> <<0, AtRest(n)>>]
    BY <1>1, <1>3, <2>4, StepRecords DEF baseline, state_digest
  <2> QED
    BY <2>2, <2>5 DEF BaselineAtRest, step
<1> QED
  BY <1>2, <1>3

\* What is recorded in a step moves the world exactly as the applied inputs do.
LEMMA RecordedMoves ==
    ASSUME RecordingInv, IdsUnique, step
    PROVE  world' = advance(world, inputs_by_tick(replay_recorder', world.tick))
<1>1. PICK d, now, order :
          d = replay_recorder.inputs /\ now = world.tick /\ order = entity_spawn_order
  OBVIOUS
<1>2. SafetyInv /\ TypeOK /\ NothingRecordedAhead
  BY DEF RecordingInv, SafetyInv
<1>3. PICK xs, ys : xs = AppliedInputs /\ ys = inputs_by_tick(replay_recorder', now)
  OBVIOUS
<1>4. \A i \in DOMAIN order : {k \in DOMAIN order : order[k] = order[i]} = {i}
  BY <1>1 DEF IdsUnique, IsInjective
<1>5. /\ DOMAIN xs = DOMAIN order
      /\ \A i \in DOMAIN order : xs[i].player_id = order[i]
  BY <1>1, <1>2, <1>3, AppliedInputsType
<1>6. /\ DOMAIN ys = {Len(d) + i : i \in DOMAIN order}
      /\ \A i \in DOMAIN order : ys[Len(d) + i] = xs[i]
  <2>1. now \in Nat
    BY <1>1, <1>2 DEF TypeOK, WorldTypeOK
  <2>2. {k \in DOMAIN replay_recorder'.inputs : replay_recorder'.inputs[k].tick = now}
            = {Len(d) + i : i \in DOMAIN order}
    <3>1. \A k \in DOMAIN d : replay_recorder'.inputs[k].tick # now
      <4>1. \A k \in DOMAIN d : d[k].tick \in Nat
        <5>1. \A k \in DOMAIN d : d[k] \in AppliedRecords
          BY <1>1, <1>2 DEF TypeOK, RecorderTypeOK
        <5> QED
          BY <5>1 DEF AppliedRecords
      <4> QED
        BY <1>1, <1>2, <2>1, <4>1, StepInputs
    <3> QED
      BY <1>1, <1>2, <3>1, StepInputs
  <2>3. /\ DOMAIN ys = {Len(d) + i : i \in DOMAIN order}
        /\ \A k \in DOMAIN ys : ys[k] = replay_recorder'.inputs[k]
    BY <1>3, <2>2 DEF inputs_by_tick, Restrict
  <2> QED
    BY <1>1, <1>2, <1>3, <2>3, StepInputs
<1>7. \A e \in DOMAIN world.characters :
          e \in DOMAIN order /\ world.characters[e].player_id = order[e]
  BY <1>1, <1>2 DEF SafetyInv, CharactersFollowSpawnOrder, TypeOK, SpawnTypeOK, WorldTypeOK
<1>8. ASSUME NEW e \in DOMAIN world.characters
      PROVE  /\ InputsOf(world.characters[e].player_id, xs) = {e}
             /\ InputsOf(world.characters[e].player_id, ys) = {Len(d) + e}
             /\ xs[e].move_dir = ys[Len(d) + e].move_dir
  <2>1. InputsOf(order[e], xs) = {e}
    BY <1>4, <1>5, <1>7, <1>8 DEF InputsOf
  <2>2. InputsOf(order[e], ys) = {Len(d) + e}
    BY <1>4, <1>5, <1>6, <1>7, <1>8 DEF InputsOf
  <2> QED
    BY <1>6, <1>7, <1>8, <2>1, <2>2
<1>9. advance(world, xs) = advance(world, ys)
  <2>1. \A e \in DOMAIN world.characters : \E i, j :
            /\ InputsOf(world.characters[e].player_id, xs) = {i}
            /\ InputsOf(world.characters[e].player_id, ys) = {j}
            /\ xs[i].move_dir = ys[j].move_dir
    <3> TAKE e \in DOMAIN world.characters
    <3> WITNESS e, Len(d) + e
    <3> QED
      BY <1>8
  <2> QED
    BY <2>1, SameMoves
<1>10. world' = advance(world, xs)
  BY <1>2, <1>3, StepResult
<1> QED
  BY <1>1, <1>3, <1>9, <1>10

\* What was recorded before stays what it was.
LEMMA EarlierInputsKept ==
    ASSUME TypeOK, NothingRecordedAhead, step, NEW t \in Nat, t < world.tick
    PROVE  inputs_by_tick(replay_recorder', t) = inputs_by_tick(replay_recorder, t)
<1>1. PICK d : d = replay_recorder.inputs
  OBVIOUS
<1>2. world.tick \in Nat
  BY DEF TypeOK, WorldTypeOK
<1>3. {k \in DOMAIN replay_recorder'.inputs : replay_recorder'.inputs[k].tick = t}
          = {k \in DOMAIN d : d[k].tick = t}
  BY <1>1, <1>2, StepInputs
<1>4. \A k \in DOMAIN d : replay_recorder'.inputs[k] = d[k]
  BY <1>1, StepInputs
<1> QED
  BY <1>1, <1>3, <1>4 DEF inputs_by_tick, Restrict

\* step adds the world it makes to the replay of what was recorded before.
LEMMA StepReplays ==
    ASSUME ReplayInv, RecordingInv', step
    PROVE  WorldIsReplayed'
<1>1. RecordingInv /\ SafetyInv /\ TypeOK /\ NothingRecordedAhead /\ SafetyInv' /\ TypeOK'
  BY DEF ReplayInv, RecordingInv, SafetyInv
<1>2. PICK now, next, recorder, order :
          now = world.tick /\ next = world' /\ recorder = replay_recorder'
          /\ order = replay_recorder.entity_spawn_order
  OBVIOUS
<1>3. /\ now \in Nat /\ next.tick = now + 1
      /\ recorder.entity_spawn_order = order /\ order = entity_spawn_order
      /\ UNCHANGED entity_spawn_order
  BY <1>1, <1>2, StepEffect, StepRecords
     DEF TypeOK, WorldTypeOK, ReplayInv, MappingFollowsSpawnOrder, step, spawn_vars
<1> SUFFICES ASSUME EveryoneInBaseline', IdsUnique'
             PROVE  \E worlds : Replays(worlds, recorder, now + 1) /\ worlds[now + 1] = next
  BY <1>2, <1>3 DEF WorldIsReplayed
<1>4. IdsUnique
  BY <1>3 DEF IdsUnique
<1>5. \E old : Replays(old, replay_recorder, now) /\ old[now] = world
  <2>1. CASE baseline_recorded
    <3>1. replay_recorder'.initial_baseline = replay_recorder.initial_baseline
      BY <1>1, <2>1, StepRecords
    <3>2. DOMAIN world'.characters = DOMAIN world.characters
      BY <1>1, <1>3 DEF SafetyInv, CharactersFollowSpawnOrder, TypeOK, WorldTypeOK
    <3>3. EveryoneInBaseline
      BY <2>1, <3>1, <3>2 DEF EveryoneInBaseline
    <3> QED
      BY <1>2, <1>4, <3>3 DEF ReplayInv, WorldIsReplayed
  <2>2. CASE ~baseline_recorded
    <3>1. now = 0 /\ world = SpawnedWorld(order, Len(order))
      BY <1>2, <1>3, <2>2 DEF RecordingInv, ReplayInv, BaselineFirst, BaselineAtRest
    <3>2. PICK old : old = [t \in 0 .. 0 |-> world]
      OBVIOUS
    <3>3. old[0] = world
      BY <3>2
    <3> QED
      BY <1>2, <3>1, <3>3 DEF Replays
  <2> QED
    BY <2>1, <2>2
<1>6. PICK old : Replays(old, replay_recorder, now) /\ old[now] = world
  BY <1>5
<1>7. PICK worlds : worlds = [t \in Nat |-> IF t = now + 1 THEN next ELSE old[t]]
  OBVIOUS
<1>8. worlds[0] = SpawnedWorld(order, Len(order))
  BY <1>2, <1>3, <1>6, <1>7 DEF Replays
<1>9. ASSUME NEW t \in 1 .. now + 1
      PROVE  worlds[t] = advance(worlds[t - 1], inputs_by_tick(recorder, t - 1))
  <2>1. CASE t = now + 1
    <3>1. world' = advance(world, inputs_by_tick(replay_recorder', world.tick))
      BY <1>1, <1>4, RecordedMoves
    <3>2. worlds[t] = next /\ worlds[t - 1] = world /\ t - 1 = now
      BY <1>3, <1>6, <1>7, <2>1
    <3> QED
      BY <1>2, <3>1, <3>2
  <2>2. CASE t # now + 1
    <3>1. t \in 1 .. now /\ t - 1 \in Nat /\ t - 1 < world.tick /\ t - 1 # now + 1 /\ t \in Nat
      BY <1>2, <1>3, <1>9, <2>2
    <3>2. old[t] = advance(old[t - 1], inputs_by_tick(replay_recorder, t - 1))
      BY <1>6, <3>1 DEF Replays
    <3>3. inputs_by_tick(recorder, t - 1) = inputs_by_tick(replay_recorder, t - 1)
      BY <1>1, <1>2, <3>1, EarlierInputsKept
    <3>4. worlds[t] = old[t] /\ worlds[t - 1] = old[t - 1]
      BY <1>7, <2>2, <3>1
    <3> QED
      BY <3>2, <3>3, <3>4
  <2> QED
    BY <2>1, <2>2
<1>10. worlds[now + 1] = next
  BY <1>3, <1>7
<1> QED
  BY <1>3, <1>8, <1>9, <1>10 DEF Replays

\* The state the replay depends on.
replay_vars == <<world, entity_spawn_order, baseline_recorded,
                 replay_recorder.entity_spawn_order, replay_recorder.initial_baseline,
                 replay_recorder.inputs>>

\* An operation that leaves these alone keeps what concerns the replay.
LEMMA UntouchedReplay ==
    ASSUME BaselineAtRest, WorldIsReplayed, UNCHANGED replay_vars
    PROVE  BaselineAtRest' /\ WorldIsReplayed'
<1>1. BaselineAtRest'
  BY DEF replay_vars, BaselineAtRest
<1>2. WorldIsReplayed'
  <2> SUFFICES ASSUME EveryoneInBaseline', IdsUnique'
               PROVE  \E worlds : /\ Replays(worlds, replay_recorder', world'.tick)
                                  /\ worlds[world'.tick] = world'
    BY DEF WorldIsReplayed
  <2>1. EveryoneInBaseline /\ IdsUnique
    BY DEF replay_vars, EveryoneInBaseline, IdsUnique
  <2>2. PICK worlds : Replays(worlds, replay_recorder, world.tick) /\ worlds[world.tick] = world
    BY <2>1 DEF WorldIsReplayed
  <2>3. Replays(worlds, replay_recorder', world'.tick)
    BY <2>2 DEF replay_vars, Replays, inputs_by_tick
  <2> QED
    BY <2>2, <2>3 DEF replay_vars
<1> QED
  BY <1>1, <1>2

\* Every operation keeps the invariant.
LEMMA NextReplay == ReplayInv /\ [ServerNext]_server_vars => ReplayInv'
<1> SUFFICES ASSUME ReplayInv, [ServerNext]_server_vars PROVE ReplayInv'
  OBVIOUS
<1>1. RecordingInv /\ SafetyInv /\ TypeOK /\ BaselineAtRest /\ WorldIsReplayed
  BY DEF ReplayInv, RecordingInv, SafetyInv
<1>2. RecordingInv' /\ MappingFollowsSpawnOrder' /\ ArtifactIsFinal'
  BY <1>1, NextRecording, NextMapping, NextArtifact DEF ReplayInv
<1>3. CASE accept_session
  BY <1>1, <1>2, <1>3, AcceptAtRest, AcceptReplays DEF ReplayInv, WorldIsReplayed
<1>4. CASE step
  BY <1>1, <1>2, <1>4, StepAtRest, StepReplays DEF ReplayInv
<1>5. CASE \E f \in Fingerprints : set_build_fingerprint(f)
  <2>1. PICK f \in Fingerprints : set_build_fingerprint(f)
    BY <1>5
  <2>2. PICK a, b, c, d, g :
          replay_recorder = [entity_spawn_order |-> a, player_entity_mapping |-> b,
                             initial_baseline |-> c, inputs |-> d, build_fingerprint |-> g]
    BY <1>1 DEF TypeOK, RecorderTypeOK
  <2>3. replay_recorder' = [entity_spawn_order |-> a, player_entity_mapping |-> b,
                            initial_baseline |-> c, inputs |-> d, build_fingerprint |-> f]
    BY <2>1, <2>2 DEF set_build_fingerprint, record_fingerprint
  <2>4. UNCHANGED replay_vars
    BY <2>1, <2>2, <2>3 DEF set_build_fingerprint, replay_vars, spawn_vars
  <2> QED
    BY <1>1, <1>2, <2>4, UntouchedReplay DEF ReplayInv
<1>6. CASE \/ accept_session_fails
           \/ \E sid \in SessionIds : welcome_for(sid)
           \/ \E sid \in SessionIds : disconnect_session(sid)
           \/ \E sid \in SessionIds, input \in InputCmd : receive_input(sid, input)
           \/ finalize
           \/ Stopped
           \/ UNCHANGED server_vars
  <2>1. UNCHANGED replay_vars
    BY <1>6 DEF accept_session_fails, Panic, welcome_for, disconnect_session, receive_input,
                finalize, Stopped, server_vars, replay_vars, spawn_vars
  <2> QED
    BY <1>1, <1>2, <2>1, UntouchedReplay DEF ReplayInv
<1> QED
  BY <1>3, <1>4, <1>5, <1>6 DEF ServerNext

\* The inductive invariant of the replay holds in every reachable state.
THEOREM Replaying == ServerSpec => []ReplayInv
<1>1. ReplayInv /\ [ServerNext]_server_vars => ReplayInv'
  BY NextReplay
<1> QED
  BY <1>1, InitReplay, PTL DEF ServerSpec

-----------------------------------------------------------------------------
(***************************************************************************)
(* The verdict.                                                            *)
(***************************************************************************)

\* The snapshots of a world no step has touched.
LEMMA SpawnedAtRest ==
    ASSUME NEW order, NEW n \in Nat
    PROVE  state_digest(SpawnedWorld(order, n)) = <<0, AtRest(n)>>
<1>1. PICK cs : cs = [e \in 1 .. n |-> Character(order[e])]
  OBVIOUS
<1>2. SpawnedWorld(order, n) = [tick |-> 0, next_entity_id |-> n + 1, characters |-> cs]
  BY <1>1 DEF SpawnedWorld
<1>3. [e \in DOMAIN cs |-> [position |-> cs[e].position, velocity |-> cs[e].velocity]]
          = AtRest(n)
  BY <1>1 DEF AtRest, Character
<1> QED
  BY <1>2, <1>3 DEF state_digest, sorted_entity_snapshots

\* Snapshots of characters at rest are snapshots.
LEMMA AtRestType == ASSUME NEW n \in Nat PROVE AtRest(n) \in Snapshots
<1>1. PICK r : r = [position |-> 0, velocity |-> 0]
  OBVIOUS
<1>2. r \in [position : Int, velocity : Int]
  BY <1>1
<1>3. AtRest(n) = [e \in 1 .. n |-> r]
  BY <1>1 DEF AtRest
<1> QED
  BY <1>2, <1>3 DEF Snapshots

\* A baseline is not the absence of one.
LEMMA BaselinePresent ==
    ASSUME NEW n \in Nat
    PROVE  [tick |-> 0, entities |-> AtRest(n), digest |-> <<0, AtRest(n)>>] # None
<1>1. PICK s : s = AtRest(n)
  OBVIOUS
<1>2. s \in Snapshots
  BY <1>1, AtRestType
<1>3. <<0, s>> \in Nat \X Snapshots
  BY <1>2
<1>4. [tick |-> 0, entities |-> s, digest |-> <<0, s>>]
          \in [tick : Nat, entities : Snapshots, digest : Nat \X Snapshots]
  BY <1>2, <1>3
<1> QED
  BY <1>1, <1>4, NoneIsNoBaseline

\* The artifact of a finished match is what the recording and the world say.
LEMMA ArtifactFields ==
    ASSUME ReplayInv, artifact # None
    PROVE  /\ artifact.entity_spawn_order = entity_spawn_order
           /\ artifact.player_entity_mapping = replay_recorder.player_entity_mapping
           /\ artifact.initial_baseline = replay_recorder.initial_baseline
           /\ artifact.inputs = replay_recorder.inputs
           /\ artifact.final_digest = state_digest(world)
           /\ artifact.checkpoint_tick = world.tick
           /\ MappedPlayers(artifact) = SpawnedPlayers
           /\ ReconstructedWorld(artifact)
                  = SpawnedWorld(entity_spawn_order, Len(entity_spawn_order))
           /\ Len(entity_spawn_order) \in Nat
           /\ DOMAIN world.characters = 1 .. Len(entity_spawn_order)
<1>1. artifact = recorder_finalize(replay_recorder, state_digest(world), world.tick)
  BY DEF ReplayInv, ArtifactIsFinal
<1>2. /\ artifact.entity_spawn_order = entity_spawn_order
      /\ artifact.player_entity_mapping = replay_recorder.player_entity_mapping
      /\ artifact.initial_baseline = replay_recorder.initial_baseline
      /\ artifact.inputs = replay_recorder.inputs
      /\ artifact.final_digest = state_digest(world)
      /\ artifact.checkpoint_tick = world.tick
  BY <1>1 DEF recorder_finalize, ReplayInv, MappingFollowsSpawnOrder
<1>3. /\ Len(entity_spawn_order) \in Nat
      /\ DOMAIN world.characters = 1 .. Len(entity_spawn_order)
  BY DEF ReplayInv, RecordingInv, SafetyInv, TypeOK, SpawnTypeOK, WorldTypeOK,
         CharactersFollowSpawnOrder
<1>4. MappedPlayers(artifact) = SpawnedPlayers
  BY <1>2 DEF MappedPlayers, SpawnedPlayers, ReplayInv, MappingFollowsSpawnOrder
<1>5. ReconstructedWorld(artifact) = SpawnedWorld(entity_spawn_order, Len(entity_spawn_order))
  BY <1>2, <1>3, ReconstructedIsSpawned
<1> QED
  BY <1>2, <1>3, <1>4, <1>5

\* With the recorded mapping, the spawns match exactly when no id was given out twice.
LEMMA SpawnsMatch ==
    ASSUME ReplayInv, artifact # None
    PROVE  ~SpawnMismatch(artifact) <=> IdsUnique
<1>1. PICK m, order, n :
          m = artifact.player_entity_mapping /\ order = entity_spawn_order /\ n = Len(order)
  OBVIOUS
<1>2. /\ DOMAIN order = 1 .. n
      /\ DOMAIN m = 1 .. n
      /\ \A i \in 1 .. n : m[i].player_id = order[i] /\ m[i].entity_id = i
      /\ n \in Nat
  BY <1>1, ArtifactFields
     DEF ReplayInv, MappingFollowsSpawnOrder, RecordingInv, SafetyInv, TypeOK, SpawnTypeOK
<1>3. PICK characters : characters = ReconstructedWorld(artifact).characters
  OBVIOUS
<1>4. /\ DOMAIN characters = 1 .. n
      /\ \A e \in 1 .. n : /\ characters[e].player_id = order[e]
                           /\ order[e] \in MappedPlayers(artifact)
  <2>1. characters = [e \in 1 .. n |-> Character(order[e])]
    BY <1>1, <1>3, ArtifactFields DEF SpawnedWorld
  <2>2. \A e \in 1 .. n : order[e] \in MappedPlayers(artifact)
    BY <1>1, <1>2, ArtifactFields DEF SpawnedPlayers
  <2> QED
    BY <2>1, <2>2 DEF Character
<1>5. SpawnMismatch(artifact) <=> \E e \in 1 .. n : ExpectedEntity(artifact, order[e]) # e
  BY <1>3, <1>4 DEF SpawnMismatch
<1>6. ASSUME IdsUnique, NEW e \in 1 .. n PROVE ExpectedEntity(artifact, order[e]) = e
  <2>1. \A i \in 1 .. n : order[i] = order[e] => i = e
    BY <1>1, <1>2, <1>6 DEF IdsUnique, IsInjective
  <2> DEFINE Last(i) == m[i].player_id = order[e]
                        /\ \A j \in DOMAIN m : j > i => m[j].player_id # order[e]
  <2>2. Last(e)
    <3>1. \A j \in 1 .. n : j > e => order[j] # order[e]
      BY <1>2, <2>1
    <3> QED
      BY <1>2, <3>1
  <2>3. \A i \in DOMAIN m : Last(i) => i = e
    BY <1>2, <2>1
  <2> HIDE DEF Last
  <2>4. (CHOOSE i \in DOMAIN m : Last(i)) = e
    BY <1>2, <2>2, <2>3
  <2>5. ExpectedEntity(artifact, order[e]) = m[CHOOSE i \in DOMAIN m : Last(i)].entity_id
    BY <1>1 DEF ExpectedEntity, Last
  <2> QED
    BY <1>2, <2>4, <2>5
<1>7. ASSUME \A e \in 1 .. n : ExpectedEntity(artifact, order[e]) = e PROVE IdsUnique
  <2>1. ASSUME NEW e \in 1 .. n, NEW f \in 1 .. n, order[e] = order[f] PROVE e = f
    <3>1. ExpectedEntity(artifact, order[e]) = ExpectedEntity(artifact, order[f])
      BY <2>1
    <3> QED
      BY <1>7, <3>1
  <2> QED
    BY <1>1, <1>2, <2>1 DEF IdsUnique, IsInjective
<1> QED
  BY <1>5, <1>6, <1>7

\* A complete match replays to the tick and the state it ended in.
LEMMA CompleteReplaysToTheEnd ==
    ASSUME ReplayInv, artifact # None, EveryoneInBaseline, IdsUnique
    PROVE  ReplayedWorld(artifact) = world
<1>1. PICK a, rec : a = artifact /\ rec = replay_recorder
  OBVIOUS
<1>2. PICK T : T = world.tick
  OBVIOUS
<1>3. T \in Nat /\ a.checkpoint_tick = T /\ a.initial_baseline.tick = 0
  BY <1>1, <1>2, ArtifactFields
     DEF ReplayInv, RecordingInv, BaselineFirst, EveryoneInBaseline, SafetyInv, TypeOK,
         WorldTypeOK
<1>4. PICK worlds : Replays(worlds, rec, T) /\ worlds[T] = world
  BY <1>1, <1>2 DEF ReplayInv, WorldIsReplayed
<1>5. Replays(worlds, a, T)
  <2>1. a.entity_spawn_order = rec.entity_spawn_order /\ a.inputs = rec.inputs
    BY <1>1, ArtifactFields DEF ReplayInv, MappingFollowsSpawnOrder
  <2>2. \A t : inputs_by_tick(a, t) = inputs_by_tick(rec, t)
    BY <2>1 DEF inputs_by_tick
  <2> QED
    BY <1>4, <2>1, <2>2 DEF Replays
<1>6. Len(a.entity_spawn_order) \in Nat
  BY <1>1, ArtifactFields
<1>7. ReplayedWorld(a) = worlds[T]
  BY <1>3, <1>5, <1>6, ReplayedIsReplay
<1> QED
  BY <1>1, <1>4, <1>7

\* Without a baseline of every character there is no initialization anchor to match.
LEMMA AnchorMatches ==
    ASSUME ReplayInv, artifact # None
    PROVE  EveryoneInBaseline <=>
               /\ artifact.initial_baseline # None
               /\ state_digest(ReconstructedWorld(artifact)) = artifact.initial_baseline.digest
<1>1. PICK n : n = Len(entity_spawn_order)
  OBVIOUS
<1>2. /\ n \in Nat /\ DOMAIN world.characters = 1 .. n
      /\ artifact.initial_baseline = replay_recorder.initial_baseline
      /\ state_digest(ReconstructedWorld(artifact)) = <<0, AtRest(n)>>
  BY <1>1, ArtifactFields, SpawnedAtRest
<1>3. CASE ~baseline_recorded
  BY <1>2, <1>3 DEF ReplayInv, BaselineAtRest, EveryoneInBaseline
<1>4. CASE baseline_recorded
  <2>1. PICK m \in Nat : replay_recorder.initial_baseline =
            [tick |-> 0, entities |-> AtRest(m), digest |-> <<0, AtRest(m)>>]
    BY <1>4 DEF ReplayInv, BaselineAtRest
  <2>2. replay_recorder.initial_baseline # None
    BY <2>1, BaselinePresent
  <2>3. \A k \in Nat : DOMAIN AtRest(k) = 1 .. k
    BY DEF AtRest
  <2>4. AtRest(n) = AtRest(m) <=> 1 .. n = 1 .. m
    <3>1. 1 .. n = 1 .. m => n = m
      BY <1>2
    <3> QED
      BY <1>2, <2>3, <3>1
  <2>5. EveryoneInBaseline <=> 1 .. n = 1 .. m
    BY <1>2, <1>4, <2>1, <2>3 DEF EveryoneInBaseline
  <2>6. <<0, AtRest(n)>> = <<0, AtRest(m)>> <=> AtRest(n) = AtRest(m)
    OBVIOUS
  <2> QED
    BY <1>2, <2>1, <2>2, <2>4, <2>5, <2>6
<1> QED
  BY <1>3, <1>4

\* INV-0006 (finalize, verify_replay): a finished match verifies exactly when it took a
\* step, every session was accepted before the first one, no player id was given out
\* twice, and a strict verifier is not known to be another build.
THEOREM VerdictIsRight == ServerSpec => []VerifiesIffComplete
<1>1. ReplayInv /\ CompleteMatchHasStream => VerifiesIffComplete
  <2> SUFFICES ASSUME ReplayInv, CompleteMatchHasStream, artifact # None,
                      NEW options \in VerifyOptions
               PROVE  verify_replay(artifact, options) = "Ok" <=>
                          EveryoneInBaseline /\ IdsUnique /\ ~OtherBuild(options)
    BY DEF VerifiesIffComplete
  <2>1. options.strict_build_check \in BOOLEAN
    BY DEF VerifyOptions
  <2>2. OtherBuild(options) <=>
            /\ artifact.build_fingerprint # None
            /\ options.current_build # None
            /\ artifact.build_fingerprint # options.current_build
            /\ options.strict_build_check
    BY DEF OtherBuild
  <2>3. EveryoneInBaseline <=>
            /\ artifact.initial_baseline # None
            /\ state_digest(ReconstructedWorld(artifact)) = artifact.initial_baseline.digest
    BY AnchorMatches
  <2>4. ~SpawnMismatch(artifact) <=> IdsUnique
    BY SpawnsMatch
  <2>5. EveryoneInBaseline /\ IdsUnique => validate_input_stream(artifact)
    BY DEF CompleteMatchHasStream
  <2>6. EveryoneInBaseline /\ IdsUnique =>
            /\ ReplayedWorld(artifact).tick = artifact.checkpoint_tick
            /\ state_digest(ReplayedWorld(artifact)) = artifact.final_digest
    BY ArtifactFields, CompleteReplaysToTheEnd
  <2> HIDE DEF ReplayInv
  <2> QED
    BY <2>1, <2>2, <2>3, <2>4, <2>5, <2>6 DEF verify_replay
<1> QED
  BY <1>1, Replaying, CompleteStream, PTL

-----------------------------------------------------------------------------
(***************************************************************************)
(* The process that plays a match and stores it, module ReplayFile.        *)
(***************************************************************************)

\* What storing the match does leaves the match as it is.
LEMMA StoringKeepsMatch ==
    ASSUME ProcessNext, ~Playing
    PROVE  UNCHANGED server_vars
BY DEF ProcessNext, RunReturns, Fails, RefuseExisting, CreateFile, WriteAll, WriteStops,
       Exited, process_vars

\* A process plays its match as module ServerEdge says (main, run), so that every theorem
\* about ServerSpec holds of each process.
THEOREM ProcessPlaysMatch == ProcessSpec => ServerSpec
<1>1. ProcessInit => ServerInit
  BY DEF ProcessInit
<1>2. [ProcessNext]_process_vars => [ServerNext]_server_vars
  <2>1. Playing => ServerNext
    BY DEF Playing
  <2>2. UNCHANGED process_vars => UNCHANGED server_vars
    BY DEF process_vars
  <2> QED
    BY <2>1, <2>2, StoringKeepsMatch
<1> QED
  BY <1>1, <1>2, PTL DEF ProcessSpec, ServerSpec

\* FS-0007 collision handling (write_replay): a file changes only while the process that
\* created it is writing it, whatever name the clock gives.
THEOREM FilesKept == ProcessSpec => NeverOverwritten
<1> DEFINE Kept == \A p \in DOMAIN files :
                       /\ p \in DOMAIN files'
                       /\ files'[p] = files[p] \/ (process = "writing" /\ path = p)
<1>1. [ProcessNext]_process_vars => [Kept]_process_vars
  <2> SUFFICES ASSUME ProcessNext PROVE Kept
    OBVIOUS
  <2>1. CASE CreateFile
    <3>1. path \notin DOMAIN files /\ files' = MapInsert(files, path, File(artifact, 0, FALSE))
      BY <2>1 DEF CreateFile
    <3> QED
      BY <3>1 DEF MapInsert
  <2>2. CASE WriteAll
    BY <2>2 DEF WriteAll
  <2>3. ASSUME NEW fields, NEW torn, WriteStops(fields, torn) PROVE Kept
    BY <2>3 DEF WriteStops
  <2>4. CASE UNCHANGED files
    BY <2>4
  <2> QED
    BY <2>1, <2>2, <2>3, <2>4
       DEF ProcessNext, Playing, RunReturns, Fails, RefuseExisting, Exited, process_vars,
           file_vars
<1> QED
  BY <1>1, PTL DEF ProcessSpec, NeverOverwritten

\* The file of the match is empty when it is created, and whole once written.
StoredAs(fields) == path \in DOMAIN files /\ files[path] = File(artifact, fields, FALSE)

StoringInv ==
    /\ process = "writing" => StoredAs(0)
    /\ process = "exit 0" => StoredAs(Len(encode_to_vec(artifact)))

\* Every step of the process keeps this.
LEMMA NextStoring == StoringInv /\ [ProcessNext]_process_vars => StoringInv'
<1> SUFFICES ASSUME StoringInv, [ProcessNext]_process_vars PROVE StoringInv'
  OBVIOUS
<1>1. CASE CreateFile
  <2>1. /\ process' = "writing" /\ path' = path /\ artifact' = artifact
        /\ files' = MapInsert(files, path, File(artifact, 0, FALSE))
    BY <1>1 DEF CreateFile, server_vars
  <2> QED
    BY <2>1 DEF StoringInv, StoredAs, MapInsert, File
<1>2. CASE WriteAll
  <2>1. PICK n, a, q : n = Len(encode_to_vec(artifact)) /\ a = artifact /\ q = path
    OBVIOUS
  <2>2. /\ process' = "exit 0" /\ path' = q /\ artifact' = a
        /\ files' = [files EXCEPT ![q].fields = n]
        /\ q \in DOMAIN files /\ files[q] = [of |-> a, fields |-> 0, torn |-> FALSE]
    BY <1>2, <2>1 DEF WriteAll, server_vars, StoringInv, StoredAs, File
  <2>3. q \in DOMAIN files' /\ files'[q] = [of |-> a, fields |-> n, torn |-> FALSE]
    <3>1. PICK old : old = files[q]
      OBVIOUS
    <3>2. q \in DOMAIN files' /\ files'[q] = [old EXCEPT !.fields = n]
      BY <2>2, <3>1
    <3>3. old = [of |-> a, fields |-> 0, torn |-> FALSE]
      BY <2>2, <3>1
    <3> QED
      BY <3>2, <3>3
  <2>4. Len(encode_to_vec(artifact')) = n
    BY <2>1, <2>2
  <2> QED
    BY <2>2, <2>3, <2>4 DEF StoringInv, StoredAs, File
<1>3. CASE process' \notin {"writing", "exit 0"}
  BY <1>3 DEF StoringInv
<1>4. CASE UNCHANGED process_vars
  <2>1. UNCHANGED <<process, path, files, artifact>>
    BY <1>4 DEF process_vars, file_vars, server_vars
  <2> QED
    BY <2>1 DEF StoringInv, StoredAs
<1> QED
  BY <1>1, <1>2, <1>3, <1>4
     DEF ProcessNext, Playing, RunReturns, Fails, RefuseExisting, WriteStops, Exited,
         process_vars, file_vars

\* main's exit status: a process that exits with 0 has stored its whole match under its own
\* name (write_replay), whatever files it found and wherever it could have failed.
THEOREM StoredOnSuccess == ProcessSpec => []SuccessMeansStored
<1>1. ProcessInit => StoringInv
  BY DEF ProcessInit, StoringInv
<1>2. StoringInv => SuccessMeansStored
  <2> SUFFICES ASSUME StoringInv, process = "exit 0"
               PROVE  path \in DOMAIN files /\ files[path].of = artifact /\ Whole(files[path])
    BY DEF SuccessMeansStored
  <2>1. PICK n, file : n = Len(encode_to_vec(artifact)) /\ file = files[path]
    OBVIOUS
  <2>2. path \in DOMAIN files /\ file = [of |-> artifact, fields |-> n, torn |-> FALSE]
    BY <2>1 DEF StoringInv, StoredAs, File
  <2>3. file.of = artifact /\ file.fields = n /\ ~file.torn
    BY <2>2
  <2> QED
    BY <2>1, <2>2, <2>3 DEF Whole
<1> QED
  BY <1>1, <1>2, NextStoring, PTL DEF ProcessSpec

-----------------------------------------------------------------------------
(***************************************************************************)
(* What a file decodes to, whole or cut off.                               *)
(***************************************************************************)

\* Decoding the fields s one by one, from start on.
Merges(decoded, start, s) ==
    /\ decoded[0] = start
    /\ \A n \in 1 .. Len(s) : decoded[n] = merge_field(decoded[n - 1], s[n])

\* decode_artifact arrives where any such decoding does.
LEMMA DecodedIsMerged ==
    ASSUME NEW s, NEW f, Len(s) \in Nat, Merges(f, default_artifact, s)
    PROVE  decode_artifact(s) = f[Len(s)]
<1>0. PICK T, start : T = Len(s) /\ start = default_artifact
  OBVIOUS
<1> DEFINE Next(g, n) == IF n = 0 THEN start ELSE merge_field(g[n - 1], s[n])
           merged == CHOOSE g : g = [n \in 0 .. T |-> Next(g, n)]
           same == [n \in 0 .. T |-> f[n]]
<1>1. decode_artifact(s) = merged[T]
  BY <1>0 DEF decode_artifact
<1>2. f[0] = start
  BY <1>0 DEF Merges
<1>3. same = [n \in 0 .. T |-> Next(same, n)]
  <2>1. ASSUME NEW n \in 0 .. T PROVE f[n] = Next(same, n)
    <3>1. CASE n = 0
      BY <1>2, <3>1
    <3>2. CASE n # 0
      <4>1. n \in 1 .. T /\ n - 1 \in 0 .. T
        BY <1>0, <3>2
      <4>2. f[n] = merge_field(f[n - 1], s[n])
        BY <1>0, <4>1 DEF Merges
      <4> QED
        BY <3>2, <4>1, <4>2
    <3> QED
      BY <3>1, <3>2
  <2> HIDE DEF Next
  <2> QED
    BY <2>1
<1>4. merged = [n \in 0 .. T |-> Next(merged, n)]
  <2> HIDE DEF Next, same
  <2> QED
    BY <1>3
<1> HIDE DEF merged
<1> DEFINE S == {n \in Nat : n <= T => merged[n] = f[n]}
<1>5. Nat \subseteq S
  <2>1. 0 \in S
    BY <1>0, <1>2, <1>4
  <2>2. ASSUME NEW n \in Nat, n \in S PROVE n + 1 \in S
    <3>1. SUFFICES ASSUME n + 1 <= T PROVE merged[n + 1] = f[n + 1]
      OBVIOUS
    <3>2. merged[n] = f[n]
      BY <1>0, <2>2, <3>1
    <3>3. n + 1 \in 1 .. T /\ n + 1 \in 0 .. T /\ n + 1 # 0 /\ n + 1 - 1 = n
      BY <1>0, <3>1
    <3>4. merged[n + 1] = merge_field(merged[n], s[n + 1])
      <4>1. merged[n + 1] = Next(merged, n + 1)
        <5> HIDE DEF Next
        <5> QED
          BY <1>4, <3>3
      <4>2. Next(merged, n + 1) = merge_field(merged[n + 1 - 1], s[n + 1])
        BY <3>3
      <4> QED
        BY <3>3, <4>1, <4>2
    <3>5. f[n + 1] = merge_field(f[n], s[n + 1])
      BY <1>0, <3>3 DEF Merges
    <3> QED
      BY <3>2, <3>4, <3>5
  <2> HIDE DEF S
  <2> QED
    BY <2>1, <2>2, SetInduction
<1> QED
  BY <1>0, <1>1, <1>5

\* Decoding s turns the artifact x into the artifact y.
Turns(s, x, y) == \E f : Merges(f, x, s) /\ f[Len(s)] = y

\* Nothing to decode changes nothing.
LEMMA TurnsEmpty == ASSUME NEW x PROVE Turns(<< >>, x, x)
<1>1. PICK f : f = [n \in {0} |-> x]
  OBVIOUS
<1> QED
  BY <1>1 DEF Turns, Merges

\* One field is merged.
LEMMA TurnsField ==
    ASSUME NEW x, NEW name, NEW v
    PROVE  Turns(Field(name, v), x, merge_field(x, [name |-> name, value |-> v]))
<1>1. PICK y, e : e = [name |-> name, value |-> v] /\ y = merge_field(x, e)
  OBVIOUS
<1>2. PICK f : f = [n \in {0, 1} |-> IF n = 0 THEN x ELSE y]
  OBVIOUS
<1>3. Field(name, v) = <<e>>
  BY <1>1 DEF Field
<1>4. Merges(f, x, <<e>>) /\ f[1] = y
  BY <1>1, <1>2 DEF Merges
<1> QED
  BY <1>1, <1>3, <1>4 DEF Turns

\* Fields after fields are merged after them.
LEMMA TurnsBoth ==
    ASSUME NEW S, NEW s \in Seq(S), NEW t \in Seq(S), NEW x, NEW y, NEW z,
           Turns(s, x, y), Turns(t, y, z)
    PROVE  Turns(s \o t, x, z)
<1>1. PICK f : Merges(f, x, s) /\ f[Len(s)] = y
  BY DEF Turns
<1>2. PICK g : Merges(g, y, t) /\ g[Len(t)] = z
  BY DEF Turns
<1>3. PICK m \in Nat, n \in Nat : m = Len(s) /\ n = Len(t)
  <2>1. Len(s) \in Nat /\ Len(t) \in Nat
    OBVIOUS
  <2> QED
    BY <2>1
<1>4. PICK h : h = [k \in Nat |-> IF k <= m THEN f[k] ELSE g[k - m]]
  OBVIOUS
<1>5. Len(s \o t) = m + n
  BY <1>3
<1>6. ASSUME NEW k \in 1 .. m + n
      PROVE  h[k] = merge_field(h[k - 1], (s \o t)[k])
  <2>1. CASE k <= m
    <3>1. k \in 1 .. m /\ k \in Nat /\ k - 1 \in Nat /\ k - 1 <= m
      BY <1>3, <2>1
    <3>2. (s \o t)[k] = s[k]
      BY <1>3, <3>1
    <3>3. h[k] = f[k] /\ h[k - 1] = f[k - 1]
      BY <1>4, <2>1, <3>1
    <3>4. f[k] = merge_field(f[k - 1], s[k])
      BY <1>1, <1>3, <3>1 DEF Merges
    <3> QED
      BY <3>2, <3>3, <3>4
  <2>2. CASE k > m
    <3>1. k - m \in 1 .. n /\ k \in Nat /\ k - 1 \in Nat /\ ~(k <= m)
      BY <1>3, <2>2
    <3>2. (s \o t)[k] = t[k - m]
      BY <1>3, <2>2, <3>1
    <3>3. h[k] = g[k - m]
      BY <1>4, <3>1
    <3>4. h[k - 1] = g[k - m - 1]
      <4>1. CASE k - 1 = m
        BY <1>1, <1>2, <1>3, <1>4, <3>1, <4>1 DEF Merges
      <4>2. CASE k - 1 # m
        BY <1>3, <1>4, <3>1, <4>2
      <4> QED
        BY <4>1, <4>2
    <3>5. g[k - m] = merge_field(g[k - m - 1], t[k - m])
      BY <1>2, <1>3, <3>1 DEF Merges
    <3> QED
      BY <3>2, <3>3, <3>4, <3>5
  <2> QED
    BY <1>3, <2>1, <2>2
<1>7. h[0] = x
  BY <1>1, <1>3, <1>4 DEF Merges
<1>8. h[m + n] = z
  BY <1>1, <1>2, <1>3, <1>4 DEF Merges
<1> QED
  BY <1>5, <1>6, <1>7, <1>8 DEF Turns, Merges

\* What decoding makes of the fields of artifact a, as far as its final digest and its
\* checkpoint tick have been read.
Decoded(a, digest, tick) ==
    [initial_baseline      |-> a.initial_baseline,
     tick_rate_hz          |-> tick_rate_hz,
     entity_spawn_order    |-> a.entity_spawn_order,
     player_entity_mapping |-> a.player_entity_mapping,
     inputs                |-> a.inputs,
     build_fingerprint     |-> a.build_fingerprint,
     final_digest          |-> digest,
     checkpoint_tick       |-> tick]

\* The first six fields, any number of which leave the digest and the tick absent.
FieldsBeforeDigest(a) ==
    (IF a.initial_baseline = None THEN << >> ELSE Field("initial_baseline", a.initial_baseline))
    \o Field("tick_rate_hz", tick_rate_hz)
    \o (IF a.entity_spawn_order = << >> THEN << >>
        ELSE Field("entity_spawn_order", a.entity_spawn_order))
    \o Repeated("player_entity_mapping", a.player_entity_mapping)
    \o Repeated("inputs", a.inputs)
    \o (IF a.build_fingerprint = None THEN << >>
        ELSE Field("build_fingerprint", a.build_fingerprint))

EarlyFields(a) ==
    {[name |-> "initial_baseline", value |-> a.initial_baseline],
     [name |-> "tick_rate_hz", value |-> tick_rate_hz],
     [name |-> "entity_spawn_order", value |-> a.entity_spawn_order],
     [name |-> "build_fingerprint", value |-> a.build_fingerprint]}
    \cup [name : {"player_entity_mapping"}, value : SpawnRecords]
    \cup [name : {"inputs"}, value : AppliedRecords]

EarlyArtifacts(a) ==
    [initial_baseline      : {None, a.initial_baseline},
     tick_rate_hz          : {0, tick_rate_hz},
     entity_spawn_order    : {<< >>, a.entity_spawn_order},
     player_entity_mapping : Seq(SpawnRecords),
     inputs                : Seq(AppliedRecords),
     build_fingerprint     : {None, a.build_fingerprint},
     final_digest          : {None},
     checkpoint_tick       : {0}]

\* Merging one of the fields before the digest leaves the digest and the tick absent, so
\* it takes a partly decoded artifact to another one.
LEMMA EarlyStays ==
    ASSUME NEW a, NEW x \in EarlyArtifacts(a), NEW f \in EarlyFields(a)
    PROVE  merge_field(x, f) \in EarlyArtifacts(a)
<1>1. PICK b \in {None, a.initial_baseline}, h \in {0, tick_rate_hz},
           o \in {<< >>, a.entity_spawn_order}, m \in Seq(SpawnRecords),
           i \in Seq(AppliedRecords), p \in {None, a.build_fingerprint} :
          x = [initial_baseline |-> b, tick_rate_hz |-> h, entity_spawn_order |-> o,
               player_entity_mapping |-> m, inputs |-> i, build_fingerprint |-> p,
               final_digest |-> None, checkpoint_tick |-> 0]
  BY DEF EarlyArtifacts
<1>2. CASE f = [name |-> "initial_baseline", value |-> a.initial_baseline]
  <2>1. merge_field(x, f) =
              [initial_baseline |-> a.initial_baseline, tick_rate_hz |-> h,
               entity_spawn_order |-> o, player_entity_mapping |-> m, inputs |-> i,
               build_fingerprint |-> p, final_digest |-> None, checkpoint_tick |-> 0]
    BY <1>1, <1>2 DEF merge_field
  <2> QED
    BY <2>1 DEF EarlyArtifacts
<1>3. CASE f = [name |-> "tick_rate_hz", value |-> tick_rate_hz]
  <2>1. merge_field(x, f) =
              [initial_baseline |-> b, tick_rate_hz |-> tick_rate_hz,
               entity_spawn_order |-> o, player_entity_mapping |-> m, inputs |-> i,
               build_fingerprint |-> p, final_digest |-> None, checkpoint_tick |-> 0]
    BY <1>1, <1>3 DEF merge_field
  <2> QED
    BY <2>1 DEF EarlyArtifacts
<1>4. CASE f = [name |-> "entity_spawn_order", value |-> a.entity_spawn_order]
  <2>1. merge_field(x, f) =
              [initial_baseline |-> b, tick_rate_hz |-> h,
               entity_spawn_order |-> a.entity_spawn_order, player_entity_mapping |-> m,
               inputs |-> i, build_fingerprint |-> p, final_digest |-> None,
               checkpoint_tick |-> 0]
    BY <1>1, <1>4 DEF merge_field
  <2> QED
    BY <2>1 DEF EarlyArtifacts
<1>5. CASE f = [name |-> "build_fingerprint", value |-> a.build_fingerprint]
  <2>1. merge_field(x, f) =
              [initial_baseline |-> b, tick_rate_hz |-> h, entity_spawn_order |-> o,
               player_entity_mapping |-> m, inputs |-> i,
               build_fingerprint |-> a.build_fingerprint, final_digest |-> None,
               checkpoint_tick |-> 0]
    BY <1>1, <1>5 DEF merge_field
  <2> QED
    BY <2>1 DEF EarlyArtifacts
<1>6. CASE f \in [name : {"player_entity_mapping"}, value : SpawnRecords]
  <2>1. PICK v \in SpawnRecords : f = [name |-> "player_entity_mapping", value |-> v]
    BY <1>6
  <2>2. PICK m2 : m2 = Append(m, v)
    OBVIOUS
  <2>3. m2 \in Seq(SpawnRecords)
    BY <2>2
  <2>4. merge_field(x, f) =
              [initial_baseline |-> b, tick_rate_hz |-> h, entity_spawn_order |-> o,
               player_entity_mapping |-> m2, inputs |-> i, build_fingerprint |-> p,
               final_digest |-> None, checkpoint_tick |-> 0]
    BY <1>1, <2>1, <2>2 DEF merge_field
  <2> QED
    BY <2>3, <2>4 DEF EarlyArtifacts
<1>7. CASE f \in [name : {"inputs"}, value : AppliedRecords]
  <2>1. PICK v \in AppliedRecords : f = [name |-> "inputs", value |-> v]
    BY <1>7
  <2>2. PICK i2 : i2 = Append(i, v)
    OBVIOUS
  <2>3. i2 \in Seq(AppliedRecords)
    BY <2>2
  <2>4. merge_field(x, f) =
              [initial_baseline |-> b, tick_rate_hz |-> h, entity_spawn_order |-> o,
               player_entity_mapping |-> m, inputs |-> i2, build_fingerprint |-> p,
               final_digest |-> None, checkpoint_tick |-> 0]
    BY <1>1, <2>1, <2>2 DEF merge_field
  <2> QED
    BY <2>3, <2>4 DEF EarlyArtifacts
<1> QED
  BY <1>2, <1>3, <1>4, <1>5, <1>6, <1>7 DEF EarlyFields

\* The elements of a repeated field are collected in their order.
LEMMA TurnsMapping ==
    ASSUME NEW b, NEW h, NEW o, NEW i, NEW p, NEW S, NEW q \in Seq(S)
    PROVE  LET At(m) == [initial_baseline |-> b, tick_rate_hz |-> h, entity_spawn_order |-> o,
                         player_entity_mapping |-> m, inputs |-> i, build_fingerprint |-> p,
                         final_digest |-> None, checkpoint_tick |-> 0]
           IN  Turns(Repeated("player_entity_mapping", q), At(<< >>), At(q))
<1> DEFINE At(m) == [initial_baseline |-> b, tick_rate_hz |-> h, entity_spawn_order |-> o,
                     player_entity_mapping |-> m, inputs |-> i, build_fingerprint |-> p,
                     final_digest |-> None, checkpoint_tick |-> 0]
           s == Repeated("player_entity_mapping", q)
           f == [n \in Nat |-> At(SubSeq(q, 1, n))]
<1>1. /\ Len(s) = Len(q) /\ Len(q) \in Nat
      /\ \A n \in 1 .. Len(q) : s[n] = [name |-> "player_entity_mapping", value |-> q[n]]
  BY DEF Repeated
<1>2. SubSeq(q, 1, 0) = << >> /\ SubSeq(q, 1, Len(q)) = q
  OBVIOUS
<1>3. ASSUME NEW n \in 1 .. Len(q)
      PROVE  f[n] = merge_field(f[n - 1], s[n])
  <2>1. PICK m : m = SubSeq(q, 1, n - 1)
    OBVIOUS
  <2>2. Append(m, q[n]) = SubSeq(q, 1, n)
    BY <1>1, <2>1
  <2>3. n \in Nat /\ n - 1 \in Nat
    BY <1>1
  <2>4. f[n - 1] = At(m) /\ f[n] = At(Append(m, q[n]))
    BY <2>1, <2>2, <2>3
  <2>5. s[n] = [name |-> "player_entity_mapping", value |-> q[n]]
    BY <1>1
  <2>6. PICK x, e, m2 : /\ x = At(m) /\ m2 = Append(m, q[n])
                       /\ e = [name |-> "player_entity_mapping", value |-> q[n]]
    OBVIOUS
  <2>7. merge_field(x, e) = At(m2)
    BY <2>6 DEF merge_field
  <2> HIDE DEF f, s, At
  <2> QED
    BY <2>4, <2>5, <2>6, <2>7
<1>4. f[0] = At(<< >>) /\ f[Len(s)] = At(q)
  BY <1>1, <1>2
<1> HIDE DEF f, s, At
<1>5. Turns(s, At(<< >>), At(q))
  BY <1>1, <1>3, <1>4 DEF Turns, Merges
<1> QED
  BY <1>5 DEF s, At

\* The same of the repeated field of the inputs.
LEMMA TurnsInputs ==
    ASSUME NEW b, NEW h, NEW o, NEW m, NEW p, NEW S, NEW q \in Seq(S)
    PROVE  LET At(i) == [initial_baseline |-> b, tick_rate_hz |-> h, entity_spawn_order |-> o,
                         player_entity_mapping |-> m, inputs |-> i, build_fingerprint |-> p,
                         final_digest |-> None, checkpoint_tick |-> 0]
           IN  Turns(Repeated("inputs", q), At(<< >>), At(q))
<1> DEFINE At(i) == [initial_baseline |-> b, tick_rate_hz |-> h, entity_spawn_order |-> o,
                     player_entity_mapping |-> m, inputs |-> i, build_fingerprint |-> p,
                     final_digest |-> None, checkpoint_tick |-> 0]
           s == Repeated("inputs", q)
           f == [n \in Nat |-> At(SubSeq(q, 1, n))]
<1>1. /\ Len(s) = Len(q) /\ Len(q) \in Nat
      /\ \A n \in 1 .. Len(q) : s[n] = [name |-> "inputs", value |-> q[n]]
  BY DEF Repeated
<1>2. SubSeq(q, 1, 0) = << >> /\ SubSeq(q, 1, Len(q)) = q
  OBVIOUS
<1>3. ASSUME NEW n \in 1 .. Len(q)
      PROVE  f[n] = merge_field(f[n - 1], s[n])
  <2>1. PICK i : i = SubSeq(q, 1, n - 1)
    OBVIOUS
  <2>2. Append(i, q[n]) = SubSeq(q, 1, n)
    BY <1>1, <2>1
  <2>3. n \in Nat /\ n - 1 \in Nat
    BY <1>1
  <2>4. f[n - 1] = At(i) /\ f[n] = At(Append(i, q[n]))
    BY <2>1, <2>2, <2>3
  <2>5. s[n] = [name |-> "inputs", value |-> q[n]]
    BY <1>1
  <2>6. PICK x, e, i2 : /\ x = At(i) /\ i2 = Append(i, q[n])
                       /\ e = [name |-> "inputs", value |-> q[n]]
    OBVIOUS
  <2>7. merge_field(x, e) = At(i2)
    BY <2>6 DEF merge_field
  <2> HIDE DEF f, s, At
  <2> QED
    BY <2>4, <2>5, <2>6, <2>7
<1>4. f[0] = At(<< >>) /\ f[Len(s)] = At(q)
  BY <1>1, <1>2
<1> HIDE DEF f, s, At
<1>5. Turns(s, At(<< >>), At(q))
  BY <1>1, <1>3, <1>4 DEF Turns, Merges
<1> QED
  BY <1>5 DEF s, At

\* The artifacts whose sequences are sequences.
Recorded(a) ==
    /\ a.player_entity_mapping \in Seq(SpawnRecords)
    /\ a.inputs \in Seq(AppliedRecords)

\* The fields before the digest, and what they decode to.
LEMMA BeforeDigest ==
    ASSUME NEW a, Recorded(a)
    PROVE  /\ FieldsBeforeDigest(a) \in Seq(EarlyFields(a))
           /\ Turns(FieldsBeforeDigest(a), default_artifact, Decoded(a, None, 0))
<1>1. PICK b, o, m, i, p :
          b = a.initial_baseline /\ o = a.entity_spawn_order /\ m = a.player_entity_mapping
          /\ i = a.inputs /\ p = a.build_fingerprint
  OBVIOUS
<1> DEFINE S  == EarlyFields(a)
           At(u, v, w, x, y, z) ==
               [initial_baseline |-> u, tick_rate_hz |-> v, entity_spawn_order |-> w,
                player_entity_mapping |-> x, inputs |-> y, build_fingerprint |-> z,
                final_digest |-> None, checkpoint_tick |-> 0]
           s1 == IF b = None THEN << >> ELSE Field("initial_baseline", b)
           s2 == Field("tick_rate_hz", tick_rate_hz)
           s3 == IF o = << >> THEN << >> ELSE Field("entity_spawn_order", o)
           s4 == Repeated("player_entity_mapping", m)
           s5 == Repeated("inputs", i)
           s6 == IF p = None THEN << >> ELSE Field("build_fingerprint", p)
<1>2. s1 \in Seq(S) /\ s2 \in Seq(S) /\ s3 \in Seq(S) /\ s6 \in Seq(S)
  <2>1. /\ [name |-> "initial_baseline", value |-> b] \in S
        /\ [name |-> "tick_rate_hz", value |-> tick_rate_hz] \in S
        /\ [name |-> "entity_spawn_order", value |-> o] \in S
        /\ [name |-> "build_fingerprint", value |-> p] \in S
    BY <1>1 DEF EarlyFields
  <2>2. \A e \in S : <<e>> \in Seq(S)
    OBVIOUS
  <2>3. << >> \in Seq(S)
    OBVIOUS
  <2> HIDE DEF S
  <2> QED
    BY <2>1, <2>2, <2>3 DEF Field
<1>3. s4 \in Seq(S)
  <2>1. \A k \in DOMAIN m : [name |-> "player_entity_mapping", value |-> m[k]] \in S
    BY <1>1 DEF EarlyFields, Recorded
  <2>2. DOMAIN m = 1 .. Len(m) /\ Len(m) \in Nat
    BY <1>1 DEF Recorded
  <2> HIDE DEF S
  <2> QED
    BY <2>1, <2>2 DEF Repeated
<1>4. s5 \in Seq(S)
  <2>1. \A k \in DOMAIN i : [name |-> "inputs", value |-> i[k]] \in S
    BY <1>1 DEF EarlyFields, Recorded
  <2>2. DOMAIN i = 1 .. Len(i) /\ Len(i) \in Nat
    BY <1>1 DEF Recorded
  <2> HIDE DEF S
  <2> QED
    BY <2>1, <2>2 DEF Repeated
<1> DEFINE x0 == At(None, 0, << >>, << >>, << >>, None)
           x1 == At(b, 0, << >>, << >>, << >>, None)
           x2 == At(b, tick_rate_hz, << >>, << >>, << >>, None)
           x3 == At(b, tick_rate_hz, o, << >>, << >>, None)
           x4 == At(b, tick_rate_hz, o, m, << >>, None)
           x5 == At(b, tick_rate_hz, o, m, i, None)
           x6 == At(b, tick_rate_hz, o, m, i, p)
<1>5. Turns(s1, x0, x1)
  <2>1. merge_field(x0, [name |-> "initial_baseline", value |-> b]) = x1
    BY DEF merge_field
  <2> HIDE DEF x0, x1
  <2>2. CASE b # None
    BY <2>1, <2>2, TurnsField
  <2>3. CASE b = None
    BY <2>3, TurnsEmpty DEF x0, x1
  <2> QED
    BY <2>2, <2>3
<1>6. Turns(s2, x1, x2)
  <2>1. merge_field(x1, [name |-> "tick_rate_hz", value |-> tick_rate_hz]) = x2
    BY DEF merge_field
  <2> HIDE DEF x1, x2
  <2> QED
    BY <2>1, TurnsField
<1>7. Turns(s3, x2, x3)
  <2>1. merge_field(x2, [name |-> "entity_spawn_order", value |-> o]) = x3
    BY DEF merge_field
  <2> HIDE DEF x2, x3
  <2>2. CASE o # << >>
    BY <2>1, <2>2, TurnsField
  <2>3. CASE o = << >>
    BY <2>3, TurnsEmpty DEF x2, x3
  <2> QED
    BY <2>2, <2>3
<1>8. Turns(s4, x3, x4)
  BY <1>1, TurnsMapping DEF Recorded
<1>9. Turns(s5, x4, x5)
  BY <1>1, TurnsInputs DEF Recorded
<1>10. Turns(s6, x5, x6)
  <2>1. merge_field(x5, [name |-> "build_fingerprint", value |-> p]) = x6
    BY DEF merge_field
  <2> HIDE DEF x5, x6
  <2>2. CASE p # None
    BY <2>1, <2>2, TurnsField
  <2>3. CASE p = None
    BY <2>3, TurnsEmpty DEF x5, x6
  <2> QED
    BY <2>2, <2>3
<1>11. x0 = default_artifact /\ x6 = Decoded(a, None, 0)
  BY <1>1 DEF default_artifact, Decoded
<1>12. FieldsBeforeDigest(a) = s1 \o s2 \o s3 \o s4 \o s5 \o s6
  BY <1>1 DEF FieldsBeforeDigest
<1> HIDE DEF S, s1, s2, s3, s4, s5, s6, x0, x1, x2, x3, x4, x5, x6
<1>13. PICK t2, t3, t4, t5, t6 :
           /\ t2 = s1 \o s2 /\ t3 = t2 \o s3 /\ t4 = t3 \o s4 /\ t5 = t4 \o s5
           /\ t6 = t5 \o s6
  OBVIOUS
<1>14. t2 \in Seq(S) /\ t3 \in Seq(S) /\ t4 \in Seq(S) /\ t5 \in Seq(S) /\ t6 \in Seq(S)
  BY <1>2, <1>3, <1>4, <1>13
<1> HIDE DEF At
<1>15. Turns(t2, x0, x2)
  BY <1>2, <1>5, <1>6, <1>13, TurnsBoth
<1>16. Turns(t3, x0, x3)
  <2>1. Turns(t2 \o s3, x0, x3)
    BY <1>2, <1>7, <1>14, <1>15, TurnsBoth
  <2> QED
    BY <1>13, <2>1
<1>17. Turns(t4, x0, x4)
  <2>1. Turns(t3 \o s4, x0, x4)
    BY <1>3, <1>8, <1>14, <1>16, TurnsBoth
  <2> QED
    BY <1>13, <2>1
<1>18. Turns(t5, x0, x5)
  <2>1. Turns(t4 \o s5, x0, x5)
    BY <1>4, <1>9, <1>14, <1>17, TurnsBoth
  <2> QED
    BY <1>13, <2>1
<1>19. Turns(t6, x0, x6)
  <2>1. Turns(t5 \o s6, x0, x6)
    BY <1>2, <1>10, <1>14, <1>18, TurnsBoth
  <2> QED
    BY <1>13, <2>1
<1> QED
  BY <1>11, <1>12, <1>13, <1>14, <1>19 DEF S

\* The fields of an encoded artifact, one by one.
LEMMA EncodedFields ==
    ASSUME NEW a, Recorded(a)
    PROVE  LET pre == FieldsBeforeDigest(a)
               e   == encode_to_vec(a)
               L   == Len(pre)
           IN  /\ L \in Nat
               /\ Len(e) = IF a.checkpoint_tick = 0 THEN L + 2 ELSE L + 3
               /\ \A k \in 1 .. L : e[k] = pre[k]
               /\ e[L + 1] = [name |-> "final_digest", value |-> a.final_digest]
               /\ a.checkpoint_tick # 0 =>
                      e[L + 2] = [name |-> "checkpoint_tick", value |-> a.checkpoint_tick]
               /\ e[Len(e)] = [name |-> "end_reason", value |-> "complete"]
               /\ \E S : e \in Seq(S)
<1>0. PICK pre, e, L : pre = FieldsBeforeDigest(a) /\ e = encode_to_vec(a) /\ L = Len(pre)
  OBVIOUS
<1>1. PICK d, t, z : /\ d = [name |-> "final_digest", value |-> a.final_digest]
                     /\ t = [name |-> "checkpoint_tick", value |-> a.checkpoint_tick]
                     /\ z = [name |-> "end_reason", value |-> "complete"]
  OBVIOUS
<1>2. e = pre \o <<d>> \o (IF a.checkpoint_tick = 0 THEN << >> ELSE <<t>>) \o <<z>>
  BY <1>0, <1>1 DEF encode_to_vec, FieldsBeforeDigest, Field
<1>3. PICK S : S = EarlyFields(a) \cup {d, t, z}
  OBVIOUS
<1>4. pre \in Seq(S)
  <2>1. pre \in Seq(EarlyFields(a)) /\ EarlyFields(a) \subseteq S
    BY <1>0, <1>3, BeforeDigest
  <2> QED
    BY <2>1
<1>5. d \in S /\ t \in S /\ z \in S
  BY <1>3
<1>6. CASE a.checkpoint_tick = 0
  <2>1. e = pre \o <<d>> \o << >> \o <<z>>
    BY <1>2, <1>6
  <2>2. PICK q : q = pre \o <<d>>
    OBVIOUS
  <2>3. q \in Seq(S) /\ Len(q) = L + 1 /\ q[L + 1] = d /\ \A k \in 1 .. L : q[k] = pre[k]
    BY <1>0, <1>4, <1>5, <2>2
  <2>4. e = Append(q, z)
    BY <1>5, <2>1, <2>2, <2>3
  <2>5. L \in Nat
    BY <1>0, <1>4
  <2>6. /\ e \in Seq(S) /\ Len(e) = L + 2 /\ e[L + 2] = z
        /\ \A k \in 1 .. L + 1 : e[k] = q[k]
    BY <1>5, <2>3, <2>4, <2>5
  <2> QED
    BY <1>0, <1>1, <1>6, <2>3, <2>5, <2>6
<1>7. CASE a.checkpoint_tick # 0
  <2>1. e = pre \o <<d>> \o <<t>> \o <<z>>
    BY <1>2, <1>7
  <2>2. PICK q, r : q = pre \o <<d>> /\ r = q \o <<t>>
    OBVIOUS
  <2>3. q \in Seq(S) /\ Len(q) = L + 1 /\ q[L + 1] = d /\ \A k \in 1 .. L : q[k] = pre[k]
    BY <1>0, <1>4, <1>5, <2>2
  <2>4. L \in Nat
    BY <1>0, <1>4
  <2>5. r \in Seq(S) /\ Len(r) = L + 2 /\ r[L + 2] = t /\ \A k \in 1 .. L + 1 : r[k] = q[k]
    BY <1>5, <2>2, <2>3, <2>4
  <2>6. e = r \o <<z>>
    BY <2>1, <2>2
  <2>7. /\ e \in Seq(S) /\ Len(e) = L + 3 /\ e[L + 3] = z
        /\ \A k \in 1 .. L + 2 : e[k] = r[k]
    BY <1>5, <2>4, <2>5, <2>6
  <2> QED
    BY <1>0, <1>1, <1>7, <2>3, <2>4, <2>5, <2>7
<1> QED
  BY <1>6, <1>7

\* Decoding the first n fields of an artifact.
LEMMA DecodedPrefix ==
    ASSUME NEW a, Recorded(a), NEW L, L = Len(FieldsBeforeDigest(a)),
           NEW n \in Nat, n <= Len(encode_to_vec(a)),
           NEW r, r = decode_artifact(SubSeq(encode_to_vec(a), 1, n))
    PROVE  /\ n <= L => r \in EarlyArtifacts(a)
           /\ n = L + 1 => r = Decoded(a, a.final_digest, 0)
           /\ n > L + 1 => r = Decoded(a, a.final_digest, a.checkpoint_tick)
<1>1. PICK pre, e : pre = FieldsBeforeDigest(a) /\ e = encode_to_vec(a)
  OBVIOUS
<1>0. L = Len(pre)
  BY <1>1
<1>2. /\ L \in Nat
      /\ Len(e) = IF a.checkpoint_tick = 0 THEN L + 2 ELSE L + 3
      /\ \A k \in 1 .. L : e[k] = pre[k]
      /\ e[L + 1] = [name |-> "final_digest", value |-> a.final_digest]
      /\ a.checkpoint_tick # 0 =>
             e[L + 2] = [name |-> "checkpoint_tick", value |-> a.checkpoint_tick]
      /\ e[Len(e)] = [name |-> "end_reason", value |-> "complete"]
  BY <1>0, <1>1, EncodedFields
<1>3. pre \in Seq(EarlyFields(a)) /\ Turns(pre, default_artifact, Decoded(a, None, 0))
  BY <1>1, BeforeDigest
<1>4. PICK g : Merges(g, default_artifact, pre) /\ g[L] = Decoded(a, None, 0)
  BY <1>1, <1>3 DEF Turns
<1>5. PICK x, y : /\ x = Decoded(a, a.final_digest, 0)
                  /\ y = Decoded(a, a.final_digest, a.checkpoint_tick)
  OBVIOUS
<1>6. PICK f : f = [k \in Nat |-> IF k <= L THEN g[k] ELSE IF k = L + 1 THEN x ELSE y]
  OBVIOUS
<1>7. merge_field(Decoded(a, None, 0), [name |-> "final_digest", value |-> a.final_digest]) = x
  BY <1>5 DEF merge_field, Decoded
<1>8. merge_field(x, [name |-> "checkpoint_tick", value |-> a.checkpoint_tick]) = y
  BY <1>5 DEF merge_field, Decoded
<1>9. merge_field(y, [name |-> "end_reason", value |-> "complete"]) = y
  BY DEF merge_field
<1>10. a.checkpoint_tick = 0 => x = y
  BY <1>5
<1>11. ASSUME NEW k \in 1 .. Len(e) PROVE f[k] = merge_field(f[k - 1], e[k])
  <2>1. CASE k <= L
    <3>1. k \in 1 .. L /\ k \in Nat /\ k - 1 \in Nat /\ k - 1 <= L
      BY <1>2, <2>1
    <3>2. g[k] = merge_field(g[k - 1], pre[k])
      BY <1>1, <1>4, <3>1 DEF Merges
    <3> QED
      BY <1>2, <1>6, <3>1, <3>2
  <2>2. CASE k = L + 1
    <3>1. f[k] = x /\ f[k - 1] = g[L]
      BY <1>2, <1>6, <2>2
    <3> QED
      BY <1>2, <1>4, <1>7, <2>2, <3>1
  <2>3. CASE k = L + 2
    <3>1. f[k] = y /\ f[k - 1] = x
      BY <1>2, <1>6, <2>3
    <3> QED
      BY <1>2, <1>8, <1>9, <1>10, <2>3, <3>1
  <2>4. CASE k = L + 3
    <3>1. f[k] = y /\ f[k - 1] = y
      BY <1>2, <1>6, <2>4
    <3>2. k = Len(e)
      BY <1>2, <2>4
    <3> QED
      BY <1>2, <1>9, <2>4, <3>1, <3>2
  <2> QED
    BY <1>2, <2>1, <2>2, <2>3, <2>4
<1>12. r = f[n]
  <2>1. PICK s : s = SubSeq(e, 1, n)
    OBVIOUS
  <2>2. Len(s) = n /\ \A k \in 1 .. n : s[k] = e[k]
    <3>1. PICK S : e \in Seq(S)
      BY <1>1, EncodedFields
    <3> QED
      BY <1>1, <2>1, <3>1
  <2>3. f[0] = default_artifact
    BY <1>2, <1>4, <1>6 DEF Merges
  <2>4. Merges(f, default_artifact, s)
    <3>1. \A k \in 1 .. n : k \in 1 .. Len(e)
      BY <1>1, <1>2
    <3> QED
      BY <1>11, <2>2, <2>3, <3>1 DEF Merges
  <2> QED
    BY <1>1, <2>1, <2>2, <2>4, DecodedIsMerged
<1>13. ASSUME n <= L PROVE g[n] \in EarlyArtifacts(a)
  <2> DEFINE S == {k \in Nat : k <= L => g[k] \in EarlyArtifacts(a)}
  <2>1. 0 \in S
    <3>1. default_artifact \in EarlyArtifacts(a)
      BY DEF default_artifact, EarlyArtifacts
    <3> QED
      BY <1>4, <3>1 DEF Merges
  <2>2. ASSUME NEW k \in Nat, k \in S PROVE k + 1 \in S
    <3>1. SUFFICES ASSUME k + 1 <= L PROVE g[k + 1] \in EarlyArtifacts(a)
      OBVIOUS
    <3>2. k + 1 \in 1 .. L /\ k + 1 - 1 = k /\ g[k] \in EarlyArtifacts(a)
      BY <1>2, <2>2, <3>1
    <3>3. pre[k + 1] \in EarlyFields(a)
      BY <1>1, <1>3, <3>2
    <3>4. g[k + 1] = merge_field(g[k], pre[k + 1])
      BY <1>1, <1>4, <3>2 DEF Merges
    <3> QED
      BY <3>2, <3>3, <3>4, EarlyStays
  <2>3. Nat \subseteq S
    <3> HIDE DEF S
    <3> QED
      BY <2>1, <2>2, SetInduction
  <2> QED
    BY <1>13, <2>3
<1> QED
  BY <1>2, <1>5, <1>6, <1>12, <1>13

-----------------------------------------------------------------------------
(***************************************************************************)
(* The verdict on a file.                                                  *)
(***************************************************************************)

\* The fields of an artifact that verify_replay reads.
SameFields(r, a) ==
    /\ r.initial_baseline = a.initial_baseline
    /\ r.entity_spawn_order = a.entity_spawn_order
    /\ r.player_entity_mapping = a.player_entity_mapping
    /\ r.inputs = a.inputs
    /\ r.build_fingerprint = a.build_fingerprint
    /\ r.final_digest = a.final_digest
    /\ r.checkpoint_tick = a.checkpoint_tick

\* The rebuilt and the replayed world, as functions of the fields they depend on.
WorldOfOrder(order) ==
    LET spawned[n \in 0 .. Len(order)] ==
            IF n = 0 THEN world_new ELSE spawn_character(spawned[n - 1], order[n])
    IN  spawned[Len(order)]

WorldOfInputs(first, last, start, inputs) ==
    LET world_at[t \in first .. last] ==
            IF t = first THEN start
            ELSE advance(world_at[t - 1],
                         Restrict(inputs, {i \in DOMAIN inputs : inputs[i].tick = t - 1}))
    IN  world_at[last]

\* verify_replay reads nothing else.
LEMMA SameVerdict ==
    ASSUME NEW r, NEW a, SameFields(r, a), NEW options
    PROVE  /\ validate_input_stream(r) = validate_input_stream(a)
           /\ verify_replay(r, options) = verify_replay(a, options)
<1>1. MappedPlayers(r) = MappedPlayers(a)
  BY DEF SameFields, MappedPlayers
<1>2. \A p, t : InputsAt(r, p, t) = InputsAt(a, p, t)
  BY DEF SameFields, InputsAt
<1>3. ReplayedTicks(r) = ReplayedTicks(a)
  BY DEF SameFields, ReplayedTicks
<1>4. validate_input_stream(r) = validate_input_stream(a)
  BY <1>1, <1>2, <1>3 DEF SameFields, validate_input_stream
<1>5. ReconstructedWorld(r) = ReconstructedWorld(a)
  <2>1. \A x : ReconstructedWorld(x) = WorldOfOrder(x.entity_spawn_order)
    BY DEF ReconstructedWorld, WorldOfOrder
  <2> QED
    BY <2>1 DEF SameFields
<1>6. ReplayedWorld(r) = ReplayedWorld(a)
  <2>1. \A x : ReplayedWorld(x) =
            WorldOfInputs(x.initial_baseline.tick, x.checkpoint_tick, ReconstructedWorld(x),
                          x.inputs)
    BY DEF ReplayedWorld, WorldOfInputs, inputs_by_tick
  <2> QED
    BY <1>5, <2>1 DEF SameFields
<1>7. SpawnMismatch(r) = SpawnMismatch(a)
  <2>1. \A p : ExpectedEntity(r, p) = ExpectedEntity(a, p)
    BY DEF SameFields, ExpectedEntity
  <2> QED
    BY <1>1, <1>5, <2>1 DEF SpawnMismatch
<1> QED
  BY <1>4, <1>5, <1>6, <1>7 DEF SameFields, verify_replay

\* A replay of no tick is the rebuilt world.
LEMMA ReplayOfNothing ==
    ASSUME NEW r, r.initial_baseline.tick = 0, r.checkpoint_tick = 0,
           Len(r.entity_spawn_order) \in Nat
    PROVE  state_digest(ReplayedWorld(r)) = <<0, AtRest(Len(r.entity_spawn_order))>>
<1>1. PICK n, w : n = Len(r.entity_spawn_order) /\ w = SpawnedWorld(r.entity_spawn_order, n)
  OBVIOUS
<1>2. PICK f : f = [t \in {0} |-> w]
  OBVIOUS
<1>3. Replays(f, r, 0) /\ f[0] = w
  BY <1>1, <1>2 DEF Replays
<1>4. ReplayedWorld(r) = w
  BY <1>3, ReplayedIsReplay
<1> QED
  BY <1>1, <1>4, SpawnedAtRest

\* The artifact of a match has its sequences, and an encoding of finite length.
LEMMA ArtifactEncodes ==
    ASSUME ReplayInv, artifact # None
    PROVE  Recorded(artifact) /\ Len(encode_to_vec(artifact)) \in Nat
<1>1. Recorded(artifact)
  BY ArtifactFields
     DEF Recorded, ReplayInv, RecordingInv, SafetyInv, TypeOK, RecorderTypeOK
<1> QED
  BY <1>1, EncodedFields

\* A whole file has the verdict of its match.  A file cut off before its digest has no
\* digest to match, one cut off before its tick has the digest of another tick, unless
\* nothing was left to read.
LEMMA FileVerdict ==
    ASSUME ReplayInv, artifact # None, NEW file, file.of = artifact, file.fields \in Nat,
           file.fields <= Len(encode_to_vec(artifact)), NEW options
    PROVE  /\ Whole(file) =>
                  verify_file(file, options) = verify_replay(artifact, options)
           /\ verify_file(file, options) = "Ok" =>
                  \A field \in DOMAIN artifact : read_replay(file)[field] = artifact[field]
<1>1. PICK a, n, r, e, L : /\ a = artifact /\ n = file.fields /\ e = encode_to_vec(a)
                           /\ r = decode_artifact(SubSeq(e, 1, n))
                           /\ L = Len(FieldsBeforeDigest(a))
  OBVIOUS
<1>2. Recorded(a) /\ n \in Nat /\ n <= Len(e)
  BY <1>1, ArtifactEncodes
<1>3. /\ L \in Nat
      /\ Len(e) = IF a.checkpoint_tick = 0 THEN L + 2 ELSE L + 3
  BY <1>1, <1>2, EncodedFields
<1>4. /\ n <= L => r \in EarlyArtifacts(a)
      /\ n = L + 1 => r = Decoded(a, a.final_digest, 0)
      /\ n > L + 1 => r = Decoded(a, a.final_digest, a.checkpoint_tick)
  BY <1>1, <1>2, DecodedPrefix
<1>5. ~file.torn => read_replay(file) = r
  BY <1>1 DEF read_replay
<1>6. Whole(file) => ~file.torn /\ n = Len(e)
  BY <1>1 DEF Whole
<1>7. CASE file.torn
  BY <1>6, <1>7 DEF verify_file
<1>8. /\ a.initial_baseline # None => a.initial_baseline.tick = 0
      /\ a.final_digest = state_digest(world) /\ a.checkpoint_tick = world.tick
      /\ Len(a.entity_spawn_order) \in Nat
  BY <1>1, ArtifactFields DEF ReplayInv, RecordingInv, BaselineFirst, BaselineAtRest
<1>9. ASSUME ~file.torn, r.checkpoint_tick = 0, r.initial_baseline \in {None, a.initial_baseline},
             Len(r.entity_spawn_order) \in Nat,
             \A k \in Nat : <<0, AtRest(k)>> # r.final_digest
      PROVE  verify_file(file, options) # "Ok"
  <2>1. CASE r.initial_baseline = None
    BY <1>5, <1>9, <2>1 DEF verify_file, verify_replay
  <2>2. CASE r.initial_baseline # None
    <3>1. state_digest(ReplayedWorld(r)) # r.final_digest
      BY <1>8, <1>9, <2>2, ReplayOfNothing
    <3> QED
      BY <1>5, <1>9, <3>1 DEF verify_file, verify_replay
  <2> QED
    BY <2>1, <2>2
<1>10. CASE ~file.torn /\ n <= L
  <2>1. r \in EarlyArtifacts(a)
    BY <1>4, <1>10
  <2>2. /\ r.checkpoint_tick = 0 /\ r.final_digest = None
        /\ r.initial_baseline \in {None, a.initial_baseline}
        /\ r.entity_spawn_order \in {<< >>, a.entity_spawn_order}
    BY <2>1 DEF EarlyArtifacts
  <2>3. \A k \in Nat : <<0, AtRest(k)>> # None
    <3>1. \A k \in Nat : <<0, AtRest(k)>> \in Nat \X Snapshots
      BY AtRestType
    <3> QED
      BY <3>1, NoneIsNoDigest
  <2>4. Len(r.entity_spawn_order) \in Nat
    BY <1>8, <2>2
  <2>5. verify_file(file, options) # "Ok"
    BY <1>9, <1>10, <2>2, <2>3, <2>4
  <2> QED
    BY <1>3, <1>6, <1>10, <2>5
<1>11. CASE ~file.torn /\ n = L + 1 /\ a.checkpoint_tick # 0
  <2>1. r = Decoded(a, a.final_digest, 0)
    BY <1>4, <1>11
  <2>2. /\ r.checkpoint_tick = 0 /\ r.final_digest = a.final_digest
        /\ r.initial_baseline = a.initial_baseline
        /\ r.entity_spawn_order = a.entity_spawn_order
    BY <2>1 DEF Decoded
  <2>3. \A k : <<0, AtRest(k)>> # a.final_digest
    <3>1. a.final_digest = <<world.tick, sorted_entity_snapshots(world)>>
      BY <1>8 DEF state_digest
    <3> QED
      BY <1>8, <1>11, <3>1
  <2>4. verify_file(file, options) # "Ok"
    BY <1>8, <1>9, <1>11, <2>2, <2>3
  <2> QED
    BY <1>3, <1>6, <1>11, <2>4
<1>12. CASE ~file.torn /\ (n > L + 1 \/ (n = L + 1 /\ a.checkpoint_tick = 0))
  <2>1. r = Decoded(a, a.final_digest, a.checkpoint_tick)
    BY <1>4, <1>12
  <2>2. SameFields(r, a) /\ r.tick_rate_hz = tick_rate_hz
    BY <2>1 DEF SameFields, Decoded
  <2>3. tick_rate_hz # 0
    BY ValidationConfigAssumption
  <2>4. verify_file(file, options) = verify_replay(a, options)
    BY <1>5, <1>12, <2>2, <2>3, SameVerdict DEF verify_file
  <2>5. \A field \in DOMAIN a : r[field] = a[field]
    <3>1. DOMAIN a = {"entity_spawn_order", "player_entity_mapping", "initial_baseline",
                      "inputs", "build_fingerprint", "final_digest", "checkpoint_tick"}
      BY <1>1 DEF ReplayInv, ArtifactIsFinal, recorder_finalize
    <3> QED
      BY <2>2, <3>1 DEF SameFields
  <2> QED
    BY <1>1, <1>5, <1>12, <2>4, <2>5
<1> QED
  BY <1>2, <1>3, <1>7, <1>10, <1>11, <1>12

\* The files of this process hold its match, or a beginning of it.
HoldsBeginning(file) ==
    /\ file.of = artifact
    /\ file.fields \in Nat
    /\ file.fields <= Len(encode_to_vec(artifact))

FilesInv ==
    /\ process = "playing" => StoredFiles = {}
    /\ \A p \in StoredFiles : HoldsBeginning(files[p])

\* A file of the match stays one while the match and the other files stay.
LEMMA FileReplaced ==
    ASSUME ReplayInv, FilesInv, UNCHANGED artifact, process' # "playing",
           NEW n, artifact # None => n \in Nat /\ n <= Len(encode_to_vec(artifact)),
           \A p \in DOMAIN files' :
               \/ p \in DOMAIN files /\ files'[p] = files[p]
               \/ files'[p].of = artifact /\ files'[p].fields = n
    PROVE  FilesInv'
<1>1. ASSUME NEW p \in DOMAIN files', files'[p].of # None
      PROVE  HoldsBeginning(files[p])'
  <2>1. CASE p \in DOMAIN files /\ files'[p] = files[p]
    <3>1. HoldsBeginning(files[p])
      BY <1>1, <2>1 DEF FilesInv, StoredFiles
    <3> QED
      BY <2>1, <3>1 DEF HoldsBeginning
  <2>2. CASE files'[p].of = artifact /\ files'[p].fields = n
    BY <1>1, <2>2 DEF HoldsBeginning
  <2> QED
    BY <2>1, <2>2
<1> QED
  BY <1>1 DEF FilesInv, StoredFiles

\* Every step of the process keeps this.
LEMMA NextFiles ==
    ASSUME ReplayInv, StoringInv, FilesInv, [ProcessNext]_process_vars
    PROVE  FilesInv'
<1>1. artifact # None => Len(encode_to_vec(artifact)) \in Nat
  BY ArtifactEncodes
<1>2. CASE CreateFile
  <2>1. /\ process' = "writing" /\ UNCHANGED artifact
        /\ files' = MapInsert(files, path, File(artifact, 0, FALSE))
    BY <1>2 DEF CreateFile, server_vars
  <2>2. \A p \in DOMAIN files' :
            \/ p \in DOMAIN files /\ files'[p] = files[p]
            \/ files'[p].of = artifact /\ files'[p].fields = 0
    BY <2>1 DEF MapInsert, File
  <2>3. process' # "playing" /\ (artifact # None => 0 \in Nat /\ 0 <= Len(encode_to_vec(artifact)))
    BY <1>1, <2>1
  <2> QED
    BY <2>1, <2>2, <2>3, FileReplaced
<1>3. CASE WriteAll
  <2>1. PICK n, a, q : n = Len(encode_to_vec(artifact)) /\ a = artifact /\ q = path
    OBVIOUS
  <2>2. /\ process' = "exit 0" /\ UNCHANGED artifact
        /\ files' = [files EXCEPT ![q].fields = n]
        /\ q \in DOMAIN files /\ files[q] = [of |-> a, fields |-> 0, torn |-> FALSE]
    BY <1>3, <2>1 DEF WriteAll, server_vars, StoringInv, StoredAs, File
  <2>3. \A p \in DOMAIN files' :
            \/ p \in DOMAIN files /\ files'[p] = files[p]
            \/ files'[p].of = a /\ files'[p].fields = n
    <3>1. PICK old : old = files[q]
      OBVIOUS
    <3>2. files'[q] = [old EXCEPT !.fields = n]
      BY <2>2, <3>1
    <3>3. files'[q].of = a /\ files'[q].fields = n
      <4>1. old = [of |-> a, fields |-> 0, torn |-> FALSE]
        BY <2>2, <3>1
      <4> QED
        BY <3>2, <4>1
    <3>4. \A p \in DOMAIN files' : p # q => p \in DOMAIN files /\ files'[p] = files[p]
      BY <2>2
    <3> QED
      BY <3>3, <3>4
  <2>4. artifact # None => n \in Nat
    BY <1>1, <2>1
  <2>5. artifact # None => n \in Nat /\ n <= Len(encode_to_vec(artifact))
    BY <2>1, <2>4
  <2>6. process' # "playing"
    BY <2>2
  <2> QED
    BY <2>1, <2>2, <2>3, <2>5, <2>6, FileReplaced
<1>4. ASSUME NEW fields \in 0 .. Len(encode_to_vec(artifact)), NEW torn \in BOOLEAN,
             WriteStops(fields, torn)
      PROVE  FilesInv'
  <2>1. /\ process' = "failed" /\ UNCHANGED artifact
        /\ files' = [files EXCEPT ![path] = File(artifact, fields, torn)]
    BY <1>4 DEF WriteStops, server_vars
  <2>2. \A p \in DOMAIN files' :
            \/ p \in DOMAIN files /\ files'[p] = files[p]
            \/ files'[p].of = artifact /\ files'[p].fields = fields
    BY <2>1 DEF File
  <2>3. /\ process' # "playing"
        /\ artifact # None => fields \in Nat /\ fields <= Len(encode_to_vec(artifact))
    BY <1>1, <2>1
  <2> QED
    BY <2>1, <2>2, <2>3, FileReplaced
<1>5. CASE Playing
  <2>1. UNCHANGED <<process, files>> /\ process = "playing"
    BY <1>5 DEF Playing, file_vars
  <2> QED
    BY <2>1 DEF FilesInv, StoredFiles
<1>6. CASE (process' # "playing" \/ process' = process) /\ UNCHANGED <<files, artifact>>
  BY <1>6 DEF FilesInv, StoredFiles, HoldsBeginning
<1>7. CASE UNCHANGED process_vars
  <2>1. UNCHANGED <<process, files, artifact>>
    BY <1>7 DEF process_vars, file_vars, server_vars
  <2> QED
    BY <1>6, <2>1
<1>8. CASE (\E p \in Paths : RunReturns(p)) \/ Fails \/ RefuseExisting
  <2>1. process' # "playing" /\ UNCHANGED <<files, artifact>>
    BY <1>8 DEF RunReturns, Fails, RefuseExisting, server_vars
  <2> QED
    BY <1>6, <2>1
<1>9. CASE \E fields \in 0 .. IF process = "writing" THEN Len(encode_to_vec(artifact)) ELSE 0,
             torn \in BOOLEAN : WriteStops(fields, torn)
  <2>1. process = "writing"
    BY <1>9 DEF WriteStops
  <2> QED
    BY <1>4, <1>9, <2>1
<1> QED
  BY <1>2, <1>3, <1>5, <1>7, <1>8, <1>9 DEF ProcessNext, Exited

\* write_replay, read_replay and verify_replay: a whole file verifies as the match itself
\* does, and a file that was cut off anywhere, which may well decode, never passes for a
\* match unless all that verification reads is there.
THEOREM FilesFaithful == ProcessSpec => []FilesVerifyAsPlayed
<1>1. ProcessInit => FilesInv /\ StoringInv
  BY DEF ProcessInit, EarlierFile, File, FilesInv, StoredFiles, StoringInv
<1>2. ReplayInv /\ StoringInv /\ FilesInv /\ [ProcessNext]_process_vars => FilesInv'
  BY NextFiles
<1>3. ReplayInv /\ FilesInv => FilesVerifyAsPlayed
  <2> SUFFICES ASSUME ReplayInv, FilesInv, NEW p \in StoredFiles, NEW options \in VerifyOptions
               PROVE  /\ Whole(files[p]) =>
                             verify_file(files[p], options) = verify_replay(files[p].of, options)
                      /\ verify_file(files[p], options) = "Ok" =>
                             \A field \in DOMAIN files[p].of :
                                 read_replay(files[p])[field] = files[p].of[field]
    BY DEF FilesVerifyAsPlayed
  <2>1. PICK file : file = files[p]
    OBVIOUS
  <2>2. /\ file.of = artifact /\ artifact # None
        /\ file.fields \in Nat /\ file.fields <= Len(encode_to_vec(artifact))
    BY <2>1 DEF FilesInv, StoredFiles, HoldsBeginning
  <2> HIDE DEF ReplayInv
  <2> QED
    BY <2>1, <2>2, FileVerdict
<1> QED
  BY <1>1, <1>2, <1>3, NextStoring, ProcessPlaysMatch, Replaying, PTL DEF ProcessSpec
=============================================================================
