------------------------- MODULE ServerEdgeActionProofs -------------------------
(***************************************************************************)
(* What a step of ServerEdge may never do: change the buffered inputs of a *)
(* player who has left, move a frozen character, or give out a player id   *)
(* again.                                                                  *)
(***************************************************************************)
EXTENDS ServerEdgeSafetyProofs

\* try_buffer leaves every key but the input's own as it was.
LEMMA TryBufferKeepsOthers ==
    ASSUME NEW b, NEW p, NEW input,
           NEW key \in DOMAIN try_buffer(b, p, input), key # <<p, input.tick>>
    PROVE  key \in DOMAIN b /\ try_buffer(b, p, input)[key] = b[key]
<1> DEFINE own == <<p, input.tick>>
<1>1. PICK v : try_buffer(b, p, input) \in {b, MapInsert(b, own, v)}
  BY DEF try_buffer
<1> HIDE DEF own
<1>2. ASSUME NEW u, key \in DOMAIN MapInsert(b, own, u), key # own
      PROVE  key \in DOMAIN b /\ MapInsert(b, own, u)[key] = b[key]
  BY <1>2 DEF MapInsert
<1> QED
  BY <1>1, <1>2 DEF own

\* receive_input only writes the entry of the session's player.
LEMMA ReceiveKeepsOthers ==
    ASSUME NEW sid, NEW input, receive_input(sid, input),
           NEW key \in DOMAIN input_buffer', key[1] # session_players[sid]
    PROVE  key \in DOMAIN input_buffer /\ input_buffer'[key] = input_buffer[key]
<1> DEFINE p == session_players[sid]
<1>1. input_buffer' \in {input_buffer, try_buffer(input_buffer, p, input)}
  BY DEF receive_input, validate_input
<1>2. key # <<p, input.tick>>
  OBVIOUS
<1> HIDE DEF p
<1> QED
  BY <1>1, <1>2, TryBufferKeepsOthers

\* step only removes entries.
LEMMA StepKeepsEntries ==
    ASSUME TypeOK, step, NEW key \in DOMAIN input_buffer'
    PROVE  key \in DOMAIN input_buffer /\ input_buffer'[key] = input_buffer[key]
BY StepResult DEF evict_before, MapRemove, Restrict

\* The player whose entry receive_input writes is that of a live session.
LEMMA ReceiverIsLive ==
    ASSUME SafetyInv, NEW sid, NEW input, receive_input(sid, input)
    PROVE  sid \in DOMAIN sessions /\ sessions[sid].player_id = session_players[sid]
<1>1. sid \in DOMAIN sessions
  BY DEF receive_input, SafetyInv, TypeOK, IdentityTypeOK
<1> QED
  BY <1>1 DEF SafetyInv, BindingsSpawned

\* The operations that never touch the buffer.
LEMMA BufferUntouched ==
    ASSUME \/ accept_session
           \/ accept_session_fails
           \/ \E sid \in SessionIds : welcome_for(sid)
           \/ \E sid \in SessionIds : disconnect_session(sid)
           \/ finalize
           \/ \E f \in Fingerprints : set_build_fingerprint(f)
           \/ Stopped
           \/ UNCHANGED server_vars
    PROVE  input_buffer' = input_buffer
BY DEF accept_session, accept_session_fails, Panic, welcome_for, disconnect_session, finalize,
       set_build_fingerprint, Stopped, server_vars

\* No input of a departed player reaches the buffer (disconnect_session,
\* receive_input): only a live session's player gains or changes an entry.
THEOREM OnlyLiveBuffer == ServerSpec => OnlyLivePlayersBuffer
<1> DEFINE Kept(key) ==
               \/ key \in DOMAIN input_buffer /\ input_buffer'[key] = input_buffer[key]
               \/ \E sid \in DOMAIN sessions : sessions[sid].player_id = key[1]
<1>1. SafetyInv /\ [ServerNext]_server_vars => \A key \in DOMAIN input_buffer' : Kept(key)
  <2> SUFFICES ASSUME SafetyInv, [ServerNext]_server_vars, NEW key \in DOMAIN input_buffer'
               PROVE  Kept(key)
    OBVIOUS
  <2>1. CASE \E sid \in SessionIds, input \in InputCmd : receive_input(sid, input)
    <3>1. PICK sid \in SessionIds, input \in InputCmd : receive_input(sid, input)
      BY <2>1
    <3>2. CASE key[1] = session_players[sid]
      BY <3>1, <3>2, ReceiverIsLive
    <3>3. CASE key[1] # session_players[sid]
      BY <3>1, <3>3, ReceiveKeepsOthers
    <3> QED
      BY <3>2, <3>3
  <2>2. CASE step
    BY <2>2, StepKeepsEntries DEF SafetyInv
  <2>3. CASE input_buffer' = input_buffer
    BY <2>3
  <2> QED
    BY <2>1, <2>2, <2>3, BufferUntouched DEF ServerNext
<1> QED
  BY <1>1, Safety, PTL DEF ServerSpec, OnlyLivePlayersBuffer

-----------------------------------------------------------------------------
(***************************************************************************)
(* The freeze of a departed player's character.                            *)
(***************************************************************************)

\* There is a last known intent for every player ever spawned and for nobody else.
IntentsMatchSpawned == DOMAIN last_known_intent = SpawnedPlayers

\* The spawn order after an accept has one player more.
LEMMA AcceptSpawns ==
    ASSUME SafetyInv, accept_session
    PROVE  /\ AssignedPlayerId \in PlayerIds
           /\ SpawnedPlayers' = SpawnedPlayers \cup {AssignedPlayerId}
           /\ IdsUnique' => IdsUnique /\ AssignedPlayerId \notin SpawnedPlayers
<1> DEFINE p == AssignedPlayerId
           n == Len(entity_spawn_order)
<1>1. p \in PlayerIds
  BY AssignedPlayerIdType DEF SafetyInv, accept_session
<1>2. /\ entity_spawn_order \in Seq(PlayerIds)
      /\ n \in Nat
      /\ DOMAIN entity_spawn_order = 1 .. n
  BY DEF SafetyInv, TypeOK, SpawnTypeOK
<1>3. entity_spawn_order' = Append(entity_spawn_order, p)
  BY DEF accept_session
<1> HIDE DEF p
<1>4. /\ DOMAIN entity_spawn_order' = 1 .. n + 1
      /\ entity_spawn_order'[n + 1] = p
      /\ \A i \in 1 .. n : entity_spawn_order'[i] = entity_spawn_order[i]
  BY <1>1, <1>2, <1>3
<1> HIDE DEF n
<1>5. /\ n + 1 \in DOMAIN entity_spawn_order'
      /\ \A i \in 1 .. n : i \in DOMAIN entity_spawn_order' /\ i # n + 1
      /\ \A i \in DOMAIN entity_spawn_order' : i \in 1 .. n \/ i = n + 1
  BY <1>2, <1>4
<1>6. SpawnedPlayers' = SpawnedPlayers \cup {p}
  BY <1>2, <1>4, <1>5 DEF SpawnedPlayers
<1>7. ASSUME IdsUnique' PROVE IdsUnique /\ p \notin SpawnedPlayers
  BY <1>2, <1>4, <1>5, <1>7 DEF IdsUnique, IsInjective, SpawnedPlayers
<1> QED
  BY <1>1, <1>6, <1>7 DEF p

\* Only accept_session touches the spawn order.
LEMMA SpawnOrderUntouched ==
    ASSUME [ServerNext]_server_vars, ~accept_session
    PROVE  entity_spawn_order' = entity_spawn_order
BY DEF ServerNext, accept_session_fails, Panic, welcome_for, disconnect_session, receive_input,
       step, finalize, set_build_fingerprint, Stopped, server_vars, spawn_vars

\* An intent is made with the player's character and never forgotten; the insertion of
\* disconnect_session and those of step's loop make none for anyone else.
LEMMA IntentsKept ==
    ASSUME SafetyInv, IntentsMatchSpawned, [ServerNext]_server_vars
    PROVE  IntentsMatchSpawned'
<1>1. CASE accept_session
  <2>1. last_known_intent' = MapInsert(last_known_intent, AssignedPlayerId, 0)
    BY <1>1 DEF accept_session
  <2> QED
    BY <1>1, <2>1, AcceptSpawns DEF IntentsMatchSpawned, MapInsert
<1>2. CASE ~accept_session
  <2>1. SpawnedPlayers' = SpawnedPlayers
    BY <1>2, SpawnOrderUntouched DEF SpawnedPlayers
  <2>2. CASE \E sid \in SessionIds : disconnect_session(sid)
    <3>1. PICK sid \in SessionIds : disconnect_session(sid)
      BY <2>2
    <3>2. sid \in DOMAIN sessions
          /\ last_known_intent' = MapInsert(last_known_intent, sessions[sid].player_id, 0)
      BY <3>1 DEF disconnect_session
    <3>3. sessions[sid].player_id \in SpawnedPlayers
      BY <3>2 DEF SafetyInv, BindingsSpawned, SpawnedPlayers
    <3> QED
      BY <2>1, <3>2, <3>3 DEF IntentsMatchSpawned, MapInsert
  <2>3. CASE step
    <3>1. last_known_intent' = UpdatedIntents
      BY <2>3, StepResult DEF SafetyInv
    <3> QED
      BY <2>1, <3>1 DEF IntentsMatchSpawned, UpdatedIntents, IntentsAfter
  <2>4. CASE ~step /\ ~(\E sid \in SessionIds : disconnect_session(sid))
    <3>1. last_known_intent' = last_known_intent
      BY <1>2, <2>4 DEF ServerNext, accept_session_fails, Panic, welcome_for, receive_input,
                        finalize, set_build_fingerprint, Stopped, server_vars
    <3> QED
      BY <2>1, <3>1 DEF IntentsMatchSpawned
  <2> QED
    BY <2>2, <2>3, <2>4
<1> QED
  BY <1>1, <1>2

\* Who has a last known intent (accept_session, disconnect_session, step): every player
\* ever spawned, so step's fallback always finds one, and nobody else, so an intent is
\* never made for a player without a character.
THEOREM IntentsOfSpawned == ServerSpec => []IntentsMatchSpawned
<1>1. ServerInit => IntentsMatchSpawned
  BY DEF ServerInit, IntentsMatchSpawned, SpawnedPlayers, EmptyMap
<1>2. SafetyInv /\ IntentsMatchSpawned /\ [ServerNext]_server_vars => IntentsMatchSpawned'
  BY IntentsKept
<1> QED
  BY <1>1, <1>2, Safety, PTL DEF ServerSpec

\* What makes a character stay frozen: nobody takes its player over, its intent
\* stays zero and no input is buffered for it.
LEMMA FrozenKept ==
    ASSUME NEW p, Frozen(p), p \in SpawnedPlayers',
           \A sid \in DOMAIN sessions' : sessions'[sid].player_id # p,
           last_known_intent'[p] = 0,
           \A key \in DOMAIN input_buffer' : key[1] = p => key \in DOMAIN input_buffer
    PROVE  Frozen(p)'
BY DEF Frozen, Departed

\* The positions of a player whose characters are the same and have not moved.
LEMMA PositionsKept ==
    ASSUME NEW p,
           \A e \in DOMAIN world.characters :
               world.characters[e].player_id = p =>
                   /\ e \in DOMAIN world'.characters
                   /\ world'.characters[e].player_id = p
                   /\ world'.characters[e].position = world.characters[e].position,
           \A e \in DOMAIN world'.characters :
               world'.characters[e].player_id = p =>
                   e \in DOMAIN world.characters /\ world.characters[e].player_id = p
    PROVE  PositionsOf(p)' = PositionsOf(p)
<1> DEFINE before == {e \in DOMAIN world.characters : world.characters[e].player_id = p}
           after  == {e \in DOMAIN world'.characters : world'.characters[e].player_id = p}
<1>1. before = after
  OBVIOUS
<1>2. \A e \in before : world'.characters[e].position = world.characters[e].position
  OBVIOUS
<1>3. /\ PositionsOf(p)  = {<<e, world.characters[e].position>> : e \in before}
      /\ PositionsOf(p)' = {<<e, world'.characters[e].position>> : e \in after}
  BY DEF PositionsOf
<1> HIDE DEF before, after
<1> QED
  BY <1>1, <1>2, <1>3

\* advance does not move the character of a player whose inputs are all zero.
LEMMA ZeroInputsDoNotMove ==
    ASSUME WorldTypeOK, NEW inputs \in Seq(AppliedRecords), NEW e \in DOMAIN world.characters,
           \A i \in DOMAIN inputs :
               inputs[i].player_id = world.characters[e].player_id => inputs[i].move_dir = 0
    PROVE  apply_movement(world, inputs, e).position = world.characters[e].position
<1> DEFINE c    == world.characters[e]
           mine == {i \in DOMAIN inputs : inputs[i].player_id = c.player_id}
           one  == CHOOSE i \in mine : TRUE
           dir  == clamp_magnitude(inputs[one].move_dir)
<1>1. c \in [player_id : PlayerIds, position : Int, velocity : UnitDirs]
  BY DEF WorldTypeOK
<1>2. CASE mine = {} \/ ~IsFirstOfPlayer(world, e)
  BY <1>2 DEF apply_movement
<1>3. CASE mine # {} /\ IsFirstOfPlayer(world, e)
  <2>1. one \in mine
    BY <1>3
  <2>2. inputs[one].move_dir = 0
    <3> HIDE DEF one
    <3> QED
      BY <2>1
  <2>3. dir = 0
    BY <2>2 DEF clamp_magnitude, UnitDirs
  <2>4. Cardinality(mine) \in Nat
    <3>1. IsFiniteSet(DOMAIN inputs)
      BY FS_Interval
    <3> QED
      BY <3>1, FS_Subset, FS_CardinalityType
  <2>5. apply_movement(world, inputs, e)
            = [c EXCEPT !.velocity = dir, !.position = @ + Cardinality(mine) * dir]
    BY <1>3 DEF apply_movement
  <2> HIDE DEF c, mine, dir
  <2>6. c.position + Cardinality(mine) * dir = c.position
    BY <1>1, <2>3, <2>4
  <2> QED
    BY <1>1, <2>5, <2>6 DEF c
<1> QED
  BY <1>2, <1>3

\* The characters after step are those before it, each moved by its player's inputs.
LEMMA StepMoves ==
    ASSUME TypeOK, step
    PROVE  /\ DOMAIN world'.characters = DOMAIN world.characters
           /\ \A e \in DOMAIN world.characters :
                  world'.characters[e] = apply_movement(world, AppliedInputs, e)
<1> DEFINE moved == [e \in DOMAIN world.characters |-> apply_movement(world, AppliedInputs, e)]
<1>1. PICK t, n, cs : world = [tick |-> t, next_entity_id |-> n, characters |-> cs]
  BY DEF TypeOK, WorldTypeOK
<1>2. world' = [world EXCEPT !.tick = @ + 1, !.characters = moved]
  BY StepResult DEF advance
<1> HIDE DEF moved
<1>3. world'.characters = moved
  BY <1>1, <1>2
<1> QED
  BY <1>3 DEF moved

\* A step leaves a frozen character where it is, and frozen.
LEMMA StepFreezes ==
    ASSUME SafetyInv, step, NEW p \in SpawnedPlayers, Frozen(p)
    PROVE  Frozen(p)' /\ PositionsOf(p)' = PositionsOf(p)
<1>1. TypeOK /\ WorldTypeOK
  BY DEF SafetyInv, TypeOK
<1>2. AppliedIntent(p) = 0
  BY DEF Frozen, AppliedIntent, BufferedIntent, take_input, MapGet
<1>3. UNCHANGED <<sessions, entity_spawn_order>>
  BY DEF step, identity_vars, spawn_vars
<1>4. SpawnedPlayers' = SpawnedPlayers
  BY <1>3 DEF SpawnedPlayers
<1>5. last_known_intent'[p] = 0
  BY <1>1, <1>2, StepResult DEF UpdatedIntents, IntentsAfter
<1>6. Frozen(p)'
  BY <1>1, <1>3, <1>4, <1>5, StepKeepsEntries, FrozenKept DEF Frozen, Departed
<1>7. ASSUME NEW e \in DOMAIN world.characters, world.characters[e].player_id = p
      PROVE  world'.characters[e].position = world.characters[e].position
  <2>1. /\ AppliedInputs \in Seq(AppliedRecords)
        /\ \A i \in DOMAIN AppliedInputs :
               AppliedInputs[i].move_dir = AppliedIntent(AppliedInputs[i].player_id)
    BY <1>1, AppliedInputsType
  <2>2. \A i \in DOMAIN AppliedInputs :
            AppliedInputs[i].player_id = world.characters[e].player_id =>
                AppliedInputs[i].move_dir = 0
    BY <1>2, <1>7, <2>1
  <2>3. apply_movement(world, AppliedInputs, e).position = world.characters[e].position
    BY <1>1, <2>1, <2>2, ZeroInputsDoNotMove
  <2> QED
    BY <1>1, <2>3, StepMoves
<1>8. \A e \in DOMAIN world.characters :
          world'.characters[e].player_id = world.characters[e].player_id
  <2>1. world' = advance(world, AppliedInputs)
    BY <1>1, StepResult
  <2> QED
    BY <1>1, <2>1, AdvanceKeepsPlayers
<1>9. PositionsOf(p)' = PositionsOf(p)
  BY <1>1, <1>7, <1>8, StepMoves, PositionsKept
<1> QED
  BY <1>6, <1>9

\* A new session leaves every frozen character frozen: its player is another one.
LEMMA AcceptFreezes ==
    ASSUME SafetyInv, IntentsMatchSpawned, accept_session,
           NEW p \in SpawnedPlayers, Frozen(p), IdsUnique'
    PROVE  Frozen(p)' /\ PositionsOf(p)' = PositionsOf(p)
<1> DEFINE q == AssignedPlayerId
           n == world.next_entity_id
<1>1. p # q /\ p \in SpawnedPlayers'
  BY AcceptSpawns
<1>2. /\ last_known_intent' = MapInsert(last_known_intent, q, 0)
      /\ sessions' = MapInsert(sessions, next_session_id,
                               [player_id |-> q, controlled_entity_id |-> n])
      /\ input_buffer' = input_buffer
  BY DEF accept_session
<1>3. TypeOK
  BY DEF SafetyInv
<1>4. PICK t, m, cs : world = [tick |-> t, next_entity_id |-> m, characters |-> cs]
  BY <1>3 DEF TypeOK, WorldTypeOK
<1>5. world' = [tick |-> t, next_entity_id |-> m + 1,
                characters |-> MapInsert(cs, m, Character(q))]
  BY <1>4 DEF accept_session, spawn_character
<1> HIDE DEF q
<1>6. /\ DOMAIN world'.characters = DOMAIN world.characters \cup {n}
      /\ world'.characters[n].player_id = q
      /\ \A e \in DOMAIN world.characters \ {n} : world'.characters[e] = world.characters[e]
      /\ n \notin DOMAIN world.characters
  <2>1. n \notin DOMAIN world.characters
    BY <1>3 DEF TypeOK, WorldTypeOK
  <2> QED
    BY <1>4, <1>5, <2>1 DEF MapInsert, Character
<1> HIDE DEF n
<1>7. \A sid \in DOMAIN sessions' : sessions'[sid].player_id # p
  BY <1>1, <1>2 DEF MapInsert, Frozen, Departed
<1>8. last_known_intent'[p] = 0
  BY <1>1, <1>2 DEF MapInsert, Frozen, IntentsMatchSpawned
<1>9. Frozen(p)'
  BY <1>1, <1>2, <1>7, <1>8, FrozenKept
<1>10. PositionsOf(p)' = PositionsOf(p)
  BY <1>1, <1>6, PositionsKept
<1> QED
  BY <1>9, <1>10

\* So does every other operation, because no live session has a frozen player.
LEMMA OthersFreeze ==
    ASSUME SafetyInv, IntentsMatchSpawned, [ServerNext]_server_vars, ~accept_session, ~step,
           NEW p \in SpawnedPlayers, Frozen(p)
    PROVE  Frozen(p)' /\ PositionsOf(p)' = PositionsOf(p)
<1>1. p \in SpawnedPlayers'
  BY SpawnOrderUntouched DEF SpawnedPlayers
<1>2. world' = world
  BY DEF ServerNext, accept_session_fails, Panic, welcome_for, disconnect_session,
         receive_input, finalize, set_build_fingerprint, Stopped, server_vars
<1>3. \A sid \in DOMAIN sessions' : sid \in DOMAIN sessions /\ sessions'[sid] = sessions[sid]
  <2>1. CASE \E sid \in SessionIds : disconnect_session(sid)
    BY <2>1 DEF disconnect_session, MapRemove, Restrict
  <2>2. CASE ~\E sid \in SessionIds : disconnect_session(sid)
    <3>1. sessions' = sessions
      BY <2>2 DEF ServerNext, accept_session_fails, Panic, welcome_for, receive_input,
                  finalize, set_build_fingerprint, Stopped, server_vars, identity_vars
    <3> QED
      BY <3>1
  <2> QED
    BY <2>1, <2>2
<1>4. last_known_intent'[p] = 0
  <2>1. \/ last_known_intent' = last_known_intent
        \/ \E q : last_known_intent' = MapInsert(last_known_intent, q, 0)
    BY DEF ServerNext, accept_session_fails, Panic, welcome_for, disconnect_session,
           receive_input, finalize, set_build_fingerprint, Stopped, server_vars
  <2> QED
    BY <2>1 DEF MapInsert, Frozen, IntentsMatchSpawned
<1>5. \A key \in DOMAIN input_buffer' : key[1] = p => key \in DOMAIN input_buffer
  <2>1. CASE \E sid \in SessionIds, input \in InputCmd : receive_input(sid, input)
    BY <2>1, ReceiveKeepsOthers, ReceiverIsLive DEF Frozen, Departed
  <2>2. CASE input_buffer' = input_buffer
    BY <2>2
  <2> QED
    BY <2>1, <2>2, BufferUntouched DEF ServerNext
<1>6. Frozen(p)'
  BY <1>1, <1>3, <1>4, <1>5, FrozenKept DEF Frozen, Departed
<1> QED
  BY <1>2, <1>6 DEF PositionsOf

\* The character of a departed player whose intent is zero and who has nothing
\* buffered never moves again (disconnect_session, step, apply_movement), as long
\* as its player id is not given to somebody else.
THEOREM FrozenForGood == ServerSpec => FrozenStaysFrozen
<1> DEFINE Stays == \A p \in SpawnedPlayers :
                        Frozen(p) /\ IdsUnique' => Frozen(p)' /\ PositionsOf(p)' = PositionsOf(p)
<1>1. SafetyInv /\ IntentsMatchSpawned /\ [ServerNext]_server_vars => Stays
  BY StepFreezes, AcceptFreezes, OthersFreeze
<1> QED
  BY <1>1, Safety, IntentsOfSpawned, PTL DEF ServerSpec, FrozenStaysFrozen

-----------------------------------------------------------------------------
(***************************************************************************)
(* Player ids.                                                             *)
(***************************************************************************)

\* With checked arithmetic the n-th session has the n-th id, and the counter counts
\* the sessions ever accepted.
SpawnOrderIsOrdinal ==
    OverflowChecks =>
        /\ next_player_id = Len(entity_spawn_order)
        /\ test_player_ids # None => Len(entity_spawn_order) <= Len(test_player_ids)
        /\ \A i \in DOMAIN entity_spawn_order :
               entity_spawn_order[i] =
                   IF test_player_ids = None THEN i - 1 ELSE test_player_ids[i]

\* accept_session gives the next ordinal, and its counter does not wrap.
LEMMA AcceptIsOrdinal ==
    ASSUME SafetyInv, SpawnOrderIsOrdinal, accept_session
    PROVE  SpawnOrderIsOrdinal'
<1> SUFFICES ASSUME OverflowChecks
             PROVE  /\ next_player_id' = Len(entity_spawn_order')
                    /\ test_player_ids # None =>
                           Len(entity_spawn_order') <= Len(test_player_ids)
                    /\ \A i \in DOMAIN entity_spawn_order' :
                           entity_spawn_order'[i] =
                               IF test_player_ids = None THEN i - 1 ELSE test_player_ids[i]
  BY DEF SpawnOrderIsOrdinal
<1> DEFINE p == AssignedPlayerId
           n == Len(entity_spawn_order)
<1>1. /\ entity_spawn_order \in Seq(PlayerIds)
      /\ n \in Nat
      /\ DOMAIN entity_spawn_order = 1 .. n
      /\ PlayerIdModulus \in Nat \ {0}
      /\ next_player_id \in 0 .. PlayerIdModulus - 1
  BY ServerConfigAssumption
     DEF SafetyInv, TypeOK, SpawnTypeOK, IdentityTypeOK, PlayerIds
<1>2. /\ next_player_id + 1 # PlayerIdModulus
      /\ test_player_ids # None => next_player_id < Len(test_player_ids)
  <2>1. ~AcceptPanics
    BY DEF accept_session
  <2>2. test_player_ids # None => Len(test_player_ids) \in Nat
    BY ServerConfigAssumption
  <2> QED
    BY <1>1, <2>1, <2>2 DEF AcceptPanics
<1>3. next_player_id' = next_player_id + 1
  <2>1. next_player_id' = (next_player_id + 1) % PlayerIdModulus
    BY DEF accept_session
  <2> QED
    BY <1>1, <1>2, <2>1
<1>4. p \in PlayerIds /\ entity_spawn_order' = Append(entity_spawn_order, p)
  BY AcceptSpawns DEF accept_session
<1>5. n = next_player_id /\ p = IF test_player_ids = None THEN n ELSE test_player_ids[n + 1]
  BY DEF SpawnOrderIsOrdinal, AssignedPlayerId
<1> HIDE DEF p
<1>6. /\ Len(entity_spawn_order') = n + 1
      /\ DOMAIN entity_spawn_order' = 1 .. n + 1
      /\ entity_spawn_order'[n + 1] = p
      /\ \A i \in 1 .. n : entity_spawn_order'[i] = entity_spawn_order[i]
  BY <1>1, <1>4
<1>7. test_player_ids # None => n + 1 <= Len(test_player_ids)
  <2>1. test_player_ids # None => Len(test_player_ids) \in Nat
    BY ServerConfigAssumption
  <2> QED
    BY <1>1, <1>2, <1>5, <2>1
<1> HIDE DEF n
<1>8. \A i \in 1 .. n :
          entity_spawn_order[i] = IF test_player_ids = None THEN i - 1 ELSE test_player_ids[i]
  BY <1>1 DEF SpawnOrderIsOrdinal
<1>9. n \in Nat
  BY <1>1 DEF n
<1>10. ASSUME NEW i \in DOMAIN entity_spawn_order'
       PROVE  entity_spawn_order'[i] =
                  IF test_player_ids = None THEN i - 1 ELSE test_player_ids[i]
  <2>1. CASE i \in 1 .. n
    BY <1>6, <1>8, <2>1
  <2>2. CASE i = n + 1
    BY <1>5, <1>6, <1>9, <2>2
  <2> QED
    BY <1>6, <1>9, <2>1, <2>2
<1> QED
  BY <1>3, <1>5, <1>6, <1>7, <1>10

\* Before the first session there are none.
LEMMA InitIsOrdinal == ServerInit => SpawnOrderIsOrdinal
<1> SUFFICES ASSUME ServerInit PROVE SpawnOrderIsOrdinal
  OBVIOUS
<1>1. entity_spawn_order = << >> /\ next_player_id = 0
  BY DEF ServerInit
<1>2. test_player_ids # None => Len(test_player_ids) \in Nat
  BY ServerConfigAssumption
<1> QED
  BY <1>1, <1>2 DEF SpawnOrderIsOrdinal

\* No other operation gives out a player id.
LEMMA NextIsOrdinal ==
    SafetyInv /\ SpawnOrderIsOrdinal /\ [ServerNext]_server_vars => SpawnOrderIsOrdinal'
<1> SUFFICES ASSUME SafetyInv, SpawnOrderIsOrdinal, [ServerNext]_server_vars
             PROVE  SpawnOrderIsOrdinal'
  OBVIOUS
<1>1. CASE accept_session
  BY <1>1, AcceptIsOrdinal
<1>2. CASE ~accept_session
  <2>1. next_player_id' = next_player_id
    BY <1>2 DEF ServerNext, accept_session_fails, Panic, welcome_for, disconnect_session,
                receive_input, step, finalize, set_build_fingerprint, Stopped,
                server_vars, identity_vars
  <2> QED
    BY <1>2, <2>1, SpawnOrderUntouched DEF SpawnOrderIsOrdinal
<1> QED
  BY <1>1, <1>2

\* Ids that follow distinct ordinals, or distinct test ids, are distinct.
LEMMA OrdinalsAreUnique ==
    ASSUME OverflowChecks, test_player_ids = None \/ IsInjective(test_player_ids),
           TypeOK, SpawnOrderIsOrdinal
    PROVE  IdsUnique
<1> SUFFICES ASSUME NEW i \in DOMAIN entity_spawn_order,
                    NEW j \in DOMAIN entity_spawn_order,
                    entity_spawn_order[i] = entity_spawn_order[j]
             PROVE  i = j
  BY DEF IdsUnique, IsInjective
<1>1. /\ DOMAIN entity_spawn_order = 1 .. Len(entity_spawn_order)
      /\ Len(entity_spawn_order) \in Nat
  BY DEF TypeOK, SpawnTypeOK
<1>2. CASE test_player_ids = None
  BY <1>1, <1>2 DEF SpawnOrderIsOrdinal
<1>3. CASE test_player_ids # None
  <2>1. /\ DOMAIN test_player_ids = 1 .. Len(test_player_ids)
        /\ Len(test_player_ids) \in Nat
    BY <1>3, ServerConfigAssumption
  <2>2. i \in DOMAIN test_player_ids /\ j \in DOMAIN test_player_ids
    BY <1>1, <1>3, <2>1 DEF SpawnOrderIsOrdinal
  <2>3. test_player_ids[i] = test_player_ids[j]
    BY <1>3 DEF SpawnOrderIsOrdinal
  <2> QED
    BY <1>3, <2>2, <2>3 DEF IsInjective
<1> QED
  BY <1>2, <1>3

\* In a build with overflow checks, and with test ids that are distinct, no player id
\* is ever given out twice, however many sessions come and go (accept_session).
\* Without the checks it is (the run player_id_wraps), so the hypothesis is needed.
THEOREM IdsNeverReused ==
    ASSUME OverflowChecks, test_player_ids = None \/ IsInjective(test_player_ids)
    PROVE  ServerSpec => []PlayerIdsNeverReused
<1>1. SafetyInv /\ SpawnOrderIsOrdinal => PlayerIdsNeverReused
  BY OrdinalsAreUnique DEF SafetyInv, PlayerIdsNeverReused
<1> QED
  BY <1>1, InitIsOrdinal, NextIsOrdinal, Safety, PTL DEF ServerSpec
=============================================================================
