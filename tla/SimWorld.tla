------------------------------ MODULE SimWorld ------------------------------
(***************************************************************************)
(* The simulation core, crates/sim: a World of characters that advances    *)
(* one tick at a time.  The operators are pure; the server and the replay  *)
(* verifier hold a world in their own state.                               *)
(*                                                                         *)
(* Data abstraction.  A direction is one signed integer: both axes are     *)
(* treated alike and only the magnitude is ever compared, with 1.          *)
(* MOVE_SPEED * dt is the unit of length, so a velocity is the clamped     *)
(* direction and a tick adds it to the position.  The FNV digest is the    *)
(* tuple of the values it hashes, that is, a hash without collisions.      *)
(***************************************************************************)
EXTENDS Integers, FiniteSets, Sequences, RustTypes

CONSTANT HugeDir
    \* the least magnitude whose square overflows an f64 to infinity

ASSUME HugeDirAssumption == HugeDir \in Nat /\ HugeDir > 1

UnitDirs == -1 .. 1

Sign(d) == IF d > 0 THEN 1 ELSE -1

(***************************************************************************)
(* Scaling to magnitude 1.  A huge direction is divided by an infinite     *)
(* magnitude and becomes zero.                                             *)
(***************************************************************************)
clamp_magnitude_mutant_unclamped(d) == d

clamp_magnitude(d) ==
    IF d \in UnitDirs                      THEN d
    ELSE IF d >= HugeDir \/ d <= -HugeDir  THEN 0
    ELSE Sign(d)

-----------------------------------------------------------------------------

\* World::new.  characters is the Vec sorted by entity id, keyed by that id.
world_new == [tick |-> 0, next_entity_id |-> 1, characters |-> EmptyMap]

Character(p) == [player_id |-> p, position |-> 0, velocity |-> 0]

\* The entity id the next spawn_character returns is world.next_entity_id.
spawn_character(world, p) ==
    [world EXCEPT !.next_entity_id = @ + 1,
                  !.characters = MapInsert(@, world.next_entity_id, Character(p))]

\* The post-state every snapshot, baseline and digest is made of.
sorted_entity_snapshots(world) ==
    [e \in DOMAIN world.characters |->
        [position |-> world.characters[e].position,
         velocity |-> world.characters[e].velocity]]

state_digest(world) == <<world.tick, sorted_entity_snapshots(world)>>

baseline(world) == [tick     |-> world.tick,
                    entities |-> sorted_entity_snapshots(world),
                    digest   |-> state_digest(world)]

\* `characters.iter_mut().find(..)`: the first character of its player.
IsFirstOfPlayer(world, e) ==
    \A f \in DOMAIN world.characters :
        f < e => world.characters[f].player_id # world.characters[e].player_id

(***************************************************************************)
(* advance.  apply_movement runs once per step input on the first          *)
(* character of the input's player, so a player with several inputs in one *)
(* step moves several times.  Both callers give inputs of one player in    *)
(* one step the same direction (SameIntentPerStep below ServerEdge), so    *)
(* the count and any one of them decide the result, and the stable sort by *)
(* player id that precedes the call decides nothing.                       *)
(***************************************************************************)
apply_movement(world, step_inputs, e) ==
    LET c    == world.characters[e]
        mine == {i \in DOMAIN step_inputs : step_inputs[i].player_id = c.player_id}
        dir  == clamp_magnitude(step_inputs[CHOOSE i \in mine : TRUE].move_dir)
    IN  IF mine = {} \/ ~IsFirstOfPlayer(world, e)
        THEN c
        ELSE [c EXCEPT !.velocity = dir, !.position = @ + Cardinality(mine) * dir]

advance(world, step_inputs) ==
    [world EXCEPT !.tick = @ + 1,
                  !.characters = [e \in DOMAIN @ |-> apply_movement(world, step_inputs, e)]]
=============================================================================
