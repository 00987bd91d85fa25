-------------------------- MODULE ServerEdgeProofs --------------------------
(***************************************************************************)
(* Invariance theorems of ServerEdge, for every configuration and every    *)
(* set of inputs.                                                          *)
(***************************************************************************)
EXTENDS ServerEdge, SequenceTheorems, FiniteSetTheorems, WellFoundedInduction, TLAPS

\* What clamp_magnitude is for: its result has magnitude at most 1.
LEMMA ClampIsUnit == \A d \in Int : clamp_magnitude(d) \in UnitDirs
BY DEF clamp_magnitude, UnitDirs, Sign

\* The value and the type of a HashMap after an insertion.
LEMMA MapInsertType ==
    ASSUME NEW S, NEW T, NEW m, m \in [DOMAIN m -> T], DOMAIN m \subseteq S,
           NEW k \in S, NEW v \in T
    PROVE  /\ DOMAIN MapInsert(m, k, v) = DOMAIN m \cup {k}
           /\ DOMAIN MapInsert(m, k, v) \subseteq S
           /\ MapInsert(m, k, v) \in [DOMAIN MapInsert(m, k, v) -> T]
BY DEF MapInsert

\* The value and the type of a HashMap after removals.
LEMMA MapRemoveType ==
    ASSUME NEW T, NEW m, m \in [DOMAIN m -> T], NEW R
    PROVE  /\ DOMAIN MapRemove(m, R) = DOMAIN m \ R
           /\ MapRemove(m, R) \in [DOMAIN MapRemove(m, R) -> T]
BY DEF MapRemove, Restrict

\* The entry made from a well-formed input.
LEMMA BufferEntryType ==
    ASSUME NEW input \in [tick : Nat, input_seq : Nat, move_dir : Int]
    PROVE  BufferEntry(input) \in EntryRecords
BY ClampIsUnit DEF BufferEntry, EntryRecords, InputRecords

\* One more input for a key keeps the entry's type.
LEMMA UpdatedEntryType ==
    ASSUME NEW input \in [tick : Nat, input_seq : Nat, move_dir : Int],
           NEW entry \in EntryRecords
    PROVE  UpdatedEntry(entry, input) \in EntryRecords
<1>1. CASE input.input_seq > entry.max_input_seq
  <2>1. BufferEntry(input) \in EntryRecords /\ entry.receive_count + 1 \in Nat \ {0}
    BY BufferEntryType DEF EntryRecords
  <2> QED
    BY <1>1, <2>1 DEF UpdatedEntry, EntryRecords
<1>2. CASE ~(input.input_seq > entry.max_input_seq)
  <2>1. entry.receive_count + 1 \in Nat \ {0}
    BY DEF EntryRecords
  <2>2. (entry.max_seq_tied \/ input.input_seq = entry.max_input_seq) \in BOOLEAN
    OBVIOUS
  <2> QED
    BY <1>2, <2>1, <2>2 DEF UpdatedEntry, EntryRecords
<1> QED
  BY <1>1, <1>2

\* try_buffer keeps the buffer's type and touches the one key of its input.
LEMMA TryBufferType ==
    ASSUME NEW input \in [tick : Nat, input_seq : Nat, move_dir : Int],
           NEW p \in PlayerIds, BufferTypeOK
    PROVE  LET b == try_buffer(input_buffer, p, input) IN
           /\ DOMAIN b \subseteq PlayerIds \X Nat
           /\ b \in [DOMAIN b -> EntryRecords]
           /\ DOMAIN b = DOMAIN input_buffer \cup {<<p, input.tick>>}
<1> DEFINE key == <<p, input.tick>>
           Typed(b) == /\ DOMAIN b \subseteq PlayerIds \X Nat
                       /\ b \in [DOMAIN b -> EntryRecords]
                       /\ DOMAIN b = DOMAIN input_buffer \cup {key}
<1>1. key \in PlayerIds \X Nat
  OBVIOUS
<1>2. ASSUME NEW v \in EntryRecords
      PROVE  Typed(MapInsert(input_buffer, key, v))
  <2> HIDE DEF key
  <2> QED
    BY <1>1, <1>2 DEF MapInsert, BufferTypeOK
<1>3. CASE key \notin DOMAIN input_buffer
  <2>1. try_buffer(input_buffer, p, input) = MapInsert(input_buffer, key, BufferEntry(input))
    BY <1>3 DEF try_buffer
  <2>2. Typed(MapInsert(input_buffer, key, BufferEntry(input)))
    BY <1>2, BufferEntryType
  <2> QED
    BY <2>1, <2>2
<1>4. CASE key \in DOMAIN input_buffer /\ input_buffer[key].receive_count >= per_tick_limit
  <2>1. try_buffer(input_buffer, p, input) = input_buffer
    BY <1>4 DEF try_buffer
  <2> QED
    BY <1>4, <2>1 DEF BufferTypeOK
<1>5. CASE key \in DOMAIN input_buffer /\ ~(input_buffer[key].receive_count >= per_tick_limit)
  <2>1. try_buffer(input_buffer, p, input)
            = MapInsert(input_buffer, key, UpdatedEntry(input_buffer[key], input))
    BY <1>5 DEF try_buffer
  <2>2. UpdatedEntry(input_buffer[key], input) \in EntryRecords
    BY <1>5, UpdatedEntryType DEF BufferTypeOK
  <2>3. Typed(MapInsert(input_buffer, key, UpdatedEntry(input_buffer[key], input)))
    BY <1>2, <2>2
  <2> QED
    BY <2>1, <2>3
<1> QED
  BY <1>3, <1>4, <1>5

\* Induction over the natural numbers, as a statement about a set of them.
LEMMA SetInduction ==
    ASSUME NEW S, 0 \in S, \A n \in Nat : n \in S => n + 1 \in S
    PROVE  Nat \subseteq S
<1> DEFINE less == OpToRel(<, Nat)
           rest == {n \in Nat : n \notin S}
<1>1. IsWellFoundedOn(less, Nat)
  BY NatLessThanWellFounded
<1>2. \A m, n \in Nat : m < n => <<m, n>> \in less
  BY DEF OpToRel
<1>3. SUFFICES ASSUME rest # {} PROVE FALSE
  OBVIOUS
<1> HIDE DEF less
<1>4. rest \subseteq Nat
  OBVIOUS
<1>5. PICK n \in rest : \A m \in rest : <<m, n>> \notin less
  <2>1. \E n \in rest : \A m \in rest : <<m, n>> \notin less
    <3> HIDE DEF rest
    <3> QED
      BY <1>1, <1>3, <1>4, WFMin
  <2> QED
    BY <2>1
<1>6. n # 0 /\ n \in Nat /\ n - 1 \in Nat
  BY <1>5
<1>7. n - 1 \in rest
  BY <1>5, <1>6
<1>8. <<n - 1, n>> \in less
  BY <1>2, <1>6
<1> QED
  BY <1>5, <1>7, <1>8

-----------------------------------------------------------------------------
(***************************************************************************)
(* The pieces of step.                                                     *)
(***************************************************************************)

\* What the buffer holds for a player at the current tick when step is called.
BufferedIntent(p) == take_input(input_buffer, p, world.tick)

\* The direction of every turn of a player in one step, as LoopResult proves: the
\* buffered one, or else the last known one.
AppliedIntent(p) ==
    IF BufferedIntent(p) # None THEN BufferedIntent(p).move_dir
    ELSE MapGet(last_known_intent, p, 0)

\* Only the first turn of a player finds the buffered input.
IsFirstOccurrence(i) ==
    \A j \in 1 .. i - 1 : entity_spawn_order[j] # entity_spawn_order[i]

\* The input pushed by the i-th turn.
AppliedInput(i) ==
    [tick        |-> world.tick,
     player_id   |-> entity_spawn_order[i],
     move_dir    |-> AppliedIntent(entity_spawn_order[i]),
     is_fallback |-> BufferedIntent(entity_spawn_order[i]) = None \/ ~IsFirstOccurrence(i)]

\* The last known intents once the players of S have had their turns.
IntentsAfter(S) ==
    [p \in DOMAIN last_known_intent \cup S |->
        IF p \in S THEN AppliedIntent(p) ELSE last_known_intent[p]]

\* The players of the first n turns, and what the loop carries after them.
TurnsOf(n) == {entity_spawn_order[i] : i \in 1 .. n}

AfterTurns(n) ==
    [input_buffer      |-> MapRemove(input_buffer, TurnsOf(n) \X {world.tick}),
     last_known_intent |-> IntentsAfter(TurnsOf(n)),
     applied_inputs    |-> [i \in 1 .. n |-> AppliedInput(i)]]

\* The turn of place n + 1, in the state n turns left behind: the player's first turn
\* finds what was buffered, a later one the intent the earlier ones stored.
LEMMA OneMoreTurn ==
    ASSUME TypeOK, NEW n \in Nat, n + 1 <= Len(entity_spawn_order)
    PROVE  ApplyInput(AfterTurns(n), entity_spawn_order[n + 1]) = AfterTurns(n + 1)
<1> DEFINE loop == AfterTurns(n)
<1>1. PICK p, S, now, key : /\ p = entity_spawn_order[n + 1]
                            /\ S = TurnsOf(n)
                            /\ now = world.tick
                            /\ key = <<p, now>>
  OBVIOUS
<1>2. TurnsOf(n + 1) = S \cup {p}
  <2>1. 1 .. n + 1 = (1 .. n) \cup {n + 1}
    OBVIOUS
  <2> QED
    BY <1>1, <2>1 DEF TurnsOf
<1>3. /\ loop.input_buffer = MapRemove(input_buffer, S \X {now})
      /\ loop.last_known_intent = IntentsAfter(S)
      /\ loop.applied_inputs = [i \in 1 .. n |-> AppliedInput(i)]
  BY <1>1 DEF AfterTurns
<1>4. p \in S <=> ~IsFirstOccurrence(n + 1)
  BY <1>1 DEF TurnsOf, IsFirstOccurrence
<1>5. key \in S \X {now} <=> p \in S
  BY <1>1
<1>6. TakenInput(loop, p) = IF p \in S THEN None ELSE BufferedIntent(p)
  <2>1. PICK b, c : b = loop.input_buffer /\ c = MapRemove(input_buffer, S \X {now})
    OBVIOUS
  <2>2. TakenInput(loop, p) = take_input(b, p, now) /\ b = c
    BY <1>1, <1>3, <2>1 DEF TakenInput
  <2>3. CASE p \in S
    <3>1. key \notin DOMAIN c
      BY <1>5, <2>1, <2>3 DEF MapRemove, Restrict
    <3> QED
      BY <1>1, <2>2, <2>3, <3>1 DEF take_input
  <2>4. CASE p \notin S
    <3>1. key \in DOMAIN c <=> key \in DOMAIN input_buffer
      BY <1>5, <2>1, <2>4 DEF MapRemove, Restrict
    <3>2. key \in DOMAIN input_buffer => c[key] = input_buffer[key]
      BY <1>5, <2>1, <2>4 DEF MapRemove, Restrict
    <3>3. take_input(c, p, now) = take_input(input_buffer, p, now)
      BY <1>1, <3>1, <3>2 DEF take_input
    <3> QED
      BY <1>1, <2>2, <2>4, <3>3 DEF BufferedIntent
  <2> QED
    BY <2>3, <2>4
<1>7. TurnDirection(loop, p) = AppliedIntent(p)
  <2>1. PICK m : m = loop.last_known_intent
    OBVIOUS
  <2>2. m = IntentsAfter(S)
    BY <1>3, <2>1
  <2>3. CASE p \in S
    <3>1. MapGet(m, p, 0) = AppliedIntent(p)
      BY <2>2, <2>3 DEF MapGet, IntentsAfter
    <3> QED
      BY <1>6, <2>1, <2>3, <3>1 DEF TurnDirection
  <2>4. CASE p \notin S
    <3>1. MapGet(m, p, 0) = MapGet(last_known_intent, p, 0)
      BY <2>2, <2>4 DEF MapGet, IntentsAfter
    <3> QED
      BY <1>6, <2>1, <2>4, <3>1 DEF TurnDirection, AppliedIntent
  <2> QED
    BY <2>3, <2>4
<1>8. MapRemove(loop.input_buffer, {key}) = MapRemove(input_buffer, TurnsOf(n + 1) \X {now})
  <2>1. (S \cup {p}) \X {now} = (S \X {now}) \cup {key}
    BY <1>1
  <2>2. PICK T : T = S \X {now}
    OBVIOUS
  <2>3. MapRemove(MapRemove(input_buffer, T), {key}) = MapRemove(input_buffer, T \cup {key})
    <3>1. DOMAIN MapRemove(input_buffer, T) = DOMAIN input_buffer \ T
      BY DEF MapRemove, Restrict
    <3>2. (DOMAIN input_buffer \ T) \ {key} = DOMAIN input_buffer \ (T \cup {key})
      OBVIOUS
    <3>3. \A x \in DOMAIN input_buffer \ (T \cup {key}) :
              MapRemove(input_buffer, T)[x] = input_buffer[x]
      BY DEF MapRemove, Restrict
    <3> QED
      BY <3>1, <3>2, <3>3 DEF MapRemove, Restrict
  <2> QED
    BY <1>2, <1>3, <2>1, <2>2, <2>3
<1>9. MapInsert(loop.last_known_intent, p, AppliedIntent(p)) = IntentsAfter(TurnsOf(n + 1))
  <2>1. PICK m, v : m = IntentsAfter(S) /\ v = AppliedIntent(p)
    OBVIOUS
  <2>2. DOMAIN m = DOMAIN last_known_intent \cup S
    BY <2>1 DEF IntentsAfter
  <2>3. MapInsert(m, p, v) = IntentsAfter(S \cup {p})
    BY <2>1, <2>2 DEF MapInsert, IntentsAfter
  <2> QED
    BY <1>2, <1>3, <2>1, <2>3
<1>10. Append(loop.applied_inputs, AppliedInput(n + 1))
           = [i \in 1 .. n + 1 |-> AppliedInput(i)]
  <2>1. PICK s : s = [i \in 1 .. n |-> AppliedInput(i)]
    OBVIOUS
  <2>2. Len(s) = n
    BY <2>1
  <2>3. PICK A : A = {AppliedInput(i) : i \in 1 .. n + 1}
    OBVIOUS
  <2>4. s \in Seq(A) /\ AppliedInput(n + 1) \in A
    <3>1. \A i \in 1 .. n : i \in 1 .. n + 1
      OBVIOUS
    <3>2. s \in [1 .. n -> A]
      BY <2>1, <2>3, <3>1
    <3> QED
      BY <2>3, <3>2, SeqDef
  <2>5. PICK x, t : x = AppliedInput(n + 1) /\ t = [i \in 1 .. n + 1 |-> AppliedInput(i)]
    OBVIOUS
  <2>6. /\ Append(s, x) \in Seq(A)
        /\ Len(Append(s, x)) = n + 1
        /\ \A i \in 1 .. n : Append(s, x)[i] = s[i]
        /\ Append(s, x)[n + 1] = x
    BY <2>2, <2>4, <2>5, AppendProperties
  <2>7. Append(s, x) = t
    <3>1. \A i \in 1 .. n + 1 : Append(s, x)[i] = t[i]
      BY <2>1, <2>5, <2>6
    <3>2. /\ Append(s, x) = [i \in 1 .. n + 1 |-> Append(s, x)[i]]
          /\ t = [i \in 1 .. n + 1 |-> t[i]]
      BY <2>5, <2>6
    <3> QED
      BY <3>1, <3>2
  <2> QED
    BY <1>3, <2>1, <2>5, <2>7
<1>11. AppliedInput(n + 1) = [tick        |-> now,
                              player_id   |-> p,
                              move_dir    |-> TurnDirection(loop, p),
                              is_fallback |-> TakenInput(loop, p) = None]
  <2>1. (TakenInput(loop, p) = None)
            <=> (BufferedIntent(p) = None \/ ~IsFirstOccurrence(n + 1))
    BY <1>4, <1>6
  <2> QED
    BY <1>1, <1>7, <2>1 DEF AppliedInput
<1>12. ApplyInput(loop, p)
           = [input_buffer      |-> MapRemove(loop.input_buffer, {key}),
              last_known_intent |-> MapInsert(loop.last_known_intent, p, AppliedIntent(p)),
              applied_inputs    |-> Append(loop.applied_inputs, AppliedInput(n + 1))]
  <2> HIDE DEF loop
  <2> QED
    BY <1>1, <1>7, <1>11 DEF ApplyInput
<1>13. AfterTurns(n + 1)
           = [input_buffer      |-> MapRemove(input_buffer, TurnsOf(n + 1) \X {now}),
              last_known_intent |-> IntentsAfter(TurnsOf(n + 1)),
              applied_inputs    |-> [i \in 1 .. n + 1 |-> AppliedInput(i)]]
  BY <1>1 DEF AfterTurns
<1> HIDE DEF loop
<1>14. ApplyInput(loop, p) = AfterTurns(n + 1)
  BY <1>8, <1>9, <1>10, <1>12, <1>13, Zenon
<1> QED
  BY <1>1, <1>14 DEF loop

\* All the inputs the loop pushes, and the intents it leaves.
AppliedInputs == [i \in DOMAIN entity_spawn_order |-> AppliedInput(i)]

UpdatedIntents == IntentsAfter(SpawnedPlayers)

\* What the loop of step leaves: the taken inputs are gone, every spawned player holds
\* the intent of its turns, and AppliedInputs are pushed in spawn order.
LEMMA LoopResult ==
    ASSUME TypeOK
    PROVE  /\ InputLoop.input_buffer
                  = MapRemove(input_buffer, SpawnedPlayers \X {world.tick})
           /\ InputLoop.last_known_intent = UpdatedIntents
           /\ InputLoop.applied_inputs = AppliedInputs
<1> DEFINE N == Len(entity_spawn_order)
           Turn(f, n) == IF n = 0 THEN BeforeLoop
                         ELSE ApplyInput(f[n - 1], entity_spawn_order[n])
           after  == CHOOSE f : f = [n \in 0 .. N |-> Turn(f, n)]
           closed == [n \in 0 .. N |-> AfterTurns(n)]
<1>1. InputLoop = after[N]
  BY DEF InputLoop
<1>2. N \in Nat /\ DOMAIN entity_spawn_order = 1 .. N
  BY DEF TypeOK, SpawnTypeOK
<1>3. AfterTurns(0) = BeforeLoop
  <2>1. TurnsOf(0) = {}
    BY DEF TurnsOf
  <2>2. MapRemove(input_buffer, {} \X {world.tick}) = input_buffer
    BY DEF MapRemove, Restrict, TypeOK, BufferTypeOK
  <2>3. IntentsAfter({}) = last_known_intent
    BY DEF IntentsAfter, TypeOK, IntentTypeOK
  <2>4. [i \in 1 .. 0 |-> AppliedInput(i)] = << >>
    OBVIOUS
  <2> QED
    BY <2>1, <2>2, <2>3, <2>4 DEF AfterTurns, BeforeLoop
<1>4. closed = [n \in 0 .. N |-> Turn(closed, n)]
  <2>1. ASSUME NEW n \in 0 .. N PROVE AfterTurns(n) = Turn(closed, n)
    <3>1. CASE n = 0
      BY <1>3, <3>1
    <3>2. CASE n # 0
      <4>1. n - 1 \in Nat /\ n - 1 \in 0 .. N /\ n - 1 + 1 = n /\ n - 1 + 1 <= N
        BY <1>2, <3>2
      <4>2. ApplyInput(AfterTurns(n - 1), entity_spawn_order[n]) = AfterTurns(n)
        BY <4>1, OneMoreTurn
      <4> QED
        BY <3>2, <4>1, <4>2
    <3> QED
      BY <3>1, <3>2
  <2> HIDE DEF Turn
  <2> QED
    BY <2>1
<1>5. after = [n \in 0 .. N |-> Turn(after, n)]
  <2> HIDE DEF Turn, closed
  <2> QED
    BY <1>4
<1> HIDE DEF after
<1>6. Nat \subseteq {n \in Nat : n <= N => after[n] = AfterTurns(n)}
  <2> DEFINE S == {n \in Nat : n <= N => after[n] = AfterTurns(n)}
  <2>1. 0 \in S
    <3>1. after[0] = BeforeLoop
      BY <1>2, <1>5
    <3> QED
      BY <1>3, <3>1
  <2>2. ASSUME NEW n \in Nat, n \in S PROVE n + 1 \in S
    <3>1. SUFFICES ASSUME n + 1 <= N PROVE after[n + 1] = AfterTurns(n + 1)
      OBVIOUS
    <3>2. after[n] = AfterTurns(n)
      BY <1>2, <2>2, <3>1
    <3>3. n + 1 \in 0 .. N /\ n + 1 # 0 /\ n + 1 - 1 = n
      BY <1>2, <3>1
    <3>4. after[n + 1] = ApplyInput(after[n], entity_spawn_order[n + 1])
      BY <1>5, <3>3
    <3> QED
      BY <3>1, <3>2, <3>4, OneMoreTurn
  <2> HIDE DEF S
  <2>3. Nat \subseteq S
    BY <2>1, <2>2, SetInduction
  <2> QED
    BY <2>3 DEF S
<1>7. InputLoop = AfterTurns(N)
  BY <1>1, <1>2, <1>6
<1>8. TurnsOf(N) = SpawnedPlayers
  BY <1>2 DEF TurnsOf, SpawnedPlayers
<1> QED
  BY <1>2, <1>7, <1>8 DEF AfterTurns, UpdatedIntents, AppliedInputs

\* step in terms of the loop's result.
LEMMA StepResult ==
    ASSUME TypeOK, step
    PROVE  /\ replay_recorder' = record_inputs(BaselinedRecorder, AppliedInputs)
           /\ last_known_intent' = UpdatedIntents
           /\ world' = advance(world, AppliedInputs)
           /\ input_buffer' =
                  evict_before(MapRemove(input_buffer, SpawnedPlayers \X {world.tick}),
                               world.tick + 1)
BY LoopResult DEF step

\* A player's intent for the tick is a unit direction, buffered or held.
LEMMA AppliedIntentType ==
    ASSUME TypeOK, NEW p \in PlayerIds
    PROVE  AppliedIntent(p) \in UnitDirs
<1>1. MapGet(last_known_intent, p, 0) \in UnitDirs
  BY DEF MapGet, TypeOK, IntentTypeOK, UnitDirs
<1>2. ASSUME BufferedIntent(p) # None
      PROVE  BufferedIntent(p).move_dir \in UnitDirs
  <2>1. /\ <<p, world.tick>> \in DOMAIN input_buffer
        /\ BufferedIntent(p) = input_buffer[<<p, world.tick>>].selected
    BY <1>2 DEF BufferedIntent, take_input
  <2>2. input_buffer[<<p, world.tick>>] \in EntryRecords
    BY <2>1 DEF TypeOK, BufferTypeOK
  <2> QED
    BY <2>1, <2>2 DEF EntryRecords, InputRecords
<1> QED
  BY <1>1, <1>2 DEF AppliedIntent

\* The applied inputs of a step are one typed record per spawned player.
LEMMA AppliedInputsType ==
    ASSUME TypeOK
    PROVE  /\ AppliedInputs \in Seq(AppliedRecords)
           /\ DOMAIN AppliedInputs = DOMAIN entity_spawn_order
           /\ \A i \in DOMAIN AppliedInputs :
                  /\ AppliedInputs[i] \in AppliedRecords
                  /\ AppliedInputs[i].tick = world.tick
                  /\ AppliedInputs[i].player_id = entity_spawn_order[i]
                  /\ AppliedInputs[i].move_dir = AppliedIntent(entity_spawn_order[i])
<1> DEFINE n == Len(entity_spawn_order)
<1>1. n \in Nat /\ DOMAIN entity_spawn_order = 1 .. n
  BY DEF TypeOK, SpawnTypeOK
<1>2. ASSUME NEW i \in DOMAIN entity_spawn_order
      PROVE  /\ AppliedInputs[i] \in AppliedRecords
             /\ AppliedInputs[i].tick = world.tick
             /\ AppliedInputs[i].player_id = entity_spawn_order[i]
             /\ AppliedInputs[i].move_dir = AppliedIntent(entity_spawn_order[i])
  <2> DEFINE p  == entity_spawn_order[i]
             fb == BufferedIntent(p) = None \/ ~IsFirstOccurrence(i)
  <2>1. p \in PlayerIds
    BY DEF TypeOK, SpawnTypeOK
  <2>2. AppliedIntent(p) \in UnitDirs
    BY <2>1, AppliedIntentType
  <2>3. AppliedInputs[i] = [tick |-> world.tick, player_id |-> p,
                            move_dir |-> AppliedIntent(p), is_fallback |-> fb]
    BY DEF AppliedInputs, AppliedInput
  <2>4. fb \in BOOLEAN
    OBVIOUS
  <2>5. world.tick \in Nat
    BY DEF TypeOK, WorldTypeOK
  <2> HIDE DEF p, fb
  <2>6. AppliedInputs[i] \in AppliedRecords
    BY <2>1, <2>2, <2>3, <2>4, <2>5 DEF AppliedRecords
  <2>7. /\ AppliedInputs[i].tick = world.tick
        /\ AppliedInputs[i].player_id = p
        /\ AppliedInputs[i].move_dir = AppliedIntent(p)
    BY <2>3
  <2> QED
    BY <2>6, <2>7 DEF p
<1>3. DOMAIN AppliedInputs = DOMAIN entity_spawn_order
  BY DEF AppliedInputs
<1>4. AppliedInputs \in [1 .. n -> AppliedRecords]
  <2>1. AppliedInputs = [i \in DOMAIN AppliedInputs |-> AppliedInputs[i]]
    BY DEF AppliedInputs
  <2> QED
    BY <1>1, <1>2, <1>3, <2>1
<1>5. AppliedInputs \in Seq(AppliedRecords)
  BY <1>1, <1>4, SeqDef
<1> QED
  BY <1>2, <1>3, <1>5

\* Advancing by typed inputs keeps the characters and their type.
LEMMA AdvanceType ==
    ASSUME WorldTypeOK, NEW inputs \in Seq(AppliedRecords)
    PROVE  LET w == advance(world, inputs) IN
           /\ w = [tick           |-> w.tick,
                   next_entity_id |-> w.next_entity_id,
                   characters     |-> w.characters]
           /\ w.tick = world.tick + 1
           /\ w.next_entity_id = world.next_entity_id
           /\ w.characters \in [1 .. world.next_entity_id - 1 ->
                  [player_id : PlayerIds, position : Int, velocity : UnitDirs]]
<1> DEFINE Chars == [player_id : PlayerIds, position : Int, velocity : UnitDirs]
           moved == [e \in DOMAIN world.characters |-> apply_movement(world, inputs, e)]
<1>1. ASSUME NEW e \in DOMAIN world.characters
      PROVE  apply_movement(world, inputs, e) \in Chars
  <2> DEFINE c    == world.characters[e]
             mine == {i \in DOMAIN inputs : inputs[i].player_id = c.player_id}
             dir  == clamp_magnitude(inputs[CHOOSE i \in mine : TRUE].move_dir)
  <2>1. c \in Chars
    BY DEF WorldTypeOK
  <2>2. CASE mine = {} \/ ~IsFirstOfPlayer(world, e)
    BY <2>1, <2>2 DEF apply_movement
  <2>3. CASE mine # {} /\ IsFirstOfPlayer(world, e)
    <3> DEFINE one == CHOOSE i \in mine : TRUE
    <3>1. one \in DOMAIN inputs
      BY <2>3
    <3>2. inputs[one].move_dir \in Int
      <4> HIDE DEF one
      <4>1. inputs[one] \in AppliedRecords
        BY <3>1
      <4> QED
        BY <4>1 DEF AppliedRecords, UnitDirs
    <3>3. dir \in UnitDirs /\ dir \in Int
      BY <3>2, ClampIsUnit DEF UnitDirs
    <3>4. Cardinality(mine) \in Nat
      <4>1. IsFiniteSet(DOMAIN inputs)
        BY FS_Interval
      <4> QED
        BY <4>1, FS_Subset, FS_CardinalityType
    <3>5. apply_movement(world, inputs, e)
              = [c EXCEPT !.velocity = dir, !.position = @ + Cardinality(mine) * dir]
      BY <2>3 DEF apply_movement
    <3> HIDE DEF c, mine, dir
    <3>6. c.position + Cardinality(mine) * dir \in Int
      BY <2>1, <3>3, <3>4
    <3> QED
      BY <2>1, <3>3, <3>5, <3>6
  <2> QED
    BY <2>2, <2>3
<1>2. DOMAIN world.characters = 1 .. world.next_entity_id - 1
  BY DEF WorldTypeOK
<1>3. moved \in [1 .. world.next_entity_id - 1 -> Chars]
  BY <1>1, <1>2
<1>4. advance(world, inputs) = [tick           |-> world.tick + 1,
                                next_entity_id |-> world.next_entity_id,
                                characters     |-> moved]
  <2>1. PICK t, n, cs : world = [tick |-> t, next_entity_id |-> n, characters |-> cs]
    BY DEF WorldTypeOK
  <2>2. /\ world.tick = t
        /\ world.next_entity_id = n
        /\ world.characters = cs
    BY <2>1
  <2>3. advance(world, inputs) = [world EXCEPT !.tick = @ + 1, !.characters = moved]
    BY DEF advance
  <2> HIDE DEF moved
  <2> QED
    BY <2>1, <2>2, <2>3
<1> HIDE DEF moved
<1> QED
  BY <1>3, <1>4

-----------------------------------------------------------------------------
(***************************************************************************)
(* Type correctness, action by action.                                     *)
(***************************************************************************)

\* A new server is typed.
LEMMA InitTypeOK == ServerInit => TypeOK
<1> SUFFICES ASSUME ServerInit PROVE TypeOK
  OBVIOUS
<1> USE DEF ServerInit
<1>1. WorldTypeOK
  BY DEF WorldTypeOK, world_new, EmptyMap
<1>2. IdentityTypeOK
  BY ServerConfigAssumption DEF IdentityTypeOK, EmptyMap, PlayerIds
<1>3. BufferTypeOK /\ IntentTypeOK /\ FloorTypeOK
  BY DEF BufferTypeOK, IntentTypeOK, FloorTypeOK, EmptyMap
<1>4. SpawnTypeOK
  BY DEF SpawnTypeOK, EmptyMap
<1>5. RecorderTypeOK
  <2>1. baseline_recorded \in BOOLEAN /\ status \in {"running", "finalized", "panicked"}
    OBVIOUS
  <2>2. << >> \in Seq(PlayerIds) /\ << >> \in Seq(SpawnRecords)
        /\ << >> \in Seq(AppliedRecords)
    BY EmptySeq
  <2>3. replay_recorder = [entity_spawn_order |-> << >>, player_entity_mapping |-> << >>,
                           initial_baseline |-> None, inputs |-> << >>,
                           build_fingerprint |-> None]
    BY DEF recorder_new
  <2> QED
    BY <2>1, <2>2, <2>3 DEF RecorderTypeOK
<1> QED
  BY <1>1, <1>2, <1>3, <1>4, <1>5 DEF TypeOK

\* The id given to an accepted session is a player id.
LEMMA AssignedPlayerIdType ==
    ASSUME TypeOK, ~AcceptPanics
    PROVE  AssignedPlayerId \in PlayerIds
<1>1. CASE test_player_ids = None
  BY <1>1 DEF AssignedPlayerId, TypeOK, IdentityTypeOK
<1>2. CASE test_player_ids # None
  <2>1. test_player_ids \in Seq(PlayerIds)
    BY <1>2, ServerConfigAssumption
  <2>2. next_player_id \in Nat
    BY ServerConfigAssumption DEF TypeOK, IdentityTypeOK, PlayerIds
  <2>3. next_player_id + 1 \in 1 .. Len(test_player_ids)
    BY <1>2, <2>1, <2>2 DEF AcceptPanics
  <2> QED
    BY <1>2, <2>1, <2>3 DEF AssignedPlayerId
<1> QED
  BY <1>1, <1>2

\* accept_session keeps every type; one step per group of fields.
LEMMA AcceptTypeOK == TypeOK /\ accept_session => TypeOK'
<1> SUFFICES ASSUME TypeOK, accept_session PROVE TypeOK'
  OBVIOUS
<1> DEFINE p   == AssignedPlayerId
           sid == next_session_id
           e   == world.next_entity_id
<1>1. p \in PlayerIds
  BY AssignedPlayerIdType DEF accept_session
<1>2. sid \in Nat \ {0} /\ e \in Nat \ {0}
  BY DEF TypeOK, IdentityTypeOK, WorldTypeOK
<1>3. WorldTypeOK'
  <2>1. PICK t, n, cs : world = [tick |-> t, next_entity_id |-> n, characters |-> cs]
    BY DEF TypeOK, WorldTypeOK
  <2>2. world' = [tick |-> t, next_entity_id |-> n + 1,
                  characters |-> MapInsert(cs, n, Character(p))]
    BY <2>1 DEF accept_session, spawn_character
  <2>3. /\ t \in Nat
        /\ n \in Nat \ {0}
        /\ cs \in [1 .. n - 1 ->
                     [player_id : PlayerIds, position : Int, velocity : UnitDirs]]
    BY <2>1 DEF TypeOK, WorldTypeOK
  <2>4. Character(p) \in [player_id : PlayerIds, position : Int, velocity : UnitDirs]
    BY <1>1 DEF Character, UnitDirs
  <2>5. (1 .. n - 1) \cup {n} = 1 .. (n + 1) - 1
    BY <2>3
  <2> HIDE DEF p
  <2>6. MapInsert(cs, n, Character(p)) \in
            [1 .. (n + 1) - 1 -> [player_id : PlayerIds, position : Int, velocity : UnitDirs]]
    BY <2>3, <2>4, <2>5 DEF MapInsert
  <2> QED
    BY <2>2, <2>3, <2>6 DEF WorldTypeOK
<1>4. IdentityTypeOK'
  <2> DEFINE session == [player_id |-> p, controlled_entity_id |-> e]
  <2>1. /\ next_session_id' = sid + 1
        /\ next_player_id' = (next_player_id + 1) % PlayerIdModulus
        /\ sessions' = MapInsert(sessions, sid, session)
        /\ player_sessions' = MapInsert(player_sessions, p, sid)
        /\ session_players' = MapInsert(session_players, sid, p)
    BY DEF accept_session
  <2>2. next_player_id' \in PlayerIds
    BY <2>1, ServerConfigAssumption DEF TypeOK, IdentityTypeOK, PlayerIds
  <2>3. session \in [player_id : PlayerIds, controlled_entity_id : Nat \ {0}]
    BY <1>1, <1>2
  <2> HIDE DEF p, sid, e, session
  <2>4. /\ DOMAIN sessions' = DOMAIN sessions \cup {sid}
        /\ sessions' \in [DOMAIN sessions' ->
                [player_id : PlayerIds, controlled_entity_id : Nat \ {0}]]
    BY <2>1, <2>3 DEF TypeOK, IdentityTypeOK, MapInsert
  <2>5. DOMAIN sessions' \subseteq 1 .. next_session_id' - 1
    BY <1>2, <2>1, <2>4 DEF TypeOK, IdentityTypeOK, sid
  <2>6. /\ DOMAIN player_sessions' \subseteq PlayerIds
        /\ player_sessions' \in [DOMAIN player_sessions' -> Nat \ {0}]
    BY <1>1, <1>2, <2>1 DEF TypeOK, IdentityTypeOK, MapInsert
  <2>7. session_players' \in [DOMAIN sessions' -> PlayerIds]
    BY <1>1, <2>1, <2>4 DEF TypeOK, IdentityTypeOK, MapInsert
  <2> QED
    BY <1>2, <2>1, <2>2, <2>4, <2>5, <2>6, <2>7 DEF IdentityTypeOK
<1>5. BufferTypeOK'
  BY DEF accept_session, TypeOK, BufferTypeOK
<1>6. IntentTypeOK'
  <2>1. last_known_intent' = MapInsert(last_known_intent, p, 0)
    BY DEF accept_session
  <2> HIDE DEF p
  <2> QED
    BY <1>1, <2>1 DEF TypeOK, IntentTypeOK, MapInsert, UnitDirs
<1>7. FloorTypeOK'
  <2>1. DOMAIN sessions \subseteq DOMAIN sessions'
    BY DEF accept_session, MapInsert
  <2> QED
    BY <2>1 DEF accept_session, TypeOK, FloorTypeOK
<1>8. SpawnTypeOK'
  <2>1. /\ entity_spawn_order' = Append(entity_spawn_order, p)
        /\ player_entity_mapping' = MapInsert(player_entity_mapping, p, e)
    BY DEF accept_session
  <2> HIDE DEF p, e
  <2> QED
    BY <1>1, <1>2, <2>1 DEF TypeOK, SpawnTypeOK, MapInsert
<1>9. RecorderTypeOK'
  <2> DEFINE r == replay_recorder
             m == [player_id |-> p, entity_id |-> e]
  <2>1. replay_recorder' = [r EXCEPT !.entity_spawn_order = Append(@, p),
                                     !.player_entity_mapping = Append(@, m)]
    BY DEF accept_session, record_spawn
  <2>2. m \in SpawnRecords
    BY <1>1, <1>2 DEF SpawnRecords
  <2>3. baseline_recorded' = baseline_recorded /\ status' = status
    BY DEF accept_session
  <2> HIDE DEF p, e, m
  <2>4. replay_recorder' =
            [entity_spawn_order    |-> Append(r.entity_spawn_order, p),
             player_entity_mapping |-> Append(r.player_entity_mapping, m),
             initial_baseline      |-> r.initial_baseline,
             inputs                |-> r.inputs,
             build_fingerprint     |-> r.build_fingerprint]
    <3>1. PICK a, b, c, d, f :
              r = [entity_spawn_order |-> a, player_entity_mapping |-> b,
                   initial_baseline |-> c, inputs |-> d, build_fingerprint |-> f]
      BY DEF TypeOK, RecorderTypeOK
    <3> QED
      BY <2>1, <3>1
  <2>5. /\ Append(r.entity_spawn_order, p) \in Seq(PlayerIds)
        /\ Append(r.player_entity_mapping, m) \in Seq(SpawnRecords)
    BY <1>1, <2>2 DEF TypeOK, RecorderTypeOK
  <2> QED
    BY <2>3, <2>4, <2>5 DEF TypeOK, RecorderTypeOK
<1> QED
  BY <1>3, <1>4, <1>5, <1>6, <1>7, <1>8, <1>9 DEF TypeOK

\* A panic of accept_session changes nothing but the status.
LEMMA PanicTypeOK == TypeOK /\ accept_session_fails => TypeOK'
BY DEF accept_session_fails, Panic, TypeOK, WorldTypeOK, IdentityTypeOK, BufferTypeOK,
       IntentTypeOK, FloorTypeOK, SpawnTypeOK, RecorderTypeOK, identity_vars, spawn_vars

\* finalize only reads what it puts into the artifact.
LEMMA FinalizeTypeOK == TypeOK /\ finalize => TypeOK'
BY DEF finalize, TypeOK, WorldTypeOK, IdentityTypeOK, BufferTypeOK,
       IntentTypeOK, FloorTypeOK, SpawnTypeOK, RecorderTypeOK, identity_vars, spawn_vars

\* A step that changes nothing keeps every type.
LEMMA StutterTypeOK == TypeOK /\ UNCHANGED server_vars => TypeOK'
BY DEF TypeOK, WorldTypeOK, IdentityTypeOK, BufferTypeOK, IntentTypeOK, FloorTypeOK,
       SpawnTypeOK, RecorderTypeOK, server_vars, identity_vars, spawn_vars

\* welcome_for only writes the session's floor.
LEMMA WelcomeTypeOK ==
    ASSUME TypeOK, NEW sid \in SessionIds, welcome_for(sid)
    PROVE  TypeOK'
<1>1. target_tick_floor(world.tick) \in Nat
  BY ServerConfigAssumption DEF target_tick_floor, TypeOK, WorldTypeOK
<1>2. FloorTypeOK'
  BY <1>1 DEF welcome_for, identity_vars, TypeOK, FloorTypeOK, MapInsert
<1>3. WorldTypeOK' /\ IdentityTypeOK' /\ BufferTypeOK' /\ IntentTypeOK' /\ SpawnTypeOK'
  BY DEF welcome_for, TypeOK, WorldTypeOK, IdentityTypeOK, BufferTypeOK, IntentTypeOK,
         SpawnTypeOK, identity_vars, spawn_vars
<1>4. RecorderTypeOK'
  BY DEF welcome_for, TypeOK, RecorderTypeOK
<1> QED
  BY <1>2, <1>3, <1>4 DEF TypeOK

\* disconnect_session removes one session from every map that names it.
LEMMA DisconnectTypeOK ==
    ASSUME TypeOK, NEW sid \in SessionIds, disconnect_session(sid)
    PROVE  TypeOK'
<1> DEFINE p == sessions[sid].player_id
<1>1. p \in PlayerIds
  BY DEF disconnect_session, TypeOK, IdentityTypeOK
<1>2. /\ sessions' = MapRemove(sessions, {sid})
      /\ session_players' = MapRemove(session_players, {sid})
      /\ last_emitted_floor' = MapRemove(last_emitted_floor, {sid})
      /\ player_sessions' = MapRemove(player_sessions, {p})
      /\ last_known_intent' = MapInsert(last_known_intent, p, 0)
      /\ next_session_id' = next_session_id
      /\ next_player_id' = next_player_id
  BY DEF disconnect_session
<1> HIDE DEF p
<1>3. IdentityTypeOK'
  BY <1>2 DEF TypeOK, IdentityTypeOK, MapRemove, Restrict
<1>4. IntentTypeOK'
  BY <1>1, <1>2 DEF TypeOK, IntentTypeOK, MapInsert, UnitDirs
<1>5. FloorTypeOK'
  BY <1>2 DEF TypeOK, FloorTypeOK, MapRemove, Restrict
<1>6. WorldTypeOK' /\ BufferTypeOK' /\ SpawnTypeOK'
  BY DEF disconnect_session, TypeOK, WorldTypeOK, BufferTypeOK, SpawnTypeOK, spawn_vars
<1>7. RecorderTypeOK'
  BY DEF disconnect_session, TypeOK, RecorderTypeOK
<1> QED
  BY <1>3, <1>4, <1>5, <1>6, <1>7 DEF TypeOK

\* Whatever may arrive as an input; InputCmd is a part of it.
AnyInput == [tick : Nat, input_seq : Nat, move_dir : Int \cup {Malformed}]

\* The inputs the server is checked with are inputs.
LEMMA InputCmdIsInput == InputCmd \subseteq AnyInput
BY InputAssumption DEF InputCmd, AnyInput

\* What an accepted or dropped input leaves in the buffer: at most one new key,
\* that of a well-formed input aimed into the window.
LEMMA ReceiveBuffer ==
    ASSUME TypeOK, NEW sid \in SessionIds, NEW input \in AnyInput,
           receive_input(sid, input)
    PROVE  \/ input_buffer' = input_buffer
           \/ /\ BufferTypeOK'
              /\ DOMAIN input_buffer' =
                     DOMAIN input_buffer \cup {<<session_players[sid], input.tick>>}
              /\ input.tick \in world.tick .. world.tick + max_future_ticks
<1> DEFINE p     == session_players[sid]
           floor == MapGet(last_emitted_floor, sid, 0)
<1>1. p \in PlayerIds
  BY DEF receive_input, TypeOK, IdentityTypeOK
<1>2. input_buffer' = validate_input(input, world.tick, floor, input_buffer, p)
  BY DEF receive_input
<1>3. CASE Verdict(input, world.tick, floor) # "Bufferable"
  BY <1>2, <1>3 DEF validate_input
<1>4. CASE Verdict(input, world.tick, floor) = "Bufferable"
  <2>1. /\ input.move_dir # Malformed
        /\ ~(input.tick < world.tick)
        /\ ~(input.tick > world.tick + max_future_ticks)
    BY <1>4 DEF Verdict
  <2>2. input \in [tick : Nat, input_seq : Nat, move_dir : Int]
    BY <2>1 DEF AnyInput
  <2>3. input_buffer' = try_buffer(input_buffer, p, input)
    BY <1>2, <1>4 DEF validate_input
  <2>4. input.tick \in world.tick .. world.tick + max_future_ticks
    BY <2>1, <2>2, ValidationConfigAssumption DEF TypeOK, WorldTypeOK
  <2> HIDE DEF p
  <2>5. /\ DOMAIN input_buffer' \subseteq PlayerIds \X Nat
        /\ input_buffer' \in [DOMAIN input_buffer' -> EntryRecords]
        /\ DOMAIN input_buffer' = DOMAIN input_buffer \cup {<<p, input.tick>>}
    BY <1>1, <2>2, <2>3, TryBufferType DEF TypeOK
  <2> QED
    BY <2>4, <2>5 DEF BufferTypeOK, p
<1> QED
  BY <1>3, <1>4

\* receive_input only writes the buffer.
LEMMA ReceiveTypeOK ==
    ASSUME TypeOK, NEW sid \in SessionIds, NEW input \in AnyInput,
           receive_input(sid, input)
    PROVE  TypeOK'
<1>1. BufferTypeOK'
  BY ReceiveBuffer DEF TypeOK, BufferTypeOK
<1>2. WorldTypeOK' /\ IdentityTypeOK' /\ IntentTypeOK' /\ FloorTypeOK' /\ SpawnTypeOK'
  BY DEF receive_input, TypeOK, WorldTypeOK, IdentityTypeOK, IntentTypeOK, FloorTypeOK,
         SpawnTypeOK, identity_vars, spawn_vars
<1>3. RecorderTypeOK'
  BY DEF receive_input, TypeOK, RecorderTypeOK
<1> QED
  BY <1>1, <1>2, <1>3 DEF TypeOK

\* set_build_fingerprint only writes the recorder's fingerprint.
LEMMA FingerprintTypeOK ==
    ASSUME TypeOK, NEW f, set_build_fingerprint(f)
    PROVE  TypeOK'
<1>1. RecorderTypeOK'
  <2>1. PICK a, b, c, d, g :
            replay_recorder = [entity_spawn_order |-> a, player_entity_mapping |-> b,
                               initial_baseline |-> c, inputs |-> d, build_fingerprint |-> g]
    BY DEF TypeOK, RecorderTypeOK
  <2>2. replay_recorder' = [entity_spawn_order |-> a, player_entity_mapping |-> b,
                            initial_baseline |-> c, inputs |-> d, build_fingerprint |-> f]
    BY <2>1 DEF set_build_fingerprint, record_fingerprint
  <2>3. baseline_recorded' = baseline_recorded /\ status' = status
    BY DEF set_build_fingerprint
  <2> QED
    BY <2>1, <2>2, <2>3 DEF TypeOK, RecorderTypeOK
<1>2. /\ WorldTypeOK' /\ IdentityTypeOK' /\ BufferTypeOK'
      /\ IntentTypeOK' /\ FloorTypeOK' /\ SpawnTypeOK'
  BY DEF set_build_fingerprint, TypeOK, WorldTypeOK, IdentityTypeOK, BufferTypeOK,
         IntentTypeOK, FloorTypeOK, SpawnTypeOK, identity_vars, spawn_vars
<1> QED
  BY <1>1, <1>2 DEF TypeOK

\* step: what it does to the world, the floors and the buffer's keys.
LEMMA StepEffect ==
    ASSUME TypeOK, step
    PROVE  /\ WorldTypeOK'
           /\ world'.tick = world.tick + 1
           /\ world'.next_entity_id = world.next_entity_id
           /\ DOMAIN last_emitted_floor' = DOMAIN sessions
           /\ \A sid \in DOMAIN sessions :
                  last_emitted_floor'[sid] = world.tick + 1 + input_lead_ticks
           /\ BufferTypeOK'
           /\ \A key \in DOMAIN input_buffer' :
                  key \in DOMAIN input_buffer /\ key[2] >= world.tick + 1
<1>1. /\ WorldTypeOK'
      /\ world'.tick = world.tick + 1
      /\ world'.next_entity_id = world.next_entity_id
  <2>1. world' = advance(world, AppliedInputs)
    BY StepResult
  <2>2. AppliedInputs \in Seq(AppliedRecords) /\ WorldTypeOK
    BY AppliedInputsType DEF TypeOK
  <2> QED
    BY <2>1, <2>2, AdvanceType DEF WorldTypeOK
<1>2. /\ DOMAIN last_emitted_floor' = DOMAIN sessions
      /\ \A sid \in DOMAIN sessions :
             last_emitted_floor'[sid] = world.tick + 1 + input_lead_ticks
  BY DEF step, FloorsAfterStep, target_tick_floor, TypeOK, FloorTypeOK
<1>3. /\ DOMAIN input_buffer' \subseteq DOMAIN input_buffer
      /\ \A key \in DOMAIN input_buffer' :
             key[2] >= world.tick + 1 /\ input_buffer'[key] = input_buffer[key]
      /\ input_buffer' = [key \in DOMAIN input_buffer' |-> input_buffer'[key]]
  BY StepResult DEF evict_before, MapRemove, Restrict
<1>4. BufferTypeOK'
  <2>1. \A key \in DOMAIN input_buffer' : input_buffer'[key] \in EntryRecords
    BY <1>3 DEF TypeOK, BufferTypeOK
  <2> QED
    BY <1>3, <2>1 DEF TypeOK, BufferTypeOK
<1> QED
  BY <1>1, <1>2, <1>3, <1>4

\* step keeps every type.
LEMMA StepTypeOK == TypeOK /\ step => TypeOK'
<1> SUFFICES ASSUME TypeOK, step PROVE TypeOK'
  OBVIOUS
<1>1. WorldTypeOK' /\ BufferTypeOK'
  BY StepEffect
<1>2. IdentityTypeOK' /\ SpawnTypeOK'
  BY DEF step, TypeOK, IdentityTypeOK, SpawnTypeOK, identity_vars, spawn_vars
<1>3. FloorTypeOK'
  <2>1. world.tick + 1 + input_lead_ticks \in Nat
    BY ServerConfigAssumption DEF TypeOK, WorldTypeOK
  <2>2. last_emitted_floor' = [s \in DOMAIN last_emitted_floor' |-> last_emitted_floor'[s]]
    BY DEF step, FloorsAfterStep
  <2>3. sessions' = sessions
    BY DEF step, identity_vars
  <2>4. /\ DOMAIN last_emitted_floor' = DOMAIN sessions
        /\ \A sid \in DOMAIN sessions : last_emitted_floor'[sid] \in Nat
    BY <2>1, StepEffect
  <2> QED
    BY <2>2, <2>3, <2>4 DEF FloorTypeOK
<1>4. IntentTypeOK'
  <2>1. SpawnedPlayers \subseteq PlayerIds
    BY DEF SpawnedPlayers, TypeOK, SpawnTypeOK
  <2>2. \A p \in SpawnedPlayers : AppliedIntent(p) \in UnitDirs
    BY <2>1, AppliedIntentType
  <2>3. last_known_intent' = UpdatedIntents
    BY StepResult
  <2> QED
    BY <2>1, <2>2, <2>3 DEF UpdatedIntents, IntentsAfter, TypeOK, IntentTypeOK
<1>5. RecorderTypeOK'
  <2>1. PICK a, b, c, d, g :
            replay_recorder = [entity_spawn_order |-> a, player_entity_mapping |-> b,
                               initial_baseline |-> c, inputs |-> d, build_fingerprint |-> g]
    BY DEF TypeOK, RecorderTypeOK
  <2>2. /\ a \in Seq(PlayerIds)
        /\ b \in Seq(SpawnRecords)
        /\ d \in Seq(AppliedRecords)
    BY <2>1 DEF TypeOK, RecorderTypeOK
  <2>3. PICK c2 : BaselinedRecorder =
            [entity_spawn_order |-> a, player_entity_mapping |-> b,
             initial_baseline |-> c2, inputs |-> d, build_fingerprint |-> g]
    BY <2>1 DEF BaselinedRecorder, record_baseline
  <2>4. replay_recorder' =
            [entity_spawn_order |-> a, player_entity_mapping |-> b, initial_baseline |-> c2,
             inputs |-> d \o AppliedInputs, build_fingerprint |-> g]
    BY <2>3, StepResult DEF record_inputs
  <2>5. d \o AppliedInputs \in Seq(AppliedRecords)
    BY <2>2, AppliedInputsType, ConcatProperties
  <2>6. baseline_recorded' \in BOOLEAN /\ status' \in {"running", "finalized", "panicked"}
    BY DEF step
  <2> QED
    BY <2>2, <2>4, <2>5, <2>6 DEF RecorderTypeOK
<1> QED
  BY <1>1, <1>2, <1>3, <1>4, <1>5 DEF TypeOK

\* Every operation keeps every type.
LEMMA NextTypeOK == TypeOK /\ [ServerNext]_server_vars => TypeOK'
<1> SUFFICES ASSUME TypeOK, [ServerNext]_server_vars PROVE TypeOK'
  OBVIOUS
<1>1. CASE accept_session
  BY <1>1, AcceptTypeOK
<1>2. CASE accept_session_fails
  BY <1>2, PanicTypeOK
<1>3. CASE \E sid \in SessionIds : welcome_for(sid)
  BY <1>3, WelcomeTypeOK
<1>4. CASE \E sid \in SessionIds : disconnect_session(sid)
  BY <1>4, DisconnectTypeOK
<1>5. CASE \E sid \in SessionIds, input \in InputCmd : receive_input(sid, input)
  BY <1>5, ReceiveTypeOK, InputCmdIsInput
<1>6. CASE step
  BY <1>6, StepTypeOK
<1>7. CASE finalize
  BY <1>7, FinalizeTypeOK
<1>8. CASE \E f \in Fingerprints : set_build_fingerprint(f)
  BY <1>8, FingerprintTypeOK
<1>9. CASE Stopped \/ UNCHANGED server_vars
  BY <1>9, StutterTypeOK DEF Stopped
<1> QED
  BY <1>1, <1>2, <1>3, <1>4, <1>5, <1>6, <1>7, <1>8, <1>9 DEF ServerNext

\* Every reachable server state is well typed, and no direction it stores
\* exceeds magnitude 1, whatever clients send.
THEOREM TypeCorrect == ServerSpec => []TypeOK
<1>1. ServerInit => TypeOK
  BY InitTypeOK
<1>2. TypeOK /\ [ServerNext]_server_vars => TypeOK'
  BY NextTypeOK
<1> QED
  BY <1>1, <1>2, PTL DEF ServerSpec
=============================================================================
