# Flowstate: a TLA+ model of the match server

Flowstate is a small authoritative multiplayer game: a Rust server simulates a
match at a fixed tick rate, clients (a Rust test client and a Godot client) send
movement inputs aimed at future ticks, and the server broadcasts snapshots and
writes a replay artifact that can be verified by re-simulation. This directory
holds TLA+ modules that model the server process from start to exit, the replay
verifier, both clients and the packets between them, TLC configurations that check them, and TLAPS proofs.

## The system

| Component | State | Operations | Talks to |
|---|---|---|---|
| Simulation core, `crates/sim` | tick, characters, next entity id | `spawn_character`, `advance`, `baseline`, `state_digest` | called by the server and the verifier |
| Input buffer and validation, `crates/server/src/{input_buffer,validation}.rs` | one entry per (player, tick): selected input, greatest sequence number, tie flag, count | `validate_input`, `try_buffer`, `take_input`, `evict_before` | owned by the server |
| Server Edge, `crates/server/src/lib.rs` | world, sessions and their id maps, input buffer, last known intents, floors, recorder | `accept_session`, `welcome_for`, `receive_input`, `step`, `disconnect_session`, `set_build_fingerprint`, `finalize` | called by the tick loop; calls the simulation and the recorder |
| Tick loop, `crates/server/src/tick_loop.rs` | peer-to-session map, error counter, deadline | wait for a first session, then drain the transport / step / broadcast until the match is over | ENet host, server |
| Process, `crates/server/src/main.rs` | the replays directory | run a match, then store it or exit with 1 | tick loop, file system |
| Replay, `crates/replay` | recorder; artifact | `record_*`, `finalize`, `verify_replay`, `write_replay`, `read_replay` | called by the server and the process; verification runs apart from it |
| Test client, `crates/client` | welcome, floor, baseline, snapshot, sequence counter | `connect`, `recv_baseline`, `poll_snapshot`, `send_input` | server, over ENet |
| Godot client, `client/` | connection state, floor, match state | `_process`, `send_input`, `apply_baseline`, `apply_snapshot` | server, over ENet |
| Wire format, `crates/wire`, `client/net/wire` | none | encode, decode | both sides |

One thread runs the server, so what is hard is not locking but the order of
events between two steps: a session may join, send, leave and have its slot taken
over within one drain; inputs for a tick come in any order, repeated, early or
late; everything a session leaves behind (floor, intent, buffered inputs,
bindings) must stop mattering when it goes; and the recording must explain the
world exactly. Around it, packets that carry no message type must not be taken for
one another, each call of the test client drains what another one waits for, and
the process may die with its artifact half written. `PROJECT.json` lists these hazards line by line.

What makes each part correct:

- buffer: nothing outside the tick window, bounded per key, and a choice that
  does not depend on arrival order;
- server: ids, sessions and entities determine each other; one floor for
  everybody; one applied input per player and tick; a departed player stands
  still; the artifact verifies;
- tick loop: at most `max_sessions` sessions, every session belongs to the
  connection that holds its slot, no input before the welcome, and the process
  ends;
- clients: aim at the floor and never beyond the server's, use no sequence number
  twice, show their own character, never an older state after a newer one, and
  never lose the welcome or the baseline to the wrong reader;
- process and file: exit 0 means the match is stored whole, no file is overwritten,
  and a cut-off file never verifies as a match.

## Modules

    RustTypes        Option and HashMap
    SimWorld         operators: the world and its tick        crates/sim
    InputBuffer      operators: validation and the buffer     input_buffer.rs, validation.rs
    Replay           operators: recorder and verifier         crates/replay
    InputSelection   abstract specification of input selection
    InputWindow      the buffer as a state machine; implements InputSelection
    ServerEdge       the server, one action per operation     server/src/lib.rs
    TickLoop         the process: ServerEdge driven by the    tick_loop.rs, net.rs
                     loop and the transport
    WireFormat       operators: messages as packets           crates/wire
    GameClient       operators: one Godot client              client/net, match, scenes
    TestClient       operators: one Rust test client          crates/client
    Match            TickLoop, both kinds of clients and the network
    ReplayFile       ServerEdge in a process that stores      main.rs, replay/src/lib.rs
                     its match
    MCServerEdge, MCInputWindow,   constants a cfg cannot write
    MCReplayFile
    ServerEdgeProofs               type correctness
    ServerEdgeSafetyProofs         sessions, floors, buffer; extends ServerEdgeProofs
    ServerEdgeActionProofs         action properties, player ids; extends the above
    ServerEdgeRecordingProofs      what is recorded; extends the above
    TickLoopProofs                 the loop implements the server; bindings, panics,
                                   neutral start; extends ServerEdgeRecordingProofs
    MatchProofs                    clients and packets; extends TickLoopProofs
    ReplayProofs                   the verdict, the file; extends
                                   ServerEdgeRecordingProofs and ReplayFile
    InputWindowProofs              the buffer implements InputSelection

Variables, operators and actions carry the names of the fields and functions they
model. A definition named `X_mutant_...` is `X` with a plausible mistake; it
stands before `X`, nothing uses it, and it exists to show that the property it is
listed with (`PROJECT.json`, "mutants") can fail.

Abstractions, and why they are safe for what is checked:

- A direction is one signed integer. The code treats both axes alike and compares
  only the magnitude, with 1. `HugeDir` is the magnitude from which its square
  overflows to infinity; `Malformed` stands for a wrong length, NaN or infinity.
- `MOVE_SPEED * dt` is the unit of length. The FNV digest is the tuple of values
  it hashes (no collisions).
- `step` runs its loop over `entity_spawn_order` turn by turn: `ApplyInput` is one turn,
  `InputLoop` the recursive function that chains them, each turn seeing the buffer and the
  intents the earlier ones left. A player id that occurs twice takes two turns, and that
  they record the same direction (`SameIntentPerStep`) is checked and proved. Because of
  it the stable sort by player id before `advance` changes nothing and does not appear.
- `player_id` wraps modulo `PlayerIdModulus` (256 in the code, small in the
  configurations); `OverflowChecks` says whether the build panics instead. Session
  and entity ids and ticks are u64 in the code and unbounded here.
- A panic ends the process: `status = "panicked"`, nothing else changes.
- In `TickLoop` the transport is what `host.service()` may return next, given only
  that a slot's events come in the order connect, packets, disconnect. This allows
  every loss, delay and reordering of packets. `accept_and_welcome` is two steps
  (`ServiceHello`, `Welcome`) with nothing in between. `consecutive_errors` is
  local to a drain and reset when the drain ends; the clock only ticks where the
  code looks at it. Slots nobody has used yet are interchangeable, so they are taken
  in order.
- `Match` adds what is sent. The control channel is a queue per client; a snapshot
  may arrive at any time after its broadcast, repeatedly or never; an input at most
  once. This allows more than ENet's sequenced channel does, and what the client's
  comments say it tolerates. A frame's drain is one step: of the snapshots in it
  only the newest has an effect. Entities are the set of their ids, since a client
  draws positions as received. A client is numbered by its connection: the scene
  connects once, and so does a test client. Who closes a connection, and which end
  notices first, is open. A client that stopped listening (it failed to connect, or
  its peer is closed) gets nothing more; the server is not told.
- Packets to clients are what prost makes of a message: present tags with their wire
  type and value, fields with default values left out. Decoding therefore fails or
  succeeds as in the code, which is all that tells a welcome from a baseline. An
  entity in a packet is its id (the simulation always gives two coordinates, so the
  length checks of the conversions cannot fail) and the digest, which no client
  reads, is left out. Inputs travel as records: they are alone on their channel.
- A test may call the operations of `TestClient` in any order. A disconnect is skipped by
  every call: inside `connect` the client goes on waiting, hears nothing more and fails with
  the timeout (`TestDisconnected`, then `TestConnectFails`). One call of `connect`
  or `recv_baseline` is one step per packet; a `poll_snapshot` is one step that takes
  the control packets which have arrived, and keeps no snapshot when the transport
  fails in the middle of it. `polled_early` is a history field.
- In `ReplayFile` a file is a number of whole fields of an artifact and perhaps part of
  the next. What earlier processes left in the directory is part of the initial
  state, so a restart needs no action. The clock may give any name. A panic, a kill
  and exit status 1 are all "failed". Fields that verification does not read are left
  out of the encoding, except the one that comes last.
- `admitted` in InputWindow and the history variables of TickLoop (`connection`,
  `connects`, `accepted_on`, `early_sessions`) are not in the code;
  only properties read them, except that `connects` carries a bound and that Match
  knows by `connection` which client holds a slot.

Dead code met on the way and left out: `Session::last_valid_tick` (never written),
`BufferResult::InputSeqTie` (never produced), the server's own copy of the build
fingerprint (never read), `step`'s test for a vector of length 2 (validation has
already dropped any other). `evict_before` is redundant as the code stands: every
buffered key belongs to a spawned player (`BufferWithinWindow`), so `take_input`
has already removed what it would remove.

## Runs

Runs that pass:

| Run | Bounds | Shows |
|---|---|---|
| `server_sessions` | 4 accepts, 2 at a time, 2 ticks, u8 counter of 4 in a debug build | `FloorCoherent`, `PlayerIdsNeverReused`, `SessionBindings`, `OneAppliedInputPerTick`, `IntentHeld`, `OnlyLivePlayersBuffer`, `FrozenStaysFrozen` for every order of joins, welcomes, inputs, leaves and steps; both panics of `accept_session` happen |
| `server_inputs` | release build, counter of 1: 2 sessions share a player id; 3 ticks, 5 target ticks, unit, oversized, overflowing and malformed directions | `TypeOK`, `BufferWithinWindow`, `SameIntentPerStep`: the two turns of the shared id meet every mix of buffered and held intents |
| `replay_stored` | test ids <<2, 1>>, 2 ticks, 2 build fingerprints, 2 file names of which any may be taken, a death at every point of the write | `VerifiesIffComplete`: an exact characterisation of the artifacts that verify; `SuccessMeansStored`, `FilesVerifyAsPlayed`, `NeverOverwritten` |
| `input_selection` | 1 player, 2 live keys, limit 3, 2 sequence numbers, 2 directions | `EntrySummarisesLog`, `RateLimited`, and that the buffer implements `InputSelection` |
| `loop_safety` | 2 slots, 4 connections (both slots reused), 3 ticks, 2 errors per drain | `NeverPanics`, `PeerBindings`, `WelcomedBeforeInput`, `OnlyEarlyBindingsStale`, `StartupNeutral` |
| `match_clients` | a Godot client and a test client, 2 slots, 2 ticks, 2 inputs in all | `OwnCharacterShown`, `AimsAtTheFloor`, `FloorFollowsView`, `ClientsNeverTie`, `PacketsUnambiguous`, `BaselineNotLost`, `SnapshotHasOwnEntity`, `ViewNeverGoesBack` |
| `loop_liveness` | 2 slots, 2 connections, 2 ticks | `Terminates` |

The bounds are small because the interesting cases need few actors: two sessions
for a mix-up of identities, a third accept for a reuse of a slot or an id, two
ticks for something left over from the first, three inputs for a tie that is
overtaken. For a file, every prefix of the artifact of a two-tick match is tried; a
prefix that ends before the inputs is the dangerous one, because it decodes to a
well-formed match of no ticks and only the final digest rejects it. Deadlock is
checked in every run; `Stopped`, `Terminated`, `MatchOver` and `Exited` are the
states where the process is gone.

Runs that show a disagreement between the code and what the repository says of it
("findings" in `PROJECT.json` quotes both):

| Run | Shows |
|---|---|
| `departed_moves` | inputs buffered before a disconnect are applied after it, and the last one becomes the new last known intent: the character coasts to the end of the match |
| `late_join_unverifiable` | one session accepted after the first step makes the artifact fail `verify_replay` |
| `player_id_wraps` | a release build reuses player ids after the u8 counter wraps |
| `stale_peer_binding` | a disconnect in the connect phase is ignored; the next connection in the slot is treated as the departed session |
| `other_build_accepted` | the process sets no build fingerprint (`Fingerprints = {}`), so a strict verifier of another build accepts what it stored |

Smaller disagreements met while modelling, without a run: `consecutive_errors`
(`tick_loop.rs:198`) is never reset by a success, so it counts all errors of a
drain; a file cut off right after its baseline decodes with a tick rate of 0, on
which the verifier panics in `World::new` instead of returning an error; with `test_player_ids` out of order the inputs of a tick
are recorded in spawn order, not in the player id order of FS-0007;
`validation.rs:7` and FS-0007:263 announce a drop of non-monotonic ticks that no code
performs (`InputSelection` permits what the code admits, and does not require it); a rate limit
of zero still admits the first input of each tick, where FS-0007:266 allows none
(`RateLimited` says so; the run has a limit of 3, the theorem covers every limit);
and a finite direction whose square overflows is clamped to zero, not to unit
length as in FS-0007:261 (`SimWorld!clamp_magnitude` models it, and no property claims unit
length).

Fairness (`FairLoopSpec`, used only for `Terminates`): weak fairness of the
thread's own steps, since it is one running thread, and of the clock reaching the
deadline. The thread's steps include `ServiceNone`: a drain finds nothing left at
some point. The code does not bound a drain, so a peer that sends faster than the
server reads would hold up the tick for ever; that assumption is the price of the
property and is listed as a hazard.

## Proofs

Every property of a passing run has a theorem, except `Terminates`. A run shows it on
a small instance; the theorem holds for any number of sessions, slots, connections,
clients, ticks and inputs, any lead, window and rate, and any values the named
assumptions on the constants allow. `PROJECT.json` lists the theorems; this is how
they hang together.

### Assumptions

The `ASSUME`s of the modules say what a configuration is: natural numbers, a positive
modulus and tick rate, directions that are integers or `Malformed`, test clients that
are clients, and a build (`ForeignBuild`) that is none of the process's own. `None` stands for an absent
`Option`, so that some more say that it is none of the values it stands beside
(`NoneIsNoInput`, `NoneIsNoBaseline`, `NoneIsNoDigest`, `NoneIsNoSession`,
`NoneIsNoReceivedState`).

Three theorems have a hypothesis of their own, and each needs it:

- `IdsNeverReused` and `InputsNeverTie` are about a build with overflow checks whose
  test ids, if any, are distinct. In another build the u8 counter wraps, as the run
  `player_id_wraps` shows, and two clients that get one player id both number their
  inputs from 1.
- `LoopNeverPanics` is about a process in which ids do not run out: a build without
  overflow checks or fewer accepts than ids, and test ids for everybody if for anybody.
  It holds for every `max_sessions`. The run `server_sessions` reaches the panics.

### The server

`ServerEdgeProofs`: `TypeOK` is inductive, with one lemma per action. Its core is that
everything stored has passed `clamp_magnitude`, also after being merged into an
existing entry. `LoopResult` says in closed form what the loop of `step` leaves, by induction
over its turns (`OneMoreTurn`): a player's first turn takes the buffered input and the
later ones find the intent it stored, so all of them use `AppliedIntent`. Everything else about
`step` is proved from it (`StepResult`). The lemmas about `receive_input` hold for any well-typed input, not only for
those a configuration lists.

`ServerEdgeSafetyProofs`: `SafetyInv` is inductive (theorem `Safety`). Beside TypeOK and the
properties it is for, it has

- `BindingsSpawned`: a live session's player has been spawned, and both maps name the
  same one. Without it an input that passes validation could be nobody's, and
  `BufferWithinWindow` fails.
- `CharactersFollowSpawnOrder`: an entity's player is at the entity's place of the spawn
  order, so that "the first character of the player" is the one the session was given.
- `BindingsInverse`: while ids are unique, a disconnect removes only its own entry.
- `NothingRecordedAhead`: what a step appends cannot meet older inputs of its tick.

It gives `BufferBounded`, `FloorsAgree`, `BindingsCorrect` and `OneIntentPerStep`.

`ServerEdgeActionProofs`: `OnlyLiveBuffer`, `IntentsOfSpawned` (the players with a last
known intent are exactly the spawned ones: `step` never misses one, and neither a disconnect
nor a step makes one for anyone else), `FrozenForGood` and `IdsNeverReused`. The last needs `SpawnOrderIsOrdinal`: the counter is the length of the spawn order, and the
player at place i has ordinal i - 1 or test id i.

`ServerEdgeRecordingProofs`: `RecordingInv` says what the recording looks like in the middle of
a match. `RecordedSince(p, first)` is one input at each tick from `first` on and none
before; `first` is 0 for everybody in the baseline (`RecordedWithoutGap`), which needs
that the baseline is recorded by the first step (`BaselineFirst`) and that nobody is
recorded before being spawned (`RecordedSpawned`). It gives `FallbackIsRecorded`,
`OneInputPerTick` and `CompleteStream`, the part of a verdict that needs no replay.

### The loop

`TickLoopProofs`: `LoopImplementsServer` maps each step of the loop to one call of a server
operation or to a stutter, so that every theorem about `ServerSpec` holds of the
process. The loop passes sessions it got from the server; that these are within the
bounds of the open server is `CallerInv`.

`BindingsInv` joins what the loop, the transport and the server know. `PeerBindings` alone is
not inductive: the moment between `accept_session` and `welcome_for` is described by
`WelcomesInOrder`, and that the history of connections agrees with the live sessions by
`SessionHistory`. It gives `SlotsAndSessionsAgree`, `WelcomeComesFirst` and
`LateBindingsFresh`; with a count of the ids handed out, `LoopNeverPanics`.

`NeutralStart` rests on `LeadInv`, in terms of `StartedBefore(p, n)`: an input of p was
recorded a lead before tick n. A buffered input lies beyond the floor of now or its player has
started before it; an intent other than zero belongs to a player that has started. So
what is recorded for anyone else is a neutral fallback.

### Clients and packets

`MatchProofs`: `MatchInv` is inductive (theorem `MatchInvariant`) and has five parts.

- `ServerInv`: the server's and the loop's invariants. `ServerSpec` and `LoopSpec` take the
  ticks of inputs from `InputTicks`; in `Match` a Godot client aims at whatever its floor
  is. That is why a step is a `LoopStep` here, and why the lemmas about `receive_input`
  are proved for any input.
- `ConnectionsInv`: a connection is accepted at most once, and as long as it holds its slot
  the slot is bound to the session accepted on it.
- `NetInv`: the shape of what travels.
- `ClientInv(c)`: client c has been told nothing (`NotJoined`), or there are a session, a
  tick and an entity it was told of (`Joined`), and how far it has come with them: welcome
  and baseline queued, baseline queued, or the queue empty and the state built on both.
  `Told` adds that each snapshot broadcast after that tick has the entity. Who is
  not welcomed has not joined, or a second welcome could meet a full queue.
- `InflightInv`: inputs come from accepted clients, and those of Godot clients aim at a floor
  that the server has reached.

That packets are told apart by what decodes is computed from the fields once (lemmas
`WelcomeDecodes`, `BaselineDecodes`, `SnapshotDecodes`): a baseline without entities
would decode as a welcome, and `Joined` has the session's own entity in it.

`FreshInv`, on top of it, is about sequence numbers. No two inputs on their way from one
client have the same number, and none has one the client has yet to use (`SentOnce`); the
greatest number of a buffer entry is one its session's client has used, for an input
no longer on its way (`ReceivedOnce`). A session that begins would break the latter if its
player had entries already, which is where `IdsUnique` comes in.

### Replay and file

`ReplayProofs`: `ReplayInv` says that while everybody joined before the first step and ids are
unique, replaying the recording so far gives the server's world (`WorldIsReplayed`), from a
baseline at rest (`BaselineAtRest`). `advance` looks only at each player's direction
(`SameMoves`), and the verifier meets the same ones. `VerdictIsRight` characterises
the artifacts that verify exactly.

For the process: `ProcessPlaysMatch`, `FilesKept`, and `StoredOnSuccess` with
`StoringInv` (a file being written is the process's own and new). `FilesFaithful` is the longest
proof. `FilesInv` says that a file this process made holds a beginning of the artifact;
`merge_field` is followed through the encoding, and each beginning decodes to one of few
records: before the final digest, with it but without the tick, or with both. The
first is refused for its digest, the second as well unless the tick is zero
anyway, and the last verifies as the match.

The loop of `step`, replaying and decoding are recursive functions, and what they compute is proved by
induction over naturals. The library's induction theorems take an operator as a
parameter, which the provers here cannot instantiate; `SetInduction` states the same of a
set of numbers and follows from `WFMin` of the library (in `ServerEdgeProofs`).

### Input selection

`InputWindowProofs`: `WindowInv` says that the four fields of an entry are what the set of all
inputs admitted for its key determines, in whatever order they came
(`EntriesSummarise`), and that no key admits more than the limit (`RateIsLimited`).
`PipelineImplementsSelection` is the refinement of `InputSelection`: initial states map to
initial states, and `validate_input` and `step` to its steps or to a stutter.

### Only model-checked

`Terminates`: liveness under fairness is beyond the prover. The five runs that
expect a violation are about properties that do not hold.

## Not modelled, and the plan

1. Hazards without a property, each with its reason in `PROJECT.json`: the error counter
   of a drain, a drain without end, the Godot client's drain under errors, and three
   behaviours the model allows but no property judges (a huge direction zeroed, input ticks
   that go backwards, a test client that gives up while the server is answering).
2. The GDScript varint and message codec as pure operators, against a reference.

Out of scope: rendering and key capture (pure I/O), generated protobuf code below
the field level, wall-clock pacing (it delays steps and changes nothing else),
`acquire_build_fingerprint` (it hashes the executable; nobody calls it), ENet itself.
