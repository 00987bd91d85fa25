---------------------------- MODULE InputBuffer ----------------------------
(***************************************************************************)
(* The server's input buffer and the validation in front of it,            *)
(* crates/server/src/input_buffer.rs and validation.rs, as operators on    *)
(* the buffer: a map from <<player_id, tick>> to the entry kept for them.  *)
(***************************************************************************)
EXTENDS SimWorld

CONSTANTS
    max_future_ticks,          \* ValidationConfig
    input_rate_limit_per_sec,
    tick_rate_hz,
    Malformed                  \* a move_dir of length # 2, or with a NaN or an infinity

ASSUME ValidationConfigAssumption ==
    /\ max_future_ticks \in Nat
    /\ input_rate_limit_per_sec \in Nat
    /\ tick_rate_hz \in Nat \ {0}
    /\ Malformed \notin Int

\* Option<InputCmd>: no input is None.
ASSUME NoneIsNoInput == None \notin [tick : Nat, input_seq : Nat, move_dir : Int]

\* u32::div_ceil
per_tick_limit ==
    (input_rate_limit_per_sec + tick_rate_hz - 1) \div tick_rate_hz

BufferEntry(input) == [selected      |-> [input EXCEPT !.move_dir = clamp_magnitude(@)],
                       max_input_seq |-> input.input_seq,
                       max_seq_tied  |-> FALSE,
                       receive_count |-> 1]

(***************************************************************************)
(* The entry of try_buffer's first branch: one more input for a key that   *)
(* has an entry below its rate limit.  The selected input is clamped       *)
(* again on the way out, which is idempotent.                              *)
(***************************************************************************)
UpdatedEntry_mutant_tie_survives(entry, input) ==
    IF input.input_seq > entry.max_input_seq
    THEN [entry EXCEPT !.selected = BufferEntry(input).selected,
                       !.max_input_seq = input.input_seq,
                       !.receive_count = @ + 1]
    ELSE [entry EXCEPT !.max_seq_tied = @ \/ input.input_seq = entry.max_input_seq,
                       !.receive_count = @ + 1]

UpdatedEntry(entry, input) ==
    IF input.input_seq > entry.max_input_seq
    THEN [BufferEntry(input) EXCEPT !.receive_count = entry.receive_count + 1]
    ELSE [entry EXCEPT !.max_seq_tied = @ \/ input.input_seq = entry.max_input_seq,
                       !.receive_count = @ + 1]

try_buffer_mutant_limit_plus_one(buffer, p, input) ==
    LET key == <<p, input.tick>> IN
    IF key \notin DOMAIN buffer
    THEN MapInsert(buffer, key, BufferEntry(input))
    ELSE IF buffer[key].receive_count > per_tick_limit
    THEN buffer
    ELSE MapInsert(buffer, key, UpdatedEntry(buffer[key], input))

try_buffer(buffer, p, input) ==
    LET key == <<p, input.tick>> IN
    IF key \notin DOMAIN buffer
    THEN MapInsert(buffer, key, BufferEntry(input))
    ELSE IF buffer[key].receive_count >= per_tick_limit     \* RateLimited
    THEN buffer
    ELSE MapInsert(buffer, key, UpdatedEntry(buffer[key], input))

(***************************************************************************)
(* What take_input returns: the selected input, or None when there is no   *)
(* entry or its greatest sequence number was tied.  Either way the entry   *)
(* leaves the buffer.                                                      *)
(***************************************************************************)
take_input_mutant_tie_ignored(buffer, p, tick) ==
    IF <<p, tick>> \in DOMAIN buffer THEN buffer[<<p, tick>>].selected ELSE None

take_input(buffer, p, tick) ==
    LET key == <<p, tick>> IN
    IF key \in DOMAIN buffer /\ ~buffer[key].max_seq_tied
    THEN buffer[key].selected
    ELSE None

evict_before(buffer, tick) ==
    Restrict(buffer, {key \in DOMAIN buffer : key[2] >= tick})

-----------------------------------------------------------------------------

(***************************************************************************)
(* The verdict of validate_input's checks, in their order, before the      *)
(* buffer is asked.                                                        *)
(***************************************************************************)
Verdict_mutant_no_window(input, current_tick, floor) ==
    IF input.move_dir = Malformed     THEN "DroppedNanInf"
    ELSE IF input.tick < floor        THEN "DroppedBelowFloor"
    ELSE IF input.tick < current_tick THEN "DroppedLate"
    ELSE "Bufferable"

Verdict_mutant_no_floor(input, current_tick, floor) ==
    IF input.move_dir = Malformed                        THEN "DroppedNanInf"
    ELSE IF input.tick < current_tick                    THEN "DroppedLate"
    ELSE IF input.tick > current_tick + max_future_ticks THEN "DroppedTooFuture"
    ELSE "Bufferable"

Verdict(input, current_tick, floor) ==
    IF input.move_dir = Malformed                        THEN "DroppedNanInf"
    ELSE IF input.tick < floor                           THEN "DroppedBelowFloor"
    ELSE IF input.tick < current_tick                    THEN "DroppedLate"
    ELSE IF input.tick > current_tick + max_future_ticks THEN "DroppedTooFuture"
    ELSE "Bufferable"

\* The buffer validate_input leaves behind.
validate_input(input, current_tick, floor, buffer, p) ==
    IF Verdict(input, current_tick, floor) = "Bufferable"
    THEN try_buffer(buffer, p, input)
    ELSE buffer
=============================================================================
