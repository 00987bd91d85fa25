---------------------------- MODULE InputWindow ----------------------------
(***************************************************************************)
(* The input buffer at work: any inputs in any order between ticks, each   *)
(* tick taking the selected input of every player.  This is the part of    *)
(* Server::receive_input and Server::step that concerns one buffer, for    *)
(* welcomed sessions, whose floor is always tick + input_lead_ticks        *)
(* (FloorCoherent of ServerEdge).  `admitted` is a history variable: the   *)
(* inputs that passed validation and the rate limit, which the code does   *)
(* not keep.                                                               *)
(***************************************************************************)
EXTENDS InputBuffer

CONSTANTS
    Players,
    InputTicks,
    InputSeqs,
    MoveDirs,
    input_lead_ticks,
    LastTick              \* bound: number of ticks processed

ASSUME WindowAssumption ==
    /\ InputTicks \subseteq Nat
    /\ InputSeqs \subseteq Nat
    /\ MoveDirs \subseteq Int \cup {Malformed}
    /\ input_lead_ticks \in Nat
    /\ LastTick \in Nat

VARIABLES
    tick,
    input_buffer,
    admitted,      \* history: <<player, tick>> -> sequence of admitted inputs
    applied        \* player -> sequence of the directions taken, None for fallback

window_vars == <<tick, input_buffer, admitted, applied>>

InputCmd == [tick : InputTicks, input_seq : InputSeqs, move_dir : MoveDirs]

WindowInit ==
    /\ tick = 0
    /\ input_buffer = EmptyMap
    /\ admitted = EmptyMap
    /\ applied = [p \in Players |-> << >>]

floor == tick + input_lead_ticks

AdmittedLog(p, t) == MapGet(admitted, <<p, t>>, << >>)

\* An input is admitted when validate_input ends in BufferResult::Accepted, which
\* are the calls that change the buffer: each of them counts the input.
receive_input(p, input) ==
    LET buffer == validate_input(input, tick, floor, input_buffer, p) IN
    /\ input_buffer' = buffer
    /\ admitted' = IF buffer # input_buffer
                   THEN MapInsert(admitted, <<p, input.tick>>,
                                  Append(AdmittedLog(p, input.tick), input))
                   ELSE admitted
    /\ UNCHANGED <<tick, applied>>

TakenDir(p) ==
    LET cmd == take_input(input_buffer, p, tick) IN
    IF cmd = None THEN None ELSE cmd.move_dir

step ==
    /\ tick < LastTick
    /\ applied' = [p \in Players |-> Append(applied[p], TakenDir(p))]
    /\ input_buffer' = evict_before(MapRemove(input_buffer, Players \X {tick}), tick + 1)
    /\ admitted' = Restrict(admitted, {key \in DOMAIN admitted : key[2] > tick})
    /\ tick' = tick + 1

WindowNext ==
    \/ \E p \in Players, input \in InputCmd : receive_input(p, input)
    \/ step

WindowSpec == WindowInit /\ [][WindowNext]_window_vars

-----------------------------------------------------------------------------
(***************************************************************************)
(* Properties.                                                             *)
(***************************************************************************)

Selected == INSTANCE InputSelection WITH
    Inputs  <- [tick : InputTicks, input_seq : InputSeqs, move_dir : MoveDirs \ {Malformed}],
    Lead    <- input_lead_ticks,
    Horizon <- max_future_ticks,
    Limit   <- per_tick_limit

\* The pipeline implements its promise (try_buffer, take_input, evict_before):
\* the four fields of an entry decide every tick exactly as all the admitted
\* inputs would, in whatever order they came.
ImplementsSelection == Selected!SelectionSpec

\* Detectability contract of FS-0007 (try_buffer): each entry is the summary of
\* the inputs admitted for its key: how many, the greatest sequence number,
\* whether it was tied, and, if not, the clamped input that carried it.
EntrySummarisesLog ==
    /\ DOMAIN input_buffer = DOMAIN admitted
    /\ \A key \in DOMAIN input_buffer :
        LET entry   == input_buffer[key]
            log     == admitted[key]
            winners == Selected!Winners(log)
        IN  /\ entry.receive_count = Len(log)
            /\ \A i \in winners : entry.max_input_seq = log[i].input_seq
            /\ entry.max_seq_tied <=> ~\E i \in winners : winners = {i}
            /\ \E i \in winners :
                   entry.selected =
                       [log[i] EXCEPT !.move_dir = clamp_magnitude(log[i].move_dir)]

\* Rate limit (try_buffer): no key ever gathers more inputs than the per-tick
\* limit, except that the first one is admitted whatever the limit is.
RateLimited ==
    \A key \in DOMAIN admitted : Len(admitted[key]) = 1 \/ Len(admitted[key]) <= per_tick_limit
=============================================================================
