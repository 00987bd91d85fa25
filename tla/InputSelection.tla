--------------------------- MODULE InputSelection ---------------------------
(***************************************************************************)
(* What the input pipeline promises (ADR-0006, FS-0007 validation rules),  *)
(* without saying how: every admitted input is remembered, and when a tick *)
(* is processed the input with the greatest sequence number is applied,    *)
(* or none if that number was used more than once.  The choice looks at    *)
(* the admitted inputs as a whole, so it cannot depend on the order in     *)
(* which they arrived.                                                     *)
(***************************************************************************)
EXTENDS SimWorld

CONSTANTS
    Players,
    Inputs,      \* well-formed inputs: [tick, input_seq, move_dir]
    Lead,        \* ticks between the current one and the floor
    Horizon,     \* how far ahead of the current tick an input may aim
    Limit,       \* admitted inputs per player and tick
    LastTick     \* bound: no tick is processed from here on

VARIABLES
    tick,
    admitted,    \* <<player, tick>> -> sequence of the inputs admitted for it
    applied      \* player -> sequence, the outcome of each processed tick

selection_vars == <<tick, admitted, applied>>

Log(p, t) == MapGet(admitted, <<p, t>>, << >>)

\* The positions in a log of the inputs with the greatest sequence number.
Winners(log) ==
    {i \in DOMAIN log : \A j \in DOMAIN log : log[j].input_seq <= log[i].input_seq}

Selection(log) ==
    IF \E i \in Winners(log) : Winners(log) = {i}
    THEN clamp_magnitude(log[CHOOSE i \in Winners(log) : TRUE].move_dir)
    ELSE None

SelectionInit ==
    /\ tick = 0
    /\ admitted = EmptyMap
    /\ applied = [p \in Players |-> << >>]

Admit(p, input) ==
    /\ input.tick \in tick + Lead .. tick + Horizon
    /\ Log(p, input.tick) = << >> \/ Len(Log(p, input.tick)) < Limit
    /\ admitted' = MapInsert(admitted, <<p, input.tick>>, Append(Log(p, input.tick), input))
    /\ UNCHANGED <<tick, applied>>

Process ==
    /\ tick < LastTick
    /\ applied' = [p \in Players |-> Append(applied[p], Selection(Log(p, tick)))]
    /\ admitted' = Restrict(admitted, {key \in DOMAIN admitted : key[2] > tick})
    /\ tick' = tick + 1

SelectionNext ==
    \/ \E p \in Players, input \in Inputs : Admit(p, input)
    \/ Process

SelectionSpec == SelectionInit /\ [][SelectionNext]_selection_vars
=============================================================================
