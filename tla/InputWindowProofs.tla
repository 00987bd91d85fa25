--------------------------- MODULE InputWindowProofs ---------------------------
(***************************************************************************)
(* The input pipeline keeps its promise for every number of players, every *)
(* window and every rate limit: four fields per entry stand for the whole  *)
(* log of admitted inputs, so InputWindow implements InputSelection.       *)
(***************************************************************************)
EXTENDS InputWindow, SequenceTheorems, TLAPS

WellFormed == [tick : InputTicks, input_seq : InputSeqs, move_dir : MoveDirs \ {Malformed}]

Entries == [selected      : [tick : Nat, input_seq : Nat, move_dir : Int],
            max_input_seq : Nat,
            max_seq_tied  : BOOLEAN,
            receive_count : Nat]

\* The sets the variables range over.
WindowTypeOK ==
    /\ tick \in Nat
    /\ DOMAIN admitted \subseteq Players \X Nat
    /\ admitted \in [DOMAIN admitted -> Seq(WellFormed)]
    /\ input_buffer \in [DOMAIN input_buffer -> Entries]

\* The entry is the summary of the log.
Summarises(entry, log) ==
    LET winners == Selected!Winners(log) IN
    /\ entry.receive_count = Len(log)
    /\ \A i \in winners : entry.max_input_seq = log[i].input_seq
    /\ entry.max_seq_tied <=> ~\E i \in winners : winners = {i}
    /\ \E i \in winners :
           entry.selected = [log[i] EXCEPT !.move_dir = clamp_magnitude(log[i].move_dir)]

WindowInv ==
    /\ WindowTypeOK
    /\ EntrySummarisesLog
    /\ RateLimited

-----------------------------------------------------------------------------

\* Validation lets only these through.
LEMMA WellFormedInput ==
    ASSUME NEW input \in InputCmd, input.move_dir # Malformed
    PROVE  /\ input \in WellFormed
           /\ input \in [tick : Nat, input_seq : Nat, move_dir : Int]
BY WindowAssumption DEF InputCmd, WellFormed

\* clamp_magnitude returns a number.
LEMMA ClampIsInt == \A d \in Int : clamp_magnitude(d) \in Int
BY DEF clamp_magnitude, UnitDirs, Sign

\* u32::div_ceil by a rate that is not zero.
LEMMA LimitIsInt == per_tick_limit \in Int
BY ValidationConfigAssumption DEF per_tick_limit

\* What a log is made of.
LEMMA LogElement ==
    ASSUME NEW log \in Seq(WellFormed), NEW i \in DOMAIN log
    PROVE  /\ log[i] \in [tick : Nat, input_seq : Nat, move_dir : Int]
           /\ log[i].input_seq \in Nat
<1>1. log[i] \in WellFormed
  OBVIOUS
<1> QED
  BY <1>1, WindowAssumption DEF WellFormed

\* The winners of a log that grew by one input: it alone, it too, or those before it.
LEMMA WinnersAppend ==
    ASSUME NEW log \in Seq(WellFormed), NEW input \in WellFormed,
           NEW w \in Selected!Winners(log)
    PROVE  Selected!Winners(Append(log, input)) =
               IF input.input_seq > log[w].input_seq THEN {Len(log) + 1}
               ELSE IF input.input_seq = log[w].input_seq
               THEN Selected!Winners(log) \cup {Len(log) + 1}
               ELSE Selected!Winners(log)
<1>1. PICK n, grown : n = Len(log) /\ grown = Append(log, input)
  OBVIOUS
<1>2. /\ n \in Nat
      /\ DOMAIN log = 1 .. n
      /\ DOMAIN grown = 1 .. n + 1
      /\ \A i \in 1 .. n : grown[i] = log[i]
      /\ grown[n + 1] = input
  BY <1>1
<1>3. \A i \in 1 .. n : log[i].input_seq \in Nat
  BY <1>2, LogElement
<1>4. input.input_seq \in Nat
  BY WindowAssumption DEF WellFormed
<1>5. w \in 1 .. n /\ \A i \in 1 .. n : log[i].input_seq <= log[w].input_seq
  BY <1>2 DEF Selected!Winners
<1>6. \A i : i \in Selected!Winners(grown) <=>
          /\ i \in 1 .. n + 1
          /\ \A j \in 1 .. n : log[j].input_seq <= grown[i].input_seq
          /\ input.input_seq <= grown[i].input_seq
  <2>1. \A m : m \in 1 .. n + 1 <=> m \in 1 .. n \/ m = n + 1
    BY <1>2
  <2>2. \A i : i \in Selected!Winners(grown) <=>
            /\ i \in DOMAIN grown
            /\ \A j \in DOMAIN grown : grown[j].input_seq <= grown[i].input_seq
    BY DEF Selected!Winners
  <2> QED
    BY <1>2, <2>1, <2>2
<1>7. \A i : i \in Selected!Winners(log) <=>
          i \in 1 .. n /\ \A j \in 1 .. n : log[j].input_seq <= log[i].input_seq
  BY <1>2 DEF Selected!Winners
<1>8. n + 1 \in Selected!Winners(grown) <=> input.input_seq >= log[w].input_seq
  BY <1>2, <1>3, <1>4, <1>5, <1>6
<1>9. \A i \in 1 .. n : i \in Selected!Winners(grown) <=>
          i \in Selected!Winners(log) /\ input.input_seq <= log[w].input_seq
  BY <1>2, <1>3, <1>4, <1>5, <1>6, <1>7
<1>10. /\ Selected!Winners(grown) \subseteq 1 .. n + 1
       /\ Selected!Winners(log) \subseteq 1 .. n
  BY <1>6, <1>7
<1>11. CASE input.input_seq > log[w].input_seq
  <2>1. \A i : i \in Selected!Winners(grown) <=> i = n + 1
    BY <1>2, <1>3, <1>4, <1>5, <1>8, <1>9, <1>10, <1>11
  <2> QED
    BY <1>1, <1>11, <2>1
<1>12. CASE input.input_seq = log[w].input_seq
  <2>1. \A i : i \in Selected!Winners(grown) <=> i \in Selected!Winners(log) \/ i = n + 1
    BY <1>2, <1>3, <1>4, <1>5, <1>8, <1>9, <1>10, <1>12
  <2> QED
    BY <1>1, <1>3, <1>4, <1>5, <1>12, <2>1
<1>13. CASE input.input_seq < log[w].input_seq
  <2>1. \A i : i \in Selected!Winners(grown) <=> i \in Selected!Winners(log)
    BY <1>2, <1>3, <1>4, <1>5, <1>8, <1>9, <1>10, <1>13
  <2>2. Selected!Winners(grown) = Selected!Winners(log)
    BY <1>10, <2>1
  <2> QED
    BY <1>1, <1>3, <1>4, <1>5, <1>13, <2>2
<1> QED
  BY <1>3, <1>4, <1>5, <1>11, <1>12, <1>13

\* The entry made for the first input of a key.
LEMMA FirstEntry ==
    ASSUME NEW input \in WellFormed
    PROVE  /\ BufferEntry(input) \in Entries
           /\ Summarises(BufferEntry(input), Append(<< >>, input))
<1>1. input \in [tick : Nat, input_seq : Nat, move_dir : Int]
  BY WindowAssumption DEF WellFormed
<1>2. PICK log : log = Append(<< >>, input)
  OBVIOUS
<1>3. Len(log) = 1 /\ DOMAIN log = {1} /\ log[1] = input
  <2>1. log = <<input>>
    BY <1>2
  <2> QED
    BY <2>1
<1>4. Selected!Winners(log) = {1}
  BY <1>1, <1>3 DEF Selected!Winners
<1>5. clamp_magnitude(input.move_dir) \in Int
  BY <1>1, ClampIsInt
<1>6. PICK d : d = clamp_magnitude(input.move_dir)
  OBVIOUS
<1>7. /\ BufferEntry(input).selected = [input EXCEPT !.move_dir = d]
      /\ BufferEntry(input).max_input_seq = input.input_seq
      /\ BufferEntry(input).max_seq_tied = FALSE
      /\ BufferEntry(input).receive_count = 1
  BY <1>6 DEF BufferEntry
<1>8. BufferEntry(input) \in Entries
  BY <1>1, <1>5 DEF BufferEntry, Entries
<1>9. Summarises(BufferEntry(input), log)
  BY <1>3, <1>4, <1>6, <1>7 DEF Summarises
<1> QED
  BY <1>2, <1>8, <1>9

\* What try_buffer's first branch makes of an entry: the summary of one input more.
LEMMA GrownEntry ==
    ASSUME NEW entry \in Entries, NEW log \in Seq(WellFormed), Summarises(entry, log),
           NEW input \in WellFormed
    PROVE  /\ UpdatedEntry(entry, input) \in Entries
           /\ UpdatedEntry(entry, input).receive_count = entry.receive_count + 1
           /\ Summarises(UpdatedEntry(entry, input), Append(log, input))
<1>1. input \in [tick : Nat, input_seq : Nat, move_dir : Int]
  BY WindowAssumption DEF WellFormed
<1>2. PICK sel, m, tied, n : entry = [selected |-> sel, max_input_seq |-> m,
                                      max_seq_tied |-> tied, receive_count |-> n]
  BY DEF Entries
<1>3. /\ sel \in [tick : Nat, input_seq : Nat, move_dir : Int]
      /\ m \in Nat /\ tied \in BOOLEAN /\ n \in Nat
  BY <1>2 DEF Entries
<1>4. PICK grown, own, d : /\ grown = Append(log, input)
                           /\ own = Len(log) + 1
                           /\ d = clamp_magnitude(input.move_dir)
  OBVIOUS
<1>5. /\ DOMAIN log \subseteq DOMAIN grown
      /\ own \in DOMAIN grown /\ own \notin DOMAIN log
      /\ \A i \in DOMAIN log : grown[i] = log[i]
      /\ grown[own] = input
      /\ Len(grown) = Len(log) + 1
  BY <1>4
<1>6. PICK w \in Selected!Winners(log) :
          sel = [log[w] EXCEPT !.move_dir = clamp_magnitude(log[w].move_dir)]
  BY <1>2 DEF Summarises
<1>7. /\ n = Len(log)
      /\ \A i \in Selected!Winners(log) : m = log[i].input_seq
      /\ tied <=> ~\E i \in Selected!Winners(log) : Selected!Winners(log) = {i}
      /\ Selected!Winners(log) \subseteq DOMAIN log
  BY <1>2 DEF Summarises, Selected!Winners
<1>8. d \in Int
  BY <1>1, <1>4, ClampIsInt
<1>9. Selected!Winners(grown) = IF input.input_seq > m THEN {own}
                                ELSE IF input.input_seq = m
                                THEN Selected!Winners(log) \cup {own}
                                ELSE Selected!Winners(log)
  BY <1>4, <1>7, WinnersAppend
<1>10. CASE input.input_seq > m
  <2>1. UpdatedEntry(entry, input) = [selected      |-> [input EXCEPT !.move_dir = d],
                                      max_input_seq |-> input.input_seq,
                                      max_seq_tied  |-> FALSE,
                                      receive_count |-> n + 1]
    BY <1>2, <1>4, <1>10 DEF UpdatedEntry, BufferEntry
  <2>2. UpdatedEntry(entry, input) \in Entries
    <3>1. [input EXCEPT !.move_dir = d] \in [tick : Nat, input_seq : Nat, move_dir : Int]
      BY <1>1, <1>8
    <3> QED
      <4>1. PICK s \in [tick : Nat, input_seq : Nat, move_dir : Int] :
                s = [input EXCEPT !.move_dir = d]
        BY <3>1
      <4>2. n + 1 \in Nat /\ input.input_seq \in Nat
        BY <1>1, <1>3
      <4>3. [selected |-> s, max_input_seq |-> input.input_seq,
             max_seq_tied |-> FALSE, receive_count |-> n + 1] \in Entries
        BY <4>2 DEF Entries
      <4> QED
        BY <2>1, <4>1, <4>3
  <2>3. Selected!Winners(grown) = {own}
    BY <1>9, <1>10
  <2>4. Summarises(UpdatedEntry(entry, input), grown)
    BY <1>4, <1>5, <1>7, <2>1, <2>3 DEF Summarises
  <2> QED
    BY <1>2, <1>4, <2>1, <2>2, <2>4
<1>11. CASE ~(input.input_seq > m)
  <2>1. UpdatedEntry(entry, input) = [selected      |-> sel,
                                      max_input_seq |-> m,
                                      max_seq_tied  |-> tied \/ input.input_seq = m,
                                      receive_count |-> n + 1]
    BY <1>2, <1>11 DEF UpdatedEntry
  <2>2. UpdatedEntry(entry, input) \in Entries
    BY <1>3, <2>1 DEF Entries
  <2>3. \A i \in Selected!Winners(grown) : grown[i].input_seq = m
    BY <1>5, <1>7, <1>9, <1>11
  <2>4. \E i \in Selected!Winners(grown) :
            sel = [grown[i] EXCEPT !.move_dir = clamp_magnitude(grown[i].move_dir)]
    BY <1>5, <1>6, <1>7, <1>9, <1>11
  <2>5. (tied \/ input.input_seq = m) <=>
            ~\E i \in Selected!Winners(grown) : Selected!Winners(grown) = {i}
    BY <1>5, <1>6, <1>7, <1>9, <1>11
  <2>6. Summarises(UpdatedEntry(entry, input), grown)
    <3>1. PICK e : e = UpdatedEntry(entry, input)
      OBVIOUS
    <3>2. /\ e.receive_count = Len(grown)
          /\ e.max_input_seq = m
          /\ e.max_seq_tied = (tied \/ input.input_seq = m)
          /\ e.selected = sel
      BY <1>5, <1>7, <2>1, <3>1
    <3>3. Summarises(e, grown)
      BY <2>3, <2>4, <2>5, <3>2 DEF Summarises
    <3> QED
      BY <3>1, <3>3
  <2> QED
    BY <1>2, <1>4, <2>1, <2>2, <2>6
<1> QED
  BY <1>10, <1>11

\* EntrySummarisesLog, entry by entry.
LEMMA SummaryOfAll ==
    EntrySummarisesLog <=>
        /\ DOMAIN input_buffer = DOMAIN admitted
        /\ \A key \in DOMAIN input_buffer : Summarises(input_buffer[key], admitted[key])
BY DEF EntrySummarisesLog, Summarises

-----------------------------------------------------------------------------
(***************************************************************************)
(* The two operations.                                                     *)
(***************************************************************************)

\* receive_input admits a well-formed input into the window while its key is below the
\* limit, and then entry and log grow together; or it leaves both alone.
Admits(p, input, entry) ==
    LET log == AdmittedLog(p, input.tick)
        key == <<p, input.tick>>
    IN  /\ input \in WellFormed
        /\ input.tick \in floor .. tick + max_future_ticks
        /\ log \in Seq(WellFormed)
        /\ log = << >> \/ Len(log) < per_tick_limit
        /\ entry \in Entries
        /\ Summarises(entry, Append(log, input))
        /\ input_buffer' = MapInsert(input_buffer, key, entry)
        /\ admitted' = MapInsert(admitted, key, Append(log, input))
        /\ UNCHANGED <<tick, applied>>

\* Each call of receive_input does one of the two.
LEMMA ReceiveAdmits ==
    ASSUME WindowInv, NEW p \in Players, NEW input \in InputCmd, receive_input(p, input)
    PROVE  (\E entry : Admits(p, input, entry)) \/ UNCHANGED window_vars
<1>1. PICK key, log, b : /\ key = <<p, input.tick>>
                         /\ log = AdmittedLog(p, input.tick)
                         /\ b = validate_input(input, tick, floor, input_buffer, p)
  OBVIOUS
<1>2. /\ input_buffer' = b
      /\ admitted' = IF b # input_buffer THEN MapInsert(admitted, key, Append(log, input))
                     ELSE admitted
      /\ UNCHANGED <<tick, applied>>
  BY <1>1 DEF receive_input
<1>3. CASE b = input_buffer
  BY <1>2, <1>3 DEF window_vars
<1>4. CASE b # input_buffer
  <2>1. Verdict(input, tick, floor) = "Bufferable"
    BY <1>1, <1>4 DEF validate_input
  <2>2. /\ input.move_dir # Malformed
        /\ ~(input.tick < floor)
        /\ ~(input.tick > tick + max_future_ticks)
    BY <2>1 DEF Verdict
  <2>3. /\ input \in WellFormed
        /\ input \in [tick : Nat, input_seq : Nat, move_dir : Int]
    BY <2>2, WellFormedInput
  <2>4. input.tick \in floor .. tick + max_future_ticks
    BY <2>2, <2>3, WindowAssumption, ValidationConfigAssumption
       DEF floor, WindowInv, WindowTypeOK
  <2>5. b = try_buffer(input_buffer, p, input)
    BY <1>1, <2>1 DEF validate_input
  <2>6. DOMAIN input_buffer = DOMAIN admitted
    BY SummaryOfAll DEF WindowInv
  <2>7. CASE key \notin DOMAIN input_buffer
    <3>1. log = << >>
      BY <1>1, <2>6, <2>7 DEF AdmittedLog, MapGet
    <3>2. b = MapInsert(input_buffer, key, BufferEntry(input))
      BY <1>1, <2>5, <2>7 DEF try_buffer
    <3>3. log \in Seq(WellFormed)
      BY <3>1
    <3>4. BufferEntry(input) \in Entries /\ Summarises(BufferEntry(input), Append(log, input))
      BY <2>3, <3>1, FirstEntry
    <3>5. Admits(p, input, BufferEntry(input))
      BY <1>1, <1>2, <1>4, <2>3, <2>4, <3>1, <3>2, <3>3, <3>4 DEF Admits
    <3> QED
      BY <3>5
  <2>8. CASE key \in DOMAIN input_buffer
    <3>1. PICK entry, grown : entry = input_buffer[key] /\ grown = UpdatedEntry(entry, input)
      OBVIOUS
    <3>2. /\ log = admitted[key] /\ log \in Seq(WellFormed)
          /\ entry \in Entries /\ Summarises(entry, log)
      BY <1>1, <2>6, <2>8, <3>1, SummaryOfAll DEF AdmittedLog, MapGet, WindowInv, WindowTypeOK
    <3>3. ~(entry.receive_count >= per_tick_limit) /\ b = MapInsert(input_buffer, key, grown)
      BY <1>1, <1>4, <2>5, <2>8, <3>1 DEF try_buffer
    <3>4. Len(log) < per_tick_limit
      <4>1. entry.receive_count = Len(log) /\ Len(log) \in Nat
        BY <3>2 DEF Summarises
      <4> QED
        BY <3>3, <4>1, LimitIsInt
    <3>5. grown \in Entries /\ Summarises(grown, Append(log, input))
      BY <2>3, <3>1, <3>2, GrownEntry
    <3>6. Admits(p, input, grown)
      BY <1>1, <1>2, <1>4, <2>3, <2>4, <3>2, <3>3, <3>4, <3>5 DEF Admits
    <3> QED
      BY <3>6
  <2> QED
    BY <2>7, <2>8
<1> QED
  BY <1>3, <1>4

\* An input that is admitted keeps the invariant.
LEMMA AdmitKeepsInv ==
    ASSUME WindowInv, NEW p \in Players, NEW input, NEW entry, Admits(p, input, entry)
    PROVE  WindowInv'
<1>1. PICK key, log, grown : /\ key = <<p, input.tick>>
                             /\ log = AdmittedLog(p, input.tick)
                             /\ grown = Append(log, input)
  OBVIOUS
<1>2. /\ input \in WellFormed /\ log \in Seq(WellFormed)
      /\ log = << >> \/ Len(log) < per_tick_limit
      /\ entry \in Entries /\ Summarises(entry, grown)
      /\ input_buffer' = MapInsert(input_buffer, key, entry)
      /\ admitted' = MapInsert(admitted, key, grown)
      /\ tick' = tick
  BY <1>1 DEF Admits
<1>3. key \in Players \X Nat
  BY <1>1, <1>2, WindowAssumption DEF WellFormed
<1>4. grown \in Seq(WellFormed) /\ Len(grown) = Len(log) + 1 /\ Len(log) \in Nat
  BY <1>1, <1>2
<1>5. /\ DOMAIN input_buffer' = DOMAIN input_buffer \cup {key}
      /\ DOMAIN admitted' = DOMAIN admitted \cup {key}
      /\ input_buffer'[key] = entry /\ admitted'[key] = grown
      /\ \A k \in DOMAIN input_buffer : k # key => input_buffer'[k] = input_buffer[k]
      /\ \A k \in DOMAIN admitted : k # key => admitted'[k] = admitted[k]
      /\ admitted' = [k \in DOMAIN admitted' |-> admitted'[k]]
      /\ input_buffer' = [k \in DOMAIN input_buffer' |-> input_buffer'[k]]
  BY <1>2 DEF MapInsert
<1>6. WindowTypeOK'
  <2>1. \A k \in DOMAIN admitted' : admitted'[k] \in Seq(WellFormed)
    BY <1>4, <1>5 DEF WindowInv, WindowTypeOK
  <2>2. \A k \in DOMAIN input_buffer' : input_buffer'[k] \in Entries
    BY <1>2, <1>5 DEF WindowInv, WindowTypeOK
  <2>3. tick' \in Nat /\ DOMAIN admitted' \subseteq Players \X Nat
    BY <1>2, <1>3, <1>5 DEF WindowInv, WindowTypeOK
  <2> QED
    BY <1>5, <2>1, <2>2, <2>3 DEF WindowTypeOK
<1>7. EntrySummarisesLog'
  <2>1. /\ DOMAIN input_buffer = DOMAIN admitted
        /\ \A k \in DOMAIN input_buffer : Summarises(input_buffer[k], admitted[k])
    BY SummaryOfAll DEF WindowInv
  <2>2. /\ DOMAIN input_buffer' = DOMAIN admitted'
        /\ \A k \in DOMAIN input_buffer' : Summarises(input_buffer'[k], admitted'[k])
    BY <1>2, <1>5, <2>1
  <2> QED
    BY <2>2 DEF EntrySummarisesLog, Summarises
<1>8. RateLimited'
  <2>1. Len(grown) = 1 \/ Len(grown) <= per_tick_limit
    BY <1>2, <1>4, LimitIsInt
  <2> QED
    BY <1>5, <2>1 DEF WindowInv, RateLimited
<1> QED
  BY <1>6, <1>7, <1>8 DEF WindowInv

\* step forgets entry and log of the same keys.
LEMMA StepKeepsInv == WindowInv /\ step => WindowInv'
<1> SUFFICES ASSUME WindowInv, step PROVE WindowInv'
  OBVIOUS
<1>1. /\ DOMAIN input_buffer = DOMAIN admitted
      /\ \A k \in DOMAIN input_buffer : Summarises(input_buffer[k], admitted[k])
  BY SummaryOfAll DEF WindowInv
<1>2. tick \in Nat /\ DOMAIN admitted \subseteq Players \X Nat
  BY DEF WindowInv, WindowTypeOK
<1>3. \A k \in DOMAIN admitted : k[1] \in Players /\ k[2] \in Nat /\ k = <<k[1], k[2]>>
  BY <1>2
<1>4. /\ DOMAIN admitted' = {k \in DOMAIN admitted : k[2] > tick}
      /\ \A k \in DOMAIN admitted' : admitted'[k] = admitted[k]
      /\ admitted' = [k \in DOMAIN admitted' |-> admitted'[k]]
  BY DEF step, Restrict
<1>5. /\ DOMAIN input_buffer' =
             {k \in DOMAIN input_buffer : k \notin Players \X {tick} /\ k[2] >= tick + 1}
      /\ \A k \in DOMAIN input_buffer' : input_buffer'[k] = input_buffer[k]
      /\ input_buffer' = [k \in DOMAIN input_buffer' |-> input_buffer'[k]]
  BY DEF step, evict_before, MapRemove, Restrict
<1>6. DOMAIN input_buffer' = DOMAIN admitted'
  <2>1. ASSUME NEW k \in DOMAIN admitted
        PROVE  (k \notin Players \X {tick} /\ k[2] >= tick + 1) <=> k[2] > tick
    BY <1>2, <1>3
  <2> QED
    BY <1>1, <1>4, <1>5, <2>1
<1>7. WindowTypeOK'
  <2>1. \A k \in DOMAIN admitted' : admitted'[k] \in Seq(WellFormed)
    BY <1>4 DEF WindowInv, WindowTypeOK
  <2>2. \A k \in DOMAIN input_buffer' : input_buffer'[k] \in Entries
    BY <1>5 DEF WindowInv, WindowTypeOK
  <2>3. tick' \in Nat
    BY <1>2 DEF step
  <2>4. DOMAIN admitted' \subseteq Players \X Nat
    BY <1>2, <1>4
  <2> QED
    BY <1>4, <1>5, <2>1, <2>2, <2>3, <2>4 DEF WindowTypeOK
<1>8. EntrySummarisesLog'
  <2>1. \A k \in DOMAIN input_buffer' : Summarises(input_buffer'[k], admitted'[k])
    BY <1>1, <1>4, <1>5, <1>6
  <2> QED
    BY <1>6, <2>1 DEF EntrySummarisesLog, Summarises
<1>9. RateLimited'
  BY <1>4 DEF WindowInv, RateLimited
<1> QED
  BY <1>7, <1>8, <1>9 DEF WindowInv

\* The inductive invariant of the input window.
LEMMA Window == WindowSpec => []WindowInv
<1>1. WindowInit => WindowInv
  BY DEF WindowInit, EmptyMap, WindowInv, WindowTypeOK, EntrySummarisesLog, RateLimited
<1>2. WindowInv /\ [WindowNext]_window_vars => WindowInv'
  <2> SUFFICES ASSUME WindowInv, [WindowNext]_window_vars PROVE WindowInv'
    OBVIOUS
  <2>1. CASE step
    BY <2>1, StepKeepsInv
  <2>2. CASE \E p \in Players, input \in InputCmd : receive_input(p, input)
    <3>1. PICK p \in Players, input \in InputCmd : receive_input(p, input)
      BY <2>2
    <3>2. CASE \E entry : Admits(p, input, entry)
      BY <3>2, AdmitKeepsInv
    <3>3. CASE UNCHANGED window_vars
      BY <3>3 DEF window_vars, WindowInv, WindowTypeOK, EntrySummarisesLog, RateLimited
    <3> QED
      BY <3>1, <3>2, <3>3, ReceiveAdmits
  <2>3. CASE UNCHANGED window_vars
    BY <2>3 DEF window_vars, WindowInv, WindowTypeOK, EntrySummarisesLog, RateLimited
  <2> QED
    BY <2>1, <2>2, <2>3 DEF WindowNext
<1> QED
  BY <1>1, <1>2, PTL DEF WindowSpec

\* FS-0007's detectability contract: each entry of the buffer (count, greatest sequence
\* number, tie, selected input) is the summary of all the inputs admitted for its key.
THEOREM EntriesSummarise == WindowSpec => []EntrySummarisesLog
<1>1. WindowInv => EntrySummarisesLog
  BY DEF WindowInv
<1> QED
  BY <1>1, Window, PTL

\* The rate limit of try_buffer: no key gathers more than per_tick_limit inputs, but for
\* the first one.
THEOREM RateIsLimited == WindowSpec => []RateLimited
<1>1. WindowInv => RateLimited
  BY DEF WindowInv
<1> QED
  BY <1>1, Window, PTL

-----------------------------------------------------------------------------
(***************************************************************************)
(* The refinement.                                                         *)
(***************************************************************************)

\* What take_input finds in an entry is what the whole log selects.
LEMMA TakenIsSelected ==
    ASSUME WindowInv, NEW p \in Players
    PROVE  TakenDir(p) = Selected!Selection(AdmittedLog(p, tick))
<1>1. PICK key, log : key = <<p, tick>> /\ log = AdmittedLog(p, tick)
  OBVIOUS
<1>2. /\ DOMAIN input_buffer = DOMAIN admitted
      /\ \A k \in DOMAIN input_buffer : Summarises(input_buffer[k], admitted[k])
  BY SummaryOfAll DEF WindowInv
<1>3. CASE key \notin DOMAIN input_buffer
  <2>1. log = << >>
    BY <1>1, <1>2, <1>3 DEF AdmittedLog, MapGet
  <2>2. Selected!Selection(log) = None
    BY <2>1 DEF Selected!Selection, Selected!Winners
  <2> QED
    BY <1>1, <1>3, <2>2 DEF TakenDir, take_input
<1>4. CASE key \in DOMAIN input_buffer
  <2>1. PICK entry : entry = input_buffer[key]
    OBVIOUS
  <2>2. log = admitted[key]
    BY <1>1, <1>2, <1>4 DEF AdmittedLog, MapGet
  <2>3. log \in Seq(WellFormed) /\ entry \in Entries /\ Summarises(entry, log)
    BY <1>2, <1>4, <2>1, <2>2 DEF WindowInv, WindowTypeOK
  <2>4. CASE entry.max_seq_tied
    <3>1. ~\E i \in Selected!Winners(log) : Selected!Winners(log) = {i}
      BY <2>3, <2>4 DEF Summarises
    <3>2. Selected!Selection(log) = None
      BY <3>1 DEF Selected!Selection
    <3> QED
      BY <1>1, <2>1, <2>4, <3>2 DEF TakenDir, take_input
  <2>5. CASE ~entry.max_seq_tied
    <3>1. PICK i \in Selected!Winners(log) : Selected!Winners(log) = {i}
      BY <2>3, <2>5 DEF Summarises
    <3>2. entry.selected = [log[i] EXCEPT !.move_dir = clamp_magnitude(log[i].move_dir)]
      BY <2>3, <3>1 DEF Summarises
    <3>3. log[i] \in [tick : Nat, input_seq : Nat, move_dir : Int]
      BY <2>3, <3>1, LogElement DEF Selected!Winners
    <3>4. entry.selected.move_dir = clamp_magnitude(log[i].move_dir)
      BY <3>2, <3>3
    <3>5. entry.selected # None
      BY <2>3, NoneIsNoInput DEF Entries
    <3>6. TakenDir(p) = clamp_magnitude(log[i].move_dir)
      BY <1>1, <1>4, <2>1, <2>5, <3>4, <3>5 DEF TakenDir, take_input
    <3>7. Selected!Selection(log) = clamp_magnitude(log[i].move_dir)
      BY <3>1 DEF Selected!Selection, Selected!clamp_magnitude, clamp_magnitude,
         Selected!UnitDirs, UnitDirs, Selected!Sign, Sign
    <3> QED
      BY <1>1, <3>6, <3>7
  <2> QED
    BY <2>4, <2>5
<1> QED
  BY <1>3, <1>4

\* An admitted input is an Admit of the selection.
LEMMA AdmitsIsAdmit ==
    ASSUME NEW p \in Players, NEW input, NEW entry, Admits(p, input, entry)
    PROVE  \E i \in WellFormed : Selected!Admit(p, i)
<1>1. Selected!Log(p, input.tick) = AdmittedLog(p, input.tick)
  BY DEF Selected!Log, Selected!MapGet, AdmittedLog, MapGet
<1>2. Selected!Admit(p, input)
  BY <1>1 DEF Admits, Selected!Admit, floor, Selected!MapInsert, MapInsert
<1> QED
  BY <1>2 DEF Admits

\* A tick of the pipeline is a Process of the selection.
LEMMA StepIsProcess == WindowInv /\ step => Selected!Process
<1> SUFFICES ASSUME WindowInv, step PROVE Selected!Process
  OBVIOUS
<1>1. \A p \in Players : Selected!Log(p, tick) = AdmittedLog(p, tick)
  BY DEF Selected!Log, Selected!MapGet, AdmittedLog, MapGet
<1>2. applied' = [p \in Players |-> Append(applied[p], Selected!Selection(Selected!Log(p, tick)))]
  <2>1. \A p \in Players : TakenDir(p) = Selected!Selection(Selected!Log(p, tick))
    BY <1>1, TakenIsSelected
  <2> QED
    BY <2>1 DEF step
<1>3. /\ tick < LastTick /\ tick' = tick + 1
      /\ admitted' = Selected!Restrict(admitted, {key \in DOMAIN admitted : key[2] > tick})
  BY DEF step, Restrict, Selected!Restrict
<1> QED
  BY <1>2, <1>3 DEF Selected!Process

\* The pipeline implements the promise of InputSelection, for every number of players,
\* window, lead and rate limit (try_buffer, take_input, evict_before): four fields per
\* entry decide every tick as the whole log of admitted inputs would, so the decision
\* does not depend on the order they came in.
THEOREM PipelineImplementsSelection == WindowSpec => ImplementsSelection
<1>1. WindowInit => Selected!SelectionInit
  BY DEF WindowInit, EmptyMap, Selected!SelectionInit, Selected!EmptyMap
<1>2. WindowInv /\ [WindowNext]_window_vars => [Selected!SelectionNext]_(Selected!selection_vars)
  <2> SUFFICES ASSUME WindowInv, [WindowNext]_window_vars
               PROVE  [Selected!SelectionNext]_(Selected!selection_vars)
    OBVIOUS
  <2>1. CASE step
    BY <2>1, StepIsProcess DEF Selected!SelectionNext
  <2>2. CASE \E p \in Players, input \in InputCmd : receive_input(p, input)
    <3>1. PICK p \in Players, input \in InputCmd : receive_input(p, input)
      BY <2>2
    <3>2. CASE \E entry : Admits(p, input, entry)
      <4>1. \E i \in WellFormed : Selected!Admit(p, i)
        BY <3>2, AdmitsIsAdmit
      <4> QED
        BY <4>1 DEF Selected!SelectionNext, WellFormed
    <3>3. CASE UNCHANGED window_vars
      BY <3>3 DEF window_vars, Selected!selection_vars
    <3> QED
      BY <3>1, <3>2, <3>3, ReceiveAdmits
  <2>3. CASE UNCHANGED window_vars
    BY <2>3 DEF window_vars, Selected!selection_vars
  <2> QED
    BY <2>1, <2>2, <2>3 DEF WindowNext
<1> QED
  BY <1>1, <1>2, Window, PTL DEF WindowSpec, ImplementsSelection, Selected!SelectionSpec
=============================================================================
