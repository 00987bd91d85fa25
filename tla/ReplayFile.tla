----------------------------- MODULE ReplayFile -----------------------------
(***************************************************************************)
(* One server process from start to exit, crates/server/src/main.rs: it    *)
(* plays a match (module ServerEdge) and stores the artifact with          *)
(* write_replay.  It may fail or be killed at any point.  The directory it *)
(* starts with holds whatever earlier processes left there, whole or not,  *)
(* so what holds for one process holds across any number of restarts; two  *)
(* processes never run at once because they bind the same port.            *)
(***************************************************************************)
EXTENDS ServerEdge

CONSTANTS
    Paths,           \* the file names the clock may give
    ForeignBuild       \* a build that none of the processes runs

ASSUME ForeignBuildAssumption == ForeignBuild \notin Fingerprints \cup {None}

\* A final_digest of zero, which no state hashes to, is None.
ASSUME NoneIsNoDigest == None \notin Nat \X Snapshots

VARIABLES
    process,         \* "playing", "storing", "writing", "exit 0" or "failed"
    path,            \* where this process stores its match, or None
    files            \* path -> the file there

file_vars    == <<process, path, files>>
process_vars == <<server_vars, file_vars>>

\* A file is a prefix of an encoded artifact: so many whole fields of it, and
\* perhaps a part of the next.
File(a, fields, torn) == [of |-> a, fields |-> fields, torn |-> torn]

EarlierFile == File(None, 0, FALSE)      \* of an earlier process; never looked into

ProcessInit ==
    /\ ServerInit
    /\ process = "playing"
    /\ path = None
    /\ \E left \in SUBSET Paths : files = [p \in left |-> EarlierFile]

-----------------------------------------------------------------------------
(***************************************************************************)
(* The encoding of ReplayArtifact: its fields in tag order, one entry per  *)
(* element of a repeated message, none for an absent or a zero value.  The *)
(* fields verify_replay does not read are left out, but for end_reason,    *)
(* which comes last.                                                       *)
(***************************************************************************)
Field(name, value) == <<[name |-> name, value |-> value]>>
Repeated(name, s)  == [i \in DOMAIN s |-> [name |-> name, value |-> s[i]]]

encode_to_vec(a) ==
    (IF a.initial_baseline = None THEN << >> ELSE Field("initial_baseline", a.initial_baseline))
    \o Field("tick_rate_hz", tick_rate_hz)
    \o (IF a.entity_spawn_order = << >> THEN << >>
        ELSE Field("entity_spawn_order", a.entity_spawn_order))
    \o Repeated("player_entity_mapping", a.player_entity_mapping)
    \o Repeated("inputs", a.inputs)
    \o (IF a.build_fingerprint = None THEN << >>
        ELSE Field("build_fingerprint", a.build_fingerprint))
    \o Field("final_digest", a.final_digest)
    \o (IF a.checkpoint_tick = 0 THEN << >> ELSE Field("checkpoint_tick", a.checkpoint_tick))
    \o Field("end_reason", "complete")

\* What decoding starts from: every field absent or zero.
default_artifact == [initial_baseline      |-> None,
                     tick_rate_hz          |-> 0,
                     entity_spawn_order    |-> << >>,
                     player_entity_mapping |-> << >>,
                     inputs                |-> << >>,
                     build_fingerprint     |-> None,
                     final_digest          |-> None,
                     checkpoint_tick       |-> 0]

\* A repeated message gains an element, any other field gets the value; end_reason is
\* left out.
merge_field(a, f) ==
    IF f.name = "end_reason" THEN a
    ELSE IF f.name \in {"player_entity_mapping", "inputs"}
    THEN [a EXCEPT ![f.name] = Append(@, f.value)]
    ELSE [a EXCEPT ![f.name] = f.value]

decode_artifact(fields) ==
    LET merged[n \in 0 .. Len(fields)] ==
            IF n = 0 THEN default_artifact ELSE merge_field(merged[n - 1], fields[n])
    IN  merged[Len(fields)]

Whole(file) == ~file.torn /\ file.fields = Len(encode_to_vec(file.of))

\* read_replay; the rest of a torn field is missing and does not decode.
read_replay(file) ==
    IF file.torn THEN None
    ELSE decode_artifact(SubSeq(encode_to_vec(file.of), 1, file.fields))

\* Reading a file and verifying what it holds.  World::new asserts a tick rate.
verify_file(file, options) ==
    LET a == read_replay(file) IN
    IF file.torn
    THEN "InvalidData"
    ELSE IF a.initial_baseline # None /\ validate_input_stream(a) /\ a.tick_rate_hz = 0
    THEN "Panicked"
    ELSE verify_replay(a, options)

-----------------------------------------------------------------------------
(***************************************************************************)
(* The process.                                                            *)
(***************************************************************************)

\* run neither steps nor finalizes before it has accepted a session.
Playing ==
    /\ process = "playing"
    /\ status = "running"
    /\ ServerNext
    /\ (world'.tick # world.tick \/ status' = "finalized") => next_session_id > 1
    /\ UNCHANGED file_vars

\* run returns the artifact and the clock gives it a name, perhaps one in use.
RunReturns(p) ==
    /\ process = "playing"
    /\ status = "finalized"
    /\ process' = "storing"
    /\ path' = p
    /\ UNCHANGED <<server_vars, files>>

\* An error of run, create_dir_all or File::create, a panic, or a kill.
Fails ==
    /\ process \in {"playing", "storing"}
    /\ process' = "failed"
    /\ UNCHANGED <<server_vars, path, files>>

\* AlreadyExists: the match is lost.
RefuseExisting ==
    /\ process = "storing"
    /\ path \in DOMAIN files
    /\ process' = "failed"
    /\ UNCHANGED <<server_vars, path, files>>

CreateFile_mutant_truncates ==
    /\ process = "storing"
    /\ files' = MapInsert(files, path, File(artifact, 0, FALSE))
    /\ process' = "writing"
    /\ UNCHANGED <<server_vars, path>>

CreateFile ==
    /\ process = "storing"
    /\ path \notin DOMAIN files
    /\ files' = MapInsert(files, path, File(artifact, 0, FALSE))
    /\ process' = "writing"
    /\ UNCHANGED <<server_vars, path>>

WriteAll ==
    /\ process = "writing"
    /\ files' = [files EXCEPT ![path].fields = Len(encode_to_vec(artifact))]
    /\ process' = "exit 0"
    /\ UNCHANGED <<server_vars, path>>

\* As if the result of write_all were dropped.
WriteStops_mutant_ignored(fields, torn) ==
    /\ process = "writing"
    /\ fields < Len(encode_to_vec(artifact))
    /\ files' = [files EXCEPT ![path] = File(artifact, fields, torn)]
    /\ process' = "exit 0"
    /\ UNCHANGED <<server_vars, path>>

\* write_all fails, or the process is killed in it: what was written stays.
WriteStops(fields, torn) ==
    /\ process = "writing"
    /\ fields < Len(encode_to_vec(artifact))
    /\ files' = [files EXCEPT ![path] = File(artifact, fields, torn)]
    /\ process' = "failed"
    /\ UNCHANGED <<server_vars, path>>

Exited == process \in {"exit 0", "failed"} /\ UNCHANGED process_vars

ProcessNext ==
    \/ Playing
    \/ \E p \in Paths : RunReturns(p)
    \/ Fails
    \/ RefuseExisting
    \/ CreateFile
    \/ WriteAll
    \/ \E fields \in 0 .. IF process = "writing" THEN Len(encode_to_vec(artifact)) ELSE 0,
          torn \in BOOLEAN : WriteStops(fields, torn)
    \/ Exited

ProcessSpec == ProcessInit /\ [][ProcessNext]_process_vars

-----------------------------------------------------------------------------
(***************************************************************************)
(* Properties.                                                             *)
(***************************************************************************)

\* FS-0007 collision handling (write_replay): whatever the clock says, a file
\* changes only while the process that created it is writing it.
NeverOverwritten ==
    [][\A p \in DOMAIN files :
           /\ p \in DOMAIN files'
           /\ files'[p] = files[p] \/ (process = "writing" /\ path = p)]_process_vars

\* main's exit status: a process that exits with 0 has stored its whole match
\* under its own name.
SuccessMeansStored ==
    process = "exit 0" => /\ path \in DOMAIN files
                          /\ files[path].of = artifact
                          /\ Whole(files[path])

StoredFiles == {p \in DOMAIN files : files[p].of # None}

\* write_replay, read_replay and verify_replay: a whole file verifies as the
\* match itself does, and a file that was cut off anywhere, which may well
\* decode, never passes for a match unless all that verification reads is there.
FilesVerifyAsPlayed ==
    \A p \in StoredFiles, options \in VerifyOptions :
        LET verdict == verify_file(files[p], options) IN
        /\ Whole(files[p]) => verdict = verify_replay(files[p].of, options)
        /\ verdict = "Ok" =>
               \A field \in DOMAIN files[p].of :
                   read_replay(files[p])[field] = files[p].of[field]

\* FS-0007 replay verification, step 1 (verify_replay): a strict verifier of
\* another build never accepts a stored match.
StrictRejectsOtherBuild ==
    \A p \in StoredFiles :
        verify_file(files[p], [current_build |-> ForeignBuild, strict_build_check |-> TRUE]) # "Ok"
=============================================================================
