---------------------------- MODULE MCReplayFile ----------------------------
(***************************************************************************)
(* Values of ReplayFile's constants that a cfg cannot write.               *)
(***************************************************************************)
EXTENDS ReplayFile

MCTestPlayerIds == <<2, 1>>
=============================================================================
