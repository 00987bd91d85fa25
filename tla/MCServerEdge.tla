---------------------------- MODULE MCServerEdge ----------------------------
(***************************************************************************)
(* Values of ServerEdge's constants that a cfg cannot write.               *)
(***************************************************************************)
EXTENDS ServerEdge

\* The unit vector, the opposite one before clamping, one whose square overflows,
\* and one to be dropped.
MCMoveDirs == {1, -2, HugeDir, Malformed}
MCTestPlayerIds == <<2, 1>>
=============================================================================
