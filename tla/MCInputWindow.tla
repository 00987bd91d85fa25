--------------------------- MODULE MCInputWindow ---------------------------
(***************************************************************************)
(* Values of InputWindow's constants that a cfg cannot write.              *)
(***************************************************************************)
EXTENDS InputWindow

\* At and above magnitude 1, and not a vector.
MCMoveDirs == {-1, 3, Malformed}
=============================================================================
