--------------------------- MODULE MCBuildFrontEnd ---------------------------
(* Two files to stage, two test stages, two versions of each input. *)
EXTENDS BuildFrontEnd
CONSTANTS f1, f2, s1, s2
=============================================================================
