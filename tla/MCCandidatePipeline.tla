---------------------- MODULE MCCandidatePipeline ----------------------
(***************************************************************************)
(* The instance TLC checks.                                                *)
(***************************************************************************)
EXTENDS CandidatePipeline

ThreePrs == {1, 2, 3}
FirstIsKnown == {1}
OneHunk == {1}
=============================================================================
