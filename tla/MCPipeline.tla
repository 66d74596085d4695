----------------------------- MODULE MCPipeline -----------------------------
(* Small instances of Pipeline for TLC. *)
EXTENDS PipelineInv, TLC

CONSTANTS s1, s2, s3   (* sources *)

OneSource    == {s1}
TwoSources   == {s1, s2}
AllFail      == Sources \cup {"transform", "sink"}
NoneFails    == {}
SourceSymmetry == Permutations(Sources)
=============================================================================
