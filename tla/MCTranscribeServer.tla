------------------------- MODULE MCTranscribeServer -------------------------
(* Instances of TranscribeServer for TLC.                                  *)
EXTENDS TranscribeServer, TLC

\* Queue and handlers treat all jobs alike.
Symmetry == Permutations(Jobs)
=============================================================================
