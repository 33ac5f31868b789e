------------------------ MODULE MCTranscriptionQueue ------------------------
(* Instances of TranscriptionQueue for TLC.                                *)
EXTENDS TranscriptionQueue, TLC

\* The queue treats all jobs alike.
Symmetry == Permutations(Jobs)
=============================================================================
