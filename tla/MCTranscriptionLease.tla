------------------------ MODULE MCTranscriptionLease ------------------------
(* Small instances of TranscriptionLease for TLC, with the timing of the code. *)
EXTENDS TranscriptionLease
=============================================================================
