----------------------------- MODULE MCCandidates -----------------------------
(* Small instances of Candidates for TLC. *)
EXTENDS Candidates
=============================================================================
