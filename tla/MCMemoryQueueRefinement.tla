----------------------- MODULE MCMemoryQueueRefinement -----------------------
(* Small instances of MemoryQueueRefinement for TLC. *)
EXTENDS MemoryQueueRefinement
=============================================================================
