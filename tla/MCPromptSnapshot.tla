--------------------------- MODULE MCPromptSnapshot ---------------------------
(* Small instances of PromptSnapshot for TLC. *)
EXTENDS PromptSnapshot, TLC

\* Committers and pages are interchangeable.
Symmetry == Permutations(Committer) \cup Permutations(WikiPage)
=============================================================================
