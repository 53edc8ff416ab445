--------------------------- MODULE MCKnowledgeStore ---------------------------
(* Small instances of KnowledgeStore for TLC. *)
EXTENDS KnowledgeStore, TLC

\* Ids, documents and tasks are interchangeable.
Symmetry == Permutations(Id) \cup Permutations(Doc) \cup Permutations(Task)
=============================================================================
