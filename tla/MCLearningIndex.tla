---------------------------- MODULE MCLearningIndex ----------------------------
(* Small instances of LearningIndex for TLC. *)
EXTENDS LearningIndex

\* a is like b and b like c, a is not like c; the order of their ids is not the one in
\* which the jobs bring them.  d is in the project's wiki, and so seen by two jobs.
MCLesson(id, project, tags, tooling, path, shingles) ==
  [id |-> id, project |-> project, tags |-> tags, marked |-> FALSE, tooling |-> tooling,
   path |-> path, shingles |-> shingles]
MCA == MCLesson(3, "p", {}, TRUE, FALSE, 1 .. 4)
MCB == MCLesson(1, "q", {}, TRUE, TRUE, 2 .. 5)
MCC == MCLesson(2, "q", {"global"}, FALSE, FALSE, 3 .. 6)
MCD == [MCLesson(4, "p", {}, FALSE, FALSE, 1 .. 4) EXCEPT !.marked = TRUE]
MCLessons == {MCA, MCB, MCC, MCD}

\* The first has no tools; the name of my lint is not one to log; skill lint, corrected after the first and the last, is in half
\* of the sessions of the cluster that those of q and p make.
MCWorkflow(id, project, tools, uses, role) ==
  [id |-> id, project |-> project, prompts |-> {1, 2}, tools |-> tools, uses |-> uses, role |-> role]
MCV == MCWorkflow(5, "p", {}, [s \in {"lint"} |-> 2], "r")
MCW == MCWorkflow(6, "q", {1}, [s \in {"my lint"} |-> 2], "r")
MCX == MCWorkflow(7, "p", {1}, [s \in {"lint", "re-lint"} |-> 2], "r")
MCWorkflows == {MCV, MCW, MCX}

MCSeen == [j \in {1, 2, 3} |-> CASE j = 1 -> <<MCA, MCD, MCV>>
                                 [] j = 2 -> <<MCB, MCW>>
                                 [] j = 3 -> <<MCC, MCD, MCX>>]
MCSuffix == {<<"lint", "lint">>, <<"re-lint", "re-lint">>, <<"my lint", "my lint">>,
             <<"re-lint", "lint">>, <<"my lint", "lint">>}
MCLoggable == {"lint", "re-lint"}
=============================================================================
