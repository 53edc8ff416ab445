------------------------------- MODULE MCRecall -------------------------------
(* Small instances of Recall for TLC. *)
EXTENDS Recall

\* The text t2 is the better match and carries the tag; it has the title and content of t1.
MCText   == {"t1", "t2", "t3"}
MCBody   == [t \in MCText |-> IF t = "t3" THEN "other" ELSE "same"]
MCOffered == {[id |-> 1, text |-> "t1"], [id |-> 1, text |-> "t2"],
              [id |-> 2, text |-> "t2"], [id |-> 2, text |-> "t3"]}
MCHits   == [q \in {"all", "some"} |-> [t \in MCText |-> IF t = "t2" THEN 2 ELSE 1]]
MCServer == {[root |-> "global", label |-> "global"]}
MCAsked  == {[scopes |-> {}, tagged |-> FALSE, query |-> "some"],
             [scopes |-> {"shared", "global"}, tagged |-> TRUE, query |-> "all"]}
=============================================================================
