---------------------------------- MODULE MCLint ----------------------------------
EXTENDS Lint

CONSTANTS p1, p2, old, new

MCBody  == {old, new}
MCLinks == [b \in MCBody |-> IF b = old THEN {p1} ELSE {}]

\* A page as pk writes it, one without a type, one with a type whose frontmatter names p1,
\* and one that does not parse.
MCDraft ==
  {[kind |-> "file", id |-> NoPage, typed |-> TRUE, described |-> TRUE, body |-> old],
   [kind |-> "file", id |-> NoPage, typed |-> FALSE, described |-> TRUE, body |-> old],
   [kind |-> "file", id |-> p1, typed |-> TRUE, described |-> FALSE, body |-> old],
   Bad}
=============================================================================
