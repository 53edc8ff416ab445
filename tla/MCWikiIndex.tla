----------------------------- MODULE MCWikiIndex -----------------------------
(* Small instances of WikiIndex for TLC. *)
EXTENDS WikiIndex
=============================================================================
