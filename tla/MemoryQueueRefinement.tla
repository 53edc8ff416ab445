------------------------ MODULE MemoryQueueRefinement ------------------------
(***************************************************************************)
(* MemoryQueue implements DeliveryContract.  An operation may have several *)
(* records for a while (one queued again while another is held); the one   *)
(* furthest along tells its place.                                         *)
(***************************************************************************)
EXTENDS MemoryQueue

Place(o) ==
  CASE In("completed", o) -> "completed"
    [] In("rejected", o) /\ ~In("completed", o) -> "rejected"
    [] In("accepted", o) /\ ~In("completed", o) /\ ~In("rejected", o) -> "held"
    [] In("stalled", o) /\ \A d \in {"completed", "rejected", "accepted"} : ~In(d, o) -> "parked"
    [] (\E d \in {"pending", "submitting", "retry"} : In(d, o))
         /\ \A d \in {"completed", "rejected", "accepted", "stalled"} : ~In(d, o) -> "queued"
    [] OTHER -> "absent"

Contract == INSTANCE DeliveryContract WITH place <- [o \in Op |-> Place(o)], remote <- ledger

\* Whatever crashes, commands and duplicates do, the local evidence of an
\* operation goes queued -> held <-> parked -> completed | rejected, only on the
\* ledger's word, and never back (run_once, quarantine, release).
ImplementsContract == Contract!Spec
=============================================================================
