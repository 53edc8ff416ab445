--------------------------- MODULE DeliveryContract ---------------------------
(***************************************************************************)
(* What durable delivery promises about one set of operations, whatever    *)
(* files it keeps: how far the local evidence of an operation may go, and  *)
(* that it never runs ahead of the ledger.  MemoryQueue implements it.     *)
(***************************************************************************)
CONSTANT Op

VARIABLES
  place,   \* what the local records of an operation say, together
  remote   \* the server's ledger

vars == <<place, remote>>

Undecided == {"accepted", "processing"}
Decided   == {"committed", "rejected"}

\* Nothing is delivered yet; records left by earlier runs may be queued, held or
\* parked, and the server has those that are held or parked.
Init ==
  /\ place \in [Op -> {"absent", "queued", "held", "parked"}]
  /\ remote \in [Op -> {"none", "accepted"}]
  /\ \A o \in Op : /\ place[o] \in {"held", "parked"} => remote[o] = "accepted"
                   /\ place[o] = "absent" => remote[o] = "none"

Queue(o) ==
  /\ place[o] = "absent"
  /\ place' = [place EXCEPT ![o] = "queued"]
  /\ UNCHANGED remote

\* The server learns of an operation only while it is queued.
Record(o) ==
  /\ place[o] = "queued" /\ remote[o] = "none"
  /\ remote' = [remote EXCEPT ![o] = "accepted"]
  /\ UNCHANGED place

Advance(o) ==
  /\ remote[o] = "accepted"
  /\ remote' = [remote EXCEPT ![o] = "processing"]
  /\ UNCHANGED place

Decide(o, r) ==
  /\ remote[o] \in Undecided /\ r \in Decided
  /\ remote' = [remote EXCEPT ![o] = r]
  /\ UNCHANGED place

Acknowledge(o) ==
  /\ place[o] = "queued" /\ remote[o] # "none"
  /\ place' = [place EXCEPT ![o] = "held"]
  /\ UNCHANGED remote

\* The only way out: the ledger's decision, recorded once and for ever.
Deliver(o) ==
  /\ place[o] \in {"queued", "held", "parked"} /\ remote[o] = "committed"
  /\ place' = [place EXCEPT ![o] = "completed"]
  /\ UNCHANGED remote

Refuse(o) ==
  /\ place[o] \in {"queued", "held", "parked"} /\ remote[o] = "rejected"
  /\ place' = [place EXCEPT ![o] = "rejected"]
  /\ UNCHANGED remote

Park(o) ==
  /\ place[o] = "held"
  /\ place' = [place EXCEPT ![o] = "parked"]
  /\ UNCHANGED remote

Unpark(o) ==
  /\ place[o] = "parked"
  /\ place' = [place EXCEPT ![o] = "held"]
  /\ UNCHANGED remote

Next ==
  \E o \in Op :
    \/ Queue(o) \/ Acknowledge(o) \/ Deliver(o) \/ Refuse(o) \/ Park(o) \/ Unpark(o)
    \/ Record(o) \/ Advance(o) \/ \E r \in Decided : Decide(o, r)

Spec == Init /\ [][Next]_vars
=============================================================================
