--------------------------- MODULE OrderedService ---------------------------
(***************************************************************************)
(* What a worker of the Modbus TCP server promises its client: requests    *)
(* are handled in the order they were sent, each once, until the client    *)
(* goes away or the next request announces a length no request can have.   *)
(* How TCP cuts the requests into segments plays no part.                  *)
(***************************************************************************)
EXTENDS Naturals, Sequences

CONSTANTS
  PduLens,  \* length fields a client may send
  Good      \* those of the requests the server takes

VARIABLES
  sent,     \* length fields of the client's requests, in order
  handled,  \* how many of them have been handled
  link      \* "up", "rejected" or "gone"

vars == <<sent, handled, link>>

Init == sent = <<>> /\ handled = 0 /\ link = "up"

Send ==
  /\ \E l \in PduLens : sent' = Append(sent, l)
  /\ UNCHANGED <<handled, link>>

Handle ==
  /\ link = "up"
  /\ handled < Len(sent)
  /\ sent[handled + 1] \in Good
  /\ handled' = handled + 1
  /\ UNCHANGED <<sent, link>>

Reject ==
  /\ link = "up"
  /\ handled < Len(sent)
  /\ sent[handled + 1] \notin Good
  /\ link' = "rejected"
  /\ UNCHANGED <<sent, handled>>

Hangup ==
  /\ link = "up"
  /\ link' = "gone"
  /\ UNCHANGED <<sent, handled>>

Next == Send \/ Handle \/ Reject \/ Hangup

Spec == Init /\ [][Next]_vars
=============================================================================
