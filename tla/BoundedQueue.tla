---------------------------- MODULE BoundedQueue ----------------------------
(***************************************************************************)
(* What the ring buffer of Com/lwrb.c promises its writer and its reader:  *)
(* a first-in first-out queue of at most Capacity bytes.                   *)
(***************************************************************************)
EXTENDS Naturals, Sequences

CONSTANT Capacity

VARIABLES
  q,      \* the bytes in the queue, oldest first
  asked,  \* the bytes the queue has accepted and not added yet
  got     \* what the last finished read or peek has returned

vars == <<q, asked, got>>

\* The writer comes with bytes, one request at a time.
Request == asked = <<>> /\ UNCHANGED <<q, got>>

\* Those bytes, all of them and in their order, are added at the end.
Put ==
  /\ q' = q \o asked
  /\ Len(q') <= Capacity
  /\ asked' = <<>>
  /\ UNCHANGED got

Ask == got' = <<>> /\ UNCHANGED <<q, asked>>

Get ==
  \E m \in 0 .. Len(q) :
    /\ got' = SubSeq(q, 1, m)
    /\ q' = SubSeq(q, m + 1, Len(q))
    /\ UNCHANGED asked

Peek ==
  \E k, m \in 0 .. Len(q) :
    /\ k + m <= Len(q)
    /\ got' = SubSeq(q, k + 1, k + m)
    /\ UNCHANGED <<q, asked>>

Skip ==
  \E m \in 0 .. Len(q) :
    /\ q' = SubSeq(q, m + 1, Len(q))
    /\ UNCHANGED <<asked, got>>

\* Only between the writer's requests.
Reset == asked = <<>> /\ q' = <<>> /\ UNCHANGED <<asked, got>>

Init == q = <<>> /\ asked = <<>> /\ got = <<>>
Next == Request \/ Put \/ Ask \/ Get \/ Peek \/ Skip \/ Reset
Spec == Init /\ [][Next]_vars
=============================================================================
