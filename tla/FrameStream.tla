---------------------------- MODULE FrameStream ----------------------------
(***************************************************************************)
(* One worker of modbus_tcp_server_task.c reading its client's byte        *)
(* stream: the accumulator, the loop over the complete frames in it        *)
(* (process_accumulated_frames), and what is shifted to the front.         *)
(*                                                                         *)
(* A byte is named by the request it belongs to and its offset there; the  *)
(* value of the Length field, the last byte of the header, is what the     *)
(* client put there.  A request with an impossible length is a header      *)
(* alone.  TCP delivers the bytes in order, cut anywhere.                  *)
(***************************************************************************)
EXTENDS Naturals, Sequences, FiniteSets

CONSTANTS
  Hdr,       \* bytes up to and with the Length field (6 in the code)
  MinPdu,    \* least Length (2: unit and function)
  Cap,       \* MODBUS_RX_BUF_LEN
  Word16,    \* size of a uint16_t
  PduLens,   \* Length fields the client may send
  SndBuf,    \* answers the connection holds for a client that does not read
  MaxFrames  \* bound: requests in a behaviour

ASSUME StreamAssumption ==
  /\ Hdr \in Nat \ {0}
  /\ MinPdu \in Nat \ {0}
  /\ Cap \in Nat
  /\ Hdr + MinPdu <= Cap
  /\ Word16 \in Nat
  /\ Cap < Word16
  /\ PduLens \subseteq 0 .. Word16 - 1
  /\ SndBuf \in Nat \ {0}
  /\ MaxFrames \in Nat

\* The lengths of the requests that fit the protocol and the buffer.
GoodLens == {l \in PduLens : MinPdu <= l /\ Hdr + l <= Cap}

VARIABLES
  script,     \* the Length fields sent so far
  unread,     \* bytes sent and not received
  accum_buf,  \* the accum_len bytes received and not consumed
  pos,        \* how far process_accumulated_frames has come
  pc,         \* "recv", "parse", "send", or how the worker has ended
  requests,   \* what modbus_protocol_handle was given, call by call
  answers     \* answers in the connection that the client has not read

vars == <<script, unread, accum_buf, pos, pc, requests, answers>>

Byte == [frame : Nat \ {0}, off : Nat \ {0}]

\* The bytes of the i-th request, its Length field being l.
Wire(i, l) ==
  [k \in 1 .. Hdr + (IF l \in GoodLens THEN l ELSE 0) |-> [frame |-> i, off |-> k]]

\* The client writes another request.
Send ==
  /\ Len(script) < MaxFrames
  /\ \E l \in PduLens :
       /\ script' = Append(script, l)
       /\ unread' = unread \o Wire(Len(script) + 1, l)
  /\ UNCHANGED <<accum_buf, pos, pc, requests, answers>>

\* The client reads an answer: it may at any time, and never need.
ClientReads ==
  /\ answers > 0
  /\ answers' = answers - 1
  /\ UNCHANGED <<script, unread, accum_buf, pos, pc, requests>>

(***************************************************************************)
(* The receive loop of modbus_tcp_server_worker_task.                      *)
(***************************************************************************)

\* Variant: recv waits until the buffer is full.
RecvWaitsForAll ==
  /\ pc = "recv"
  /\ Cap - Len(accum_buf) <= Len(unread)
  /\ LET n == Cap - Len(accum_buf)
     IN  /\ accum_buf' = accum_buf \o SubSeq(unread, 1, n)
         /\ unread' = SubSeq(unread, n + 1, Len(unread))
  /\ pc' = "parse"
  /\ pos' = 0
  /\ UNCHANGED <<script, requests, answers>>
Recv ==
  /\ pc = "recv"
  /\ IF Len(accum_buf) >= Cap
     THEN pc' = "overflow" /\ UNCHANGED <<unread, accum_buf>>
     ELSE \E n \in 1 .. Cap - Len(accum_buf) :
            /\ n <= Len(unread)
            /\ accum_buf' = accum_buf \o SubSeq(unread, 1, n)
            /\ unread' = SubSeq(unread, n + 1, Len(unread))
            /\ pc' = "parse"
  /\ pos' = 0
  /\ UNCHANGED <<script, requests, answers>>

\* recv returns 0 or an error.
Hangup ==
  /\ pc = "recv"
  /\ pc' = "gone"
  /\ UNCHANGED <<script, unread, accum_buf, pos, requests, answers>>

(***************************************************************************)
(* process_accumulated_frames                                              *)
(***************************************************************************)

HaveHeader == pos + Hdr <= Len(accum_buf)

\* What the Length field at pos reads as (a byte that is none reads as 0).
pdu_len ==
  LET b == accum_buf[pos + Hdr]
  IN  IF b.off = Hdr THEN script[b.frame] ELSE 0

\* Variant: the header is not counted.
FrameLenNoHeader(l) == l % Word16
frame_len(l) == (l + Hdr) % Word16

\* Variant: the upper limit is missing.
BadLengthNoLimit(l) == l < MinPdu \/ frame_len(l) < Hdr + MinPdu
BadLength(l) ==
  l < MinPdu \/ frame_len(l) < Hdr + MinPdu \/ frame_len(l) > Cap

\* Variant: a frame that ends the buffer waits for more.
CompleteStrict == HaveHeader /\ ~BadLength(pdu_len) /\ pos + frame_len(pdu_len) < Len(accum_buf)
Complete == HaveHeader /\ ~BadLength(pdu_len) /\ pos + frame_len(pdu_len) <= Len(accum_buf)

RejectFrame ==
  /\ pc = "parse"
  /\ HaveHeader
  /\ BadLength(pdu_len)
  /\ pc' = "rejected"
  /\ UNCHANGED <<script, unread, accum_buf, pos, requests, answers>>

\* modbus_protocol_handle answers every request of at least Hdr + MinPdu bytes,
\* so send is always called.
HandleFrame ==
  /\ pc = "parse"
  /\ Complete
  /\ requests' = Append(requests, SubSeq(accum_buf, pos + 1, pos + frame_len(pdu_len)))
  /\ pc' = "send"
  /\ UNCHANGED <<script, unread, accum_buf, pos, answers>>

\* Variant: one byte too many is skipped.
SendSkipsOne ==
  /\ pc = "send"
  /\ answers < SndBuf
  /\ answers' = answers + 1
  /\ pos' = pos + frame_len(pdu_len) + 1
  /\ pc' = "parse"
  /\ UNCHANGED <<script, unread, accum_buf, requests>>
\* send returns when the connection has taken the answer.  It has no timeout
\* (LWIP_SO_SNDTIMEO is 0): until the client reads, a full connection takes none.
SendReturns ==
  /\ pc = "send"
  /\ answers < SndBuf
  /\ answers' = answers + 1
  /\ pos' = pos + frame_len(pdu_len)
  /\ pc' = "parse"
  /\ UNCHANGED <<script, unread, accum_buf, requests>>

\* The connection is lost: send returns an error, which nothing looks at, and recv
\* still returns the bytes that had arrived.
SendFails ==
  /\ pc = "send"
  /\ pos' = pos + frame_len(pdu_len)
  /\ pc' = "parse"
  /\ UNCHANGED <<script, unread, accum_buf, requests, answers>>

\* Variant: the remaining bytes are kept where they are.
ShiftForgotten ==
  /\ pc = "parse"
  /\ ~Complete
  /\ ~(HaveHeader /\ BadLength(pdu_len))
  /\ accum_buf' = SubSeq(accum_buf, 1, Len(accum_buf) - pos)
  /\ pos' = 0
  /\ pc' = "recv"
  /\ UNCHANGED <<script, unread, requests, answers>>
\* The loop has ended: the remaining bytes are shifted to the front (pos is dead
\* until the next call).
Shift ==
  /\ pc = "parse"
  /\ ~Complete
  /\ ~(HaveHeader /\ BadLength(pdu_len))
  /\ accum_buf' = SubSeq(accum_buf, pos + 1, Len(accum_buf))
  /\ pos' = 0
  /\ pc' = "recv"
  /\ UNCHANGED <<script, unread, requests, answers>>

Init ==
  /\ script = <<>>
  /\ unread = <<>>
  /\ accum_buf = <<>>
  /\ pos = 0
  /\ pc = "recv"
  /\ requests = <<>>
  /\ answers = 0

Worker == Recv \/ RejectFrame \/ HandleFrame \/ SendReturns \/ Shift

\* The connection has ended and the bound on requests is reached.
Quiet ==
  /\ pc \in {"gone", "rejected"}
  /\ Len(script) = MaxFrames
  /\ UNCHANGED vars

Next == Send \/ ClientReads \/ Worker \/ SendFails \/ Hangup \/ Quiet

\* The worker runs whenever it can and TCP delivers what was sent.  Nothing makes
\* the client read or the connection fail.
Spec == Init /\ [][Next]_vars /\ WF_vars(Worker)

-----------------------------------------------------------------------------

\* Every variable has its type, and the position is inside the accumulator.
TypeOK ==
  /\ script \in Seq(PduLens)
  /\ unread \in Seq(Byte)
  /\ accum_buf \in Seq(Byte)
  /\ pos \in Nat
  /\ pc = "parse" => pos <= Len(accum_buf)
  /\ pc \in {"recv", "parse", "send", "rejected", "gone", "overflow"}
  /\ requests \in Seq(Seq(Byte))
  /\ answers \in 0 .. SndBuf

\* When the worker receives there is always room: an incomplete frame never fills
\* the accumulator, whatever the client sends and however TCP cuts it.
AlwaysRoom == /\ Len(accum_buf) <= Cap
              /\ pc = "recv" => Len(accum_buf) < Cap
              /\ pc # "overflow"

\* Each call of modbus_protocol_handle gets the bytes of one request, all of them
\* and no others, and the requests come in the order they were sent.
RequestsExact ==
  /\ Len(requests) <= Len(script)
  /\ \A i \in 1 .. Len(requests) : requests[i] = Wire(i, script[i])

\* A worker that waits in recv has answered every request it has received whole.
NoFrameWaits ==
  pc = "recv" => \A i \in 1 .. Len(script) :
    (\E k \in 1 .. Len(accum_buf) :
       accum_buf[k] = [frame |-> i, off |-> Hdr + script[i]] /\ script[i] \in GoodLens)
    => i <= Len(requests)

\* The worker implements OrderedService.
Service == INSTANCE OrderedService WITH
  Good    <- GoodLens,
  sent    <- script,
  handled <- Len(requests),
  link    <- CASE pc \in {"recv", "parse", "send"} -> "up"
               [] pc = "rejected"          -> "rejected"
               [] OTHER                    -> "gone"
ServiceSpec == Service!Spec

\* A request the client has sent is handled in the end, unless the connection
\* ends, if the client never stops reading its answers for good.  A client that
\* does keeps the worker in send (SendReturns) and its later requests unhandled.
RequestsServed ==
  []<>(answers < SndBuf) =>
    \A i \in 1 .. MaxFrames :
      Len(script) >= i ~> (Len(requests) >= i \/ pc \in {"rejected", "gone"})
=============================================================================
