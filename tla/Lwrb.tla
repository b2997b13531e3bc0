-------------------------------- MODULE Lwrb --------------------------------
(***************************************************************************)
(* The ring buffer of Com/lwrb.c with one writer and one reader, each of   *)
(* which may be interrupted by the other at every access to what they      *)
(* share: the indices and the bytes.  The writer is the receive interrupt  *)
(* of Com/uart_manage (uart_manage_write_to_recv_ring), or hardware that   *)
(* fills a linear block; the reader takes bytes by any of the read calls.  *)
(***************************************************************************)
EXTENDS Naturals, Sequences

CONSTANTS
  Size,  \* buff->size
  Data   \* bytes

ASSUME LwrbAssumption == Size \in Nat \ {0} /\ Data # {}

Index == 0 .. Size - 1
\* Variant: the index does not wrap.
NextUnwrapped(i) == i + 1
Next_(i) == IF i + 1 >= Size THEN 0 ELSE i + 1
At(i, k) == IF i + k >= Size THEN i + k - Size ELSE i + k
SmallerOf(a, b) == IF a < b THEN a ELSE b

VARIABLES
  buff, w_ptr, r_ptr,
  \* The writer's locals.
  wpc,  \* "idle", "clamped", "copy", "linear"
  src,  \* bytes still to be copied
  wl,   \* its copy of w_ptr, advanced as it copies
  \* The reader's locals.
  rpc,  \* "idle", "read", "peek", "skip", "linear"
  n,    \* bytes still to be copied
  rl,   \* where it reads
  out   \* the bytes it has copied

writer == <<wpc, src, wl>>
reader == <<rpc, n, rl, out>>
vars == <<buff, w_ptr, r_ptr, writer, reader>>

\* lwrb_get_full and lwrb_get_free, of the two indices as they were loaded.
\* One of them belongs to the caller, so one load is a step.
Full(w, r) == IF w >= r THEN w - r ELSE Size - (r - w)
\* Variant: a full buffer looks like an empty one.
FreeAll(w, r) == IF w >= r THEN Size - (w - r) ELSE r - w
Free(w, r) == (IF w >= r THEN Size - (w - r) ELSE r - w) - 1

\* The lengths of the linear blocks.
LinearReadLength(w, r) == IF w > r THEN w - r ELSE IF r > w THEN Size - r ELSE 0
LinearWriteLength(w, r) ==
  IF w >= r THEN Size - w - (IF r = 0 THEN 1 ELSE 0) ELSE r - w - 1

(***************************************************************************)
(* The writer.                                                             *)
(***************************************************************************)

Prefix(s, m) == SubSeq(s, 1, SmallerOf(m, Len(s)))

\* uart_manage_write_to_recv_ring limits the length to the free space; nothing
\* is written if there is none.
WriteCall(s) ==
  /\ wpc = "idle"
  /\ src' = Prefix(s, Free(w_ptr, r_ptr))
  /\ wpc' = IF src' = <<>> THEN "idle" ELSE "clamped"
  /\ UNCHANGED <<buff, w_ptr, r_ptr, wl, reader>>

\* lwrb_write_ex does so again.
WriteStart ==
  /\ wpc = "clamped"
  /\ src' = Prefix(src, Free(w_ptr, r_ptr))
  /\ wpc' = IF src' = <<>> THEN "idle" ELSE "copy"
  /\ wl' = w_ptr
  /\ UNCHANGED <<buff, w_ptr, r_ptr, reader>>

\* Hardware is given the linear block.
LinearStart(s) ==
  /\ wpc = "idle"
  /\ s # <<>>
  /\ Len(s) <= LinearWriteLength(w_ptr, r_ptr)
  /\ src' = s
  /\ wpc' = "linear"
  /\ wl' = w_ptr
  /\ UNCHANGED <<buff, w_ptr, r_ptr, reader>>

\* The linear part, then the beginning of the buffer.
WriteByte ==
  /\ wpc \in {"copy", "linear"}
  /\ src # <<>>
  /\ buff' = [buff EXCEPT ![wl] = Head(src)]
  /\ src' = Tail(src)
  /\ wl' = Next_(wl)
  /\ UNCHANGED <<w_ptr, r_ptr, wpc, reader>>

\* Variant: the index is stored before all bytes are.
WriteEndsEarly ==
  /\ wpc = "copy"
  /\ w_ptr' = wl
  /\ wpc' = "idle"
  /\ src' = <<>>
  /\ UNCHANGED <<buff, r_ptr, wl, reader>>

WriteEnds ==
  /\ wpc = "copy"
  /\ src = <<>>
  /\ w_ptr' = wl
  /\ wpc' = "idle"
  /\ UNCHANGED <<buff, r_ptr, src, wl, reader>>

\* lwrb_advance by what the hardware has written, limited to the free space.
Advance ==
  /\ wpc = "linear"
  /\ src = <<>>
  /\ w_ptr' = At(w_ptr, SmallerOf(Full(wl, w_ptr), Free(w_ptr, r_ptr)))
  /\ wpc' = "idle"
  /\ UNCHANGED <<buff, r_ptr, src, wl, reader>>

(***************************************************************************)
(* The reader.                                                             *)
(***************************************************************************)

\* A call begins with the bytes it finds; it copies none if there are none.
Begins(op, from, count) ==
  /\ rpc = "idle"
  /\ rl' = from
  /\ n' = count
  /\ out' = <<>>
  /\ rpc' = IF count = 0 THEN "idle" ELSE op
  /\ UNCHANGED <<buff, w_ptr, r_ptr, writer>>

ReadCall(btr) == Begins("read", r_ptr, SmallerOf(Full(w_ptr, r_ptr), btr))

PeekCall(skip_count, btp) ==
  /\ skip_count < Full(w_ptr, r_ptr)
  /\ Begins("peek", At(r_ptr, skip_count), SmallerOf(Full(w_ptr, r_ptr) - skip_count, btp))

LinearRead == Begins("linear", r_ptr, LinearReadLength(w_ptr, r_ptr))

SkipCall(len) ==
  /\ rpc = "idle"
  /\ rl' = At(r_ptr, SmallerOf(len, Full(w_ptr, r_ptr)))
  /\ n' = 0
  /\ out' = <<>>
  /\ rpc' = "skip"
  /\ UNCHANGED <<buff, w_ptr, r_ptr, writer>>

ReadByte ==
  /\ n > 0
  /\ out' = Append(out, buff[rl])
  /\ rl' = Next_(rl)
  /\ n' = n - 1
  /\ UNCHANGED <<buff, w_ptr, r_ptr, writer, rpc>>

\* lwrb_read_ex and lwrb_skip store the index; lwrb_skip after a linear block
\* computes it.
ReadEnds ==
  /\ rpc \in {"read", "skip", "linear"}
  /\ n = 0
  /\ r_ptr' = IF rpc = "linear"
              THEN At(r_ptr, SmallerOf(Len(out), Full(w_ptr, r_ptr)))
              ELSE rl
  /\ rpc' = "idle"
  /\ UNCHANGED <<buff, w_ptr, writer, n, rl, out>>

PeekEnds ==
  /\ rpc = "peek"
  /\ n = 0
  /\ rpc' = "idle"
  /\ UNCHANGED <<buff, w_ptr, r_ptr, writer, n, rl, out>>

\* "When used, application must ensure there is no active read/write operation".
lwrb_reset ==
  /\ wpc = "idle" /\ rpc = "idle"
  /\ w_ptr' = 0 /\ r_ptr' = 0
  /\ UNCHANGED <<buff, writer, reader>>

Init ==
  /\ buff \in [Index -> Data]
  /\ w_ptr = 0 /\ r_ptr = 0
  /\ wpc = "idle" /\ src = <<>> /\ wl = 0
  /\ rpc = "idle" /\ n = 0 /\ rl = 0 /\ out = <<>>

\* The requests of the two sides, of at most Size bytes.
Requests == UNION {[1 .. m -> Data] : m \in 1 .. Size}

Write ==
  \/ \E s \in Requests : WriteCall(s) \/ LinearStart(s)
  \/ WriteStart \/ WriteByte \/ WriteEnds \/ Advance

Read ==
  \/ \E btr \in 1 .. Size : ReadCall(btr) \/ SkipCall(btr)
  \/ \E skip_count \in 0 .. Size, btp \in 1 .. Size : PeekCall(skip_count, btp)
  \/ LinearRead \/ ReadByte \/ ReadEnds \/ PeekEnds

Next == Write \/ Read \/ lwrb_reset

Spec == Init /\ [][Next]_vars

-----------------------------------------------------------------------------

\* Every variable has its type: no index leaves the buffer.
TypeOK ==
  /\ buff \in [Index -> Data]
  /\ w_ptr \in Index /\ r_ptr \in Index /\ wl \in Index /\ rl \in Index
  /\ wpc \in {"idle", "clamped", "copy", "linear"}
  /\ rpc \in {"idle", "read", "peek", "skip", "linear"}
  /\ src \in Seq(Data) /\ out \in Seq(Data)
  /\ n \in Nat

\* The bytes from r_ptr to w_ptr are the reader's, the others the writer's: the
\* writer stores only outside them and the reader copies only among them,
\* however stale the index of the other side was on which each computed its
\* length (lwrb_get_free, lwrb_get_full).
Apart ==
  LET readable == {At(r_ptr, k - 1) : k \in 1 .. Full(w_ptr, r_ptr)}
  IN  /\ wpc \in {"copy", "linear"} /\ src # <<>> => wl \notin readable
      /\ n > 0 => rl \in readable

\* The ring implements a queue of Size - 1 bytes: the bytes a write has accepted
\* are the bytes it adds, all of them and not before it is done, and reads and
\* peeks, in any interleaving with it, return them in order, once.  The bytes
\* accepted are those already stored from w_ptr to the writer's position and
\* those it has still to copy.
contents == [k \in 1 .. Full(w_ptr, r_ptr) |-> buff[At(r_ptr, k - 1)]]
stored == [k \in 1 .. Full(wl, w_ptr) |-> buff[At(w_ptr, k - 1)]]
accepted ==
  CASE wpc = "idle" -> <<>>
    [] wpc = "clamped" -> src
    [] OTHER -> stored \o src
returned == IF rpc = "idle" THEN out ELSE <<>>
Queue == INSTANCE BoundedQueue WITH
  Capacity <- Size - 1, q <- contents, asked <- accepted, got <- returned
RingSpec == Queue!Spec
=============================================================================
