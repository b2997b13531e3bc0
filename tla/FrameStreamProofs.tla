------------------------- MODULE FrameStreamProofs -------------------------
(***************************************************************************)
(* The framing of a client's byte stream, for any header, buffer and word  *)
(* size: no request is lost, cut or reordered, and the accumulator never   *)
(* fills up.                                                               *)
(***************************************************************************)
EXTENDS FrameStream, Integers, SequenceTheorems, TLAPS

\* The length of a request on the wire.
WL(l) == Hdr + (IF l \in GoodLens THEN l ELSE 0)

LEMMA ConstantTypes ==
  /\ Hdr \in Nat /\ Hdr >= 1 /\ MinPdu \in Nat /\ MinPdu >= 1 /\ Cap \in Nat
  /\ Word16 \in Nat /\ Hdr + MinPdu <= Cap /\ Cap < Word16
  /\ \A l \in PduLens : l \in Nat /\ l < Word16
BY StreamAssumption

LEMMA LengthOnWire ==
  ASSUME NEW l \in PduLens
  PROVE  WL(l) \in Nat /\ WL(l) >= Hdr /\ WL(l) >= 1
BY ConstantTypes DEF WL

LEMMA WireShape ==
  ASSUME NEW i \in Nat \ {0}, NEW l \in PduLens
  PROVE  /\ Wire(i, l) \in Seq(Byte)
         /\ Len(Wire(i, l)) = WL(l)
         /\ \A k \in 1 .. WL(l) : Wire(i, l)[k] = [frame |-> i, off |-> k]
<1>1. Wire(i, l) = [k \in 1 .. WL(l) |-> [frame |-> i, off |-> k]]
  BY DEF Wire, WL
<1>2. WL(l) \in Nat
  BY LengthOnWire
<1>3. \A k \in 1 .. WL(l) : [frame |-> i, off |-> k] \in Byte
  BY <1>2 DEF Byte
<1> QED
  BY <1>1, <1>2, <1>3

\* The frame length as the code computes it, in a word, is exact for the lengths
\* it goes on to accept, and the sanity check accepts exactly the good lengths:
\* a sum that wraps is below the least frame.
LEMMA LengthCheckExact ==
  ASSUME NEW l \in PduLens
  PROVE  /\ BadLength(l) <=> l \notin GoodLens
         /\ l \in GoodLens => frame_len(l) = WL(l)
<1> USE ConstantTypes
<1>1. CASE l + Hdr < Word16
  <2>1. frame_len(l) = l + Hdr
    BY <1>1 DEF frame_len
  <2> QED
    BY <2>1 DEF BadLength, GoodLens, WL
<1>2. CASE l + Hdr >= Word16
  <2>1. l + Hdr = (l + Hdr - Word16) + Word16 /\ l + Hdr - Word16 \in 0 .. Word16 - 1
    BY <1>2
  <2>2. (l + Hdr) % Word16 = l + Hdr - Word16
    BY <2>1
  <2>3. l + Hdr - Word16 < Hdr
    OBVIOUS
  <2>4. BadLength(l)
    BY <2>2, <2>3 DEF BadLength, frame_len
  <2>5. l \notin GoodLens
    BY <1>2 DEF GoodLens
  <2> QED
    BY <2>4, <2>5
<1> QED
  BY <1>1, <1>2

-----------------------------------------------------------------------------
(***************************************************************************)
(* The pending bytes A of a stream whose requests sc have been sent and    *)
(* the first n handled: each byte stands among the others of its request,  *)
(* a request is followed by the next one, and no byte comes twice.  This   *)
(* says that A is the requests n + 1, n + 2, ... one after the other,      *)
(* without a recursive definition.                                         *)
(***************************************************************************)

ByteAt(A, n, sc, k) ==
  /\ A[k].frame \in n + 1 .. Len(sc)
  /\ A[k].off \in 1 .. WL(sc[A[k].frame])
  /\ \A j \in 1 .. WL(sc[A[k].frame]) :
       /\ k + j - A[k].off \in 1 .. Len(A)
       /\ A[k + j - A[k].off] = [frame |-> A[k].frame, off |-> j]
  /\ A[k].off = WL(sc[A[k].frame]) =>
       IF k = Len(A) THEN A[k].frame = Len(sc)
                     ELSE A[k + 1] = [frame |-> A[k].frame + 1, off |-> 1]

Chain(A, n, sc) ==
  /\ n <= Len(sc)
  /\ \A k \in 1 .. Len(A) : ByteAt(A, n, sc, k)
  /\ A # <<>> => A[1] = [frame |-> n + 1, off |-> 1]
  /\ A = <<>> => n = Len(sc)
  /\ \A j, k \in 1 .. Len(A) : A[j] = A[k] => j = k

\* The bytes at the front are those of request n + 1, and no others are.
LEMMA ChainHead ==
  ASSUME NEW A \in Seq(Byte), NEW n \in Nat, NEW sc \in Seq(PduLens), Chain(A, n, sc),
         A # <<>>
  PROVE  /\ n + 1 \in 1 .. Len(sc)
         /\ WL(sc[n + 1]) <= Len(A)
         /\ \A j \in 1 .. WL(sc[n + 1]) : A[j] = [frame |-> n + 1, off |-> j]
         /\ \A k \in 1 .. Len(A) : A[k].frame = n + 1 => k <= WL(sc[n + 1])
<1>1. 1 \in 1 .. Len(A) /\ A[1] = [frame |-> n + 1, off |-> 1]
  BY DEF Chain
<1>2. A[1].frame = n + 1 /\ A[1].off = 1 /\ ByteAt(A, n, sc, 1)
  BY <1>1 DEF Chain
<1>3. n + 1 \in 1 .. Len(sc) /\ sc[n + 1] \in PduLens
  BY <1>2 DEF ByteAt
<1>4. WL(sc[n + 1]) \in Nat /\ WL(sc[n + 1]) >= 1
  BY <1>3, LengthOnWire
<1>5. \A j \in 1 .. WL(sc[n + 1]) : j \in 1 .. Len(A) /\ A[j] = [frame |-> n + 1, off |-> j]
  <2> TAKE j \in 1 .. WL(sc[n + 1])
  <2>1. 1 + j - 1 = j
    BY <1>4
  <2> QED
    BY <1>2, <2>1 DEF ByteAt
<1>6. ASSUME NEW k \in 1 .. Len(A), A[k].frame = n + 1
      PROVE  k <= WL(sc[n + 1])
  <2>1. ByteAt(A, n, sc, k)
    BY DEF Chain
  <2>2. /\ A[k].off \in 1 .. WL(sc[n + 1])
        /\ k + 1 - A[k].off \in 1 .. Len(A)
        /\ A[k + 1 - A[k].off] = [frame |-> n + 1, off |-> 1]
    <3>1. /\ A[k].off \in 1 .. WL(sc[A[k].frame])
          /\ \A j \in 1 .. WL(sc[A[k].frame]) :
               /\ k + j - A[k].off \in 1 .. Len(A)
               /\ A[k + j - A[k].off] = [frame |-> A[k].frame, off |-> j]
      BY <2>1 DEF ByteAt
    <3>2. 1 \in 1 .. WL(sc[A[k].frame])
      BY <1>4, <1>6
    <3> QED
      BY <1>6, <3>1, <3>2
  <2>3. k + 1 - A[k].off = 1
    BY <1>1, <2>2 DEF Chain
  <2> QED
    BY <1>4, <2>2, <2>3
<1>7. WL(sc[n + 1]) <= Len(A)
  <2>1. WL(sc[n + 1]) \in 1 .. WL(sc[n + 1])
    BY <1>4
  <2>2. WL(sc[n + 1]) \in 1 .. Len(A)
    BY <1>5, <2>1
  <2> QED
    BY <1>4, <2>2
<1> QED
  BY <1>3, <1>5, <1>6, <1>7

\* Another request is sent.
LEMMA ChainAppend ==
  ASSUME NEW A \in Seq(Byte), NEW n \in Nat, NEW sc \in Seq(PduLens), Chain(A, n, sc),
         NEW l \in PduLens
  PROVE  Chain(A \o Wire(Len(sc) + 1, l), n, Append(sc, l))
<1> DEFINE N == Len(sc)
           W == Wire(N + 1, l)
           B == A \o W
           sd == Append(sc, l)
<1>1. /\ N \in Nat /\ Len(A) \in Nat /\ W \in Seq(Byte) /\ Len(W) = WL(l)
      /\ WL(l) \in Nat /\ WL(l) >= 1
      /\ \A k \in 1 .. WL(l) : W[k] = [frame |-> N + 1, off |-> k]
  BY WireShape, LengthOnWire
<1>2. /\ Len(sd) = N + 1
      /\ \A i \in 1 .. N : sd[i] = sc[i]
      /\ sd[N + 1] = l
  BY <1>1
<1>3. /\ B \in Seq(Byte) /\ Len(B) = Len(A) + WL(l) /\ B # <<>>
      /\ \A k \in 1 .. Len(A) : B[k] = A[k]
      /\ \A k \in 1 .. WL(l) : B[Len(A) + k] = [frame |-> N + 1, off |-> k]
  BY <1>1
<1> HIDE DEF W, B, sd
<1>4. \A k \in 1 .. Len(A) : A[k].frame \in n + 1 .. N
  BY DEF Chain, ByteAt
<1>5. ASSUME NEW k \in 1 .. Len(A) PROVE ByteAt(B, n, sd, k)
  <2> DEFINE f == A[k].frame
             o == A[k].off
  <2>1. ByteAt(A, n, sc, k) /\ B[k] = A[k] /\ f \in n + 1 .. N /\ sd[f] = sc[f]
    BY <1>2, <1>3, <1>4 DEF Chain
  <2>2. B[k].frame \in n + 1 .. Len(sd) /\ B[k].off \in 1 .. WL(sd[f])
    BY <1>2, <2>1 DEF ByteAt
  <2>3. ASSUME NEW j \in 1 .. WL(sd[f])
        PROVE  k + j - o \in 1 .. Len(B) /\ B[k + j - o] = [frame |-> f, off |-> j]
    <3>1. k + j - o \in 1 .. Len(A) /\ A[k + j - o] = [frame |-> f, off |-> j]
      BY <2>1 DEF ByteAt
    <3> QED
      BY <1>1, <1>3, <3>1
  <2>4. ASSUME o = WL(sd[f])
        PROVE  k # Len(B) /\ B[k + 1] = [frame |-> f + 1, off |-> 1]
    <3>1. k # Len(B)
      BY <1>1, <1>3
    <3>2. CASE k = Len(A)
      <4>1. f = N
        BY <2>1, <2>4, <3>2 DEF ByteAt
      <4> QED
        BY <1>1, <1>3, <3>1, <3>2, <4>1
    <3>3. CASE k # Len(A)
      <4>1. A[k + 1] = [frame |-> f + 1, off |-> 1] /\ k + 1 \in 1 .. Len(A)
        BY <1>1, <2>1, <2>4, <3>3 DEF ByteAt
      <4> QED
        BY <1>3, <3>1, <4>1
    <3> QED
      BY <3>2, <3>3
  <2> QED
    BY <2>1, <2>2, <2>3, <2>4 DEF ByteAt
<1>6. ASSUME NEW i \in 1 .. WL(l) PROVE ByteAt(B, n, sd, Len(A) + i)
  <2> DEFINE k == Len(A) + i
  <2>1. B[k] = [frame |-> N + 1, off |-> i] /\ n + 1 <= N + 1
    BY <1>1, <1>3 DEF Chain
  <2>2. B[k].frame \in n + 1 .. Len(sd) /\ B[k].off \in 1 .. WL(sd[N + 1])
    BY <1>1, <1>2, <2>1
  <2>3. ASSUME NEW j \in 1 .. WL(sd[N + 1])
        PROVE  k + j - i \in 1 .. Len(B) /\ B[k + j - i] = [frame |-> N + 1, off |-> j]
    <3>1. k + j - i = Len(A) + j /\ j \in 1 .. WL(l)
      BY <1>1, <1>2
    <3> QED
      BY <1>1, <1>3, <3>1
  <2>4. i = WL(sd[N + 1]) => k = Len(B) /\ N + 1 = Len(sd)
    BY <1>1, <1>2, <1>3
  <2>5. B[k].frame = N + 1 /\ B[k].off = i
    BY <2>1
  <2> HIDE DEF k
  <2>6. ByteAt(B, n, sd, k)
    BY <2>2, <2>3, <2>4, <2>5 DEF ByteAt
  <2> QED
    BY <2>6 DEF k
<1>7. \A k \in 1 .. Len(B) : ByteAt(B, n, sd, k)
  <2> TAKE k \in 1 .. Len(B)
  <2>1. CASE k <= Len(A)
    BY <1>1, <1>5, <2>1
  <2>2. CASE k > Len(A)
    <3>1. k - Len(A) \in 1 .. WL(l) /\ Len(A) + (k - Len(A)) = k
      BY <1>1, <1>3, <2>2
    <3>2. ByteAt(B, n, sd, Len(A) + (k - Len(A)))
      BY <1>6, <3>1
    <3> QED
      BY <3>1, <3>2
  <2> QED
    BY <1>1, <2>1, <2>2
<1>8. B[1] = [frame |-> n + 1, off |-> 1]
  <2>1. CASE A = <<>>
    <3>1. n = N /\ Len(A) = 0
      BY <2>1 DEF Chain
    <3> QED
      BY <1>1, <1>3, <3>1
  <2>2. CASE A # <<>>
    <3>1. 1 \in 1 .. Len(A) /\ A[1] = [frame |-> n + 1, off |-> 1]
      BY <2>2 DEF Chain
    <3> QED
      BY <1>3, <3>1
  <2> QED
    BY <2>1, <2>2
<1>9. ASSUME NEW j \in 1 .. Len(B), NEW k \in 1 .. Len(B), B[j] = B[k]
      PROVE  j = k
  <2>1. \A m \in 1 .. Len(B) :
          \/ m <= Len(A) /\ B[m] = A[m] /\ B[m].frame <= N
          \/ m > Len(A) /\ B[m] = [frame |-> N + 1, off |-> m - Len(A)]
    <3> TAKE m \in 1 .. Len(B)
    <3>1. CASE m <= Len(A)
      BY <1>1, <1>3, <1>4, <3>1
    <3>2. CASE m > Len(A)
      <4>1. m - Len(A) \in 1 .. WL(l) /\ Len(A) + (m - Len(A)) = m
        BY <1>1, <1>3, <3>2
      <4>2. B[Len(A) + (m - Len(A))] = [frame |-> N + 1, off |-> m - Len(A)]
        BY <1>3, <4>1
      <4> QED
        BY <3>2, <4>1, <4>2
    <3> QED
      BY <1>1, <3>1, <3>2
  <2>2. CASE j <= Len(A) /\ k <= Len(A)
    <3>1. j \in 1 .. Len(A) /\ k \in 1 .. Len(A) /\ A[j] = A[k]
      BY <1>1, <1>3, <1>9, <2>2
    <3> QED
      BY <3>1 DEF Chain
  <2>3. CASE j > Len(A) /\ k > Len(A)
    <3>1. /\ B[j] = [frame |-> N + 1, off |-> j - Len(A)]
          /\ B[k] = [frame |-> N + 1, off |-> k - Len(A)]
      BY <1>1, <1>3, <2>1, <2>3
    <3>2. B[j].off = j - Len(A) /\ B[k].off = k - Len(A)
      BY <3>1
    <3> QED
      BY <1>1, <1>9, <3>2
  <2>4. ASSUME NEW m1 \in 1 .. Len(B), NEW m2 \in 1 .. Len(B), m1 <= Len(A), m2 > Len(A)
        PROVE  B[m1] # B[m2]
    <3>1. B[m1].frame <= N /\ B[m2] = [frame |-> N + 1, off |-> m2 - Len(A)]
      BY <1>1, <1>3, <2>1, <2>4
    <3>2. B[m2].frame = N + 1
      BY <3>1
    <3> QED
      BY <1>1, <3>1, <3>2
  <2> QED
    BY <1>1, <1>3, <1>9, <2>2, <2>3, <2>4
<1> QED
  BY <1>1, <1>2, <1>3, <1>7, <1>8, <1>9 DEF Chain, B, sd, W

\* Request n + 1 is taken off the front.
LEMMA ChainTail ==
  ASSUME NEW A \in Seq(Byte), NEW n \in Nat, NEW sc \in Seq(PduLens), Chain(A, n, sc),
         A # <<>>
  PROVE  Chain(SubSeq(A, WL(sc[n + 1]) + 1, Len(A)), n + 1, sc)
<1> DEFINE W == WL(sc[n + 1])
           B == SubSeq(A, W + 1, Len(A))
<1>1. /\ n + 1 \in 1 .. Len(sc) /\ W <= Len(A)
      /\ \A j \in 1 .. W : A[j] = [frame |-> n + 1, off |-> j]
      /\ \A k \in 1 .. Len(A) : A[k].frame = n + 1 => k <= W
  BY ChainHead
<1>2. W \in Nat /\ W >= 1 /\ Len(A) \in Nat
  BY <1>1, LengthOnWire
<1> HIDE DEF W
<1>3. /\ B \in Seq(Byte) /\ Len(B) = Len(A) - W
      /\ \A k \in 1 .. Len(B) : B[k] = A[k + W]
      /\ B = <<>> <=> Len(A) = W
      /\ Len(B) \in Nat
  <2>1. B \in Seq(Byte) /\ Len(B) = Len(A) - W
    BY <1>1, <1>2
  <2>2. ASSUME NEW k \in 1 .. Len(B) PROVE B[k] = A[k + W]
    <3>1. k \in 1 .. Len(A) - W /\ W + 1 + k - 1 = k + W
      BY <1>2, <2>1
    <3>2. B[k] = A[W + 1 + k - 1]
      BY <1>1, <1>2, <3>1
    <3> QED
      BY <3>1, <3>2
  <2> HIDE DEF B
  <2>3. B = <<>> <=> Len(B) = 0
    BY <2>1
  <2> QED
    BY <1>1, <1>2, <2>1, <2>2, <2>3
<1> HIDE DEF B
<1>4. ASSUME NEW k \in 1 .. Len(B) PROVE ByteAt(B, n + 1, sc, k)
  <2> DEFINE f == B[k].frame
             o == B[k].off
  <2>1. k + W \in 1 .. Len(A) /\ B[k] = A[k + W] /\ k + W > W
    BY <1>2, <1>3
  <2>2. ByteAt(A, n, sc, k + W)
    BY <2>1 DEF Chain
  <2>3. f \in n + 1 .. Len(sc) /\ f # n + 1 /\ o \in 1 .. WL(sc[f])
    BY <1>1, <1>2, <2>1, <2>2 DEF ByteAt
  <2>4. ASSUME NEW j \in 1 .. WL(sc[f])
        PROVE  k + j - o \in 1 .. Len(B) /\ B[k + j - o] = [frame |-> f, off |-> j]
    <3> DEFINE i == k + W + j - o
    <3>1. i \in 1 .. Len(A) /\ A[i] = [frame |-> f, off |-> j]
      BY <2>1, <2>2 DEF ByteAt
    <3>2. i > W
      <4> SUFFICES ASSUME i \in 1 .. W PROVE FALSE
        BY <1>2, <3>1
      <4>1. A[i] = [frame |-> n + 1, off |-> i]
        BY <1>1
      <4> QED
        BY <2>3, <3>1, <4>1
    <3>3. k + j - o \in 1 .. Len(B) /\ i = (k + j - o) + W
      <4>1. k \in Int /\ j \in Int /\ o \in Int /\ i \in Int /\ i <= Len(A)
        BY <2>3, <3>1
      <4>2. i = (k + j - o) + W /\ k + j - o \in Int
        BY <1>2, <4>1
      <4> HIDE DEF i, o
      <4> QED
        BY <1>2, <1>3, <3>2, <4>1, <4>2
    <3> QED
      BY <1>3, <3>1, <3>3
  <2>5. ASSUME o = WL(sc[f])
        PROVE  IF k = Len(B) THEN f = Len(sc) ELSE B[k + 1] = [frame |-> f + 1, off |-> 1]
    <3>1. IF k + W = Len(A) THEN f = Len(sc)
                            ELSE A[k + W + 1] = [frame |-> f + 1, off |-> 1]
      BY <2>1, <2>2, <2>5 DEF ByteAt
    <3>2. k + W = Len(A) <=> k = Len(B)
      BY <1>2, <1>3
    <3>3. k # Len(B) => k + 1 \in 1 .. Len(B)
      BY <1>3
    <3>4. k + 1 + W = k + W + 1
      BY <1>2
    <3> QED
      BY <1>3, <3>1, <3>2, <3>3, <3>4
  <2>6. f \in (n + 1) + 1 .. Len(sc)
    <3>1. f \in n + 1 .. Len(sc) /\ f # n + 1 /\ n \in Nat /\ Len(sc) \in Nat
      BY <1>1, <2>3
    <3> HIDE DEF f
    <3> QED
      BY <3>1
  <2> QED
    BY <2>3, <2>4, <2>5, <2>6 DEF ByteAt
<1>5. ByteAt(A, n, sc, W) /\ A[W].frame = n + 1 /\ A[W].off = W
  <2>1. W \in 1 .. W /\ W \in 1 .. Len(A)
    BY <1>1, <1>2
  <2>2. A[W] = [frame |-> n + 1, off |-> W]
    BY <1>1, <2>1
  <2> QED
    BY <2>1, <2>2 DEF Chain
<1>6. IF W = Len(A) THEN n + 1 = Len(sc) ELSE A[W + 1] = [frame |-> (n + 1) + 1, off |-> 1]
  BY <1>5 DEF ByteAt, W
<1>7. B # <<>> => B[1] = [frame |-> (n + 1) + 1, off |-> 1]
  <2> SUFFICES ASSUME B # <<>> PROVE B[1] = [frame |-> (n + 1) + 1, off |-> 1]
    OBVIOUS
  <2>1. W # Len(A) /\ 1 \in 1 .. Len(B) /\ 1 + W = W + 1
    BY <1>1, <1>2, <1>3
  <2> QED
    BY <1>3, <1>6, <2>1
<1>8. B = <<>> => n + 1 = Len(sc)
  BY <1>3, <1>6
<1>9. ASSUME NEW j \in 1 .. Len(B), NEW k \in 1 .. Len(B), B[j] = B[k]
      PROVE  j = k
  <2>1. /\ j + W \in 1 .. Len(A) /\ k + W \in 1 .. Len(A)
        /\ A[j + W] = A[k + W]
    BY <1>2, <1>3, <1>9
  <2>2. j + W = k + W
    BY <2>1 DEF Chain
  <2> QED
    BY <1>2, <1>3, <2>2
<1>10. n + 1 <= Len(sc)
  BY <1>1
<1>11. Chain(B, n + 1, sc)
  BY <1>4, <1>7, <1>8, <1>9, <1>10 DEF Chain
<1> QED
  BY <1>11 DEF B, W

-----------------------------------------------------------------------------
(***************************************************************************)
(* The inductive invariant.                                                *)
(***************************************************************************)

\* What is not consumed of the accumulator a, and what is not received.
PendingOf(a, u, p) == SubSeq(a, p + 1, Len(a)) \o u

\* How far the requests handled reach: in send, pos is still at the last of them.
done == IF pc = "send" THEN pos + frame_len(pdu_len) ELSE pos

Pending == PendingOf(accum_buf, unread, done)

\* A worker in recv has left no complete and no malformed frame in its buffer.
RecvInv ==
  pc = "recv" => pos = 0 /\ ~Complete /\ ~(HaveHeader /\ BadLength(pdu_len))

\* In send, the frame at pos is the request handled last.
SendInv ==
  pc = "send" =>
    /\ HaveHeader
    /\ Len(requests) \in 1 .. Len(script)
    /\ accum_buf[pos + Hdr] = [frame |-> Len(requests), off |-> Hdr]
    /\ pdu_len \in GoodLens
    /\ pos + frame_len(pdu_len) <= Len(accum_buf)

StreamInv ==
  /\ pos <= Len(accum_buf)
  /\ Chain(Pending, Len(requests), script)
  /\ RecvInv
  /\ SendInv
  /\ AlwaysRoom
  /\ RequestsExact

LEMMA DoneInside ==
  ASSUME TypeOK, StreamInv
  PROVE  /\ done \in Nat
         /\ done <= Len(accum_buf)
         /\ pc # "send" => done = pos
<1>1. pos \in Nat /\ pos <= Len(accum_buf)
  BY DEF TypeOK, StreamInv
<1>2. CASE pc # "send"
  BY <1>1, <1>2 DEF done
<1>3. CASE pc = "send"
  <2>1. pdu_len \in GoodLens /\ pos + frame_len(pdu_len) <= Len(accum_buf)
    BY <1>3 DEF StreamInv, SendInv
  <2>2. pdu_len \in PduLens
    BY <2>1 DEF GoodLens
  <2>3. frame_len(pdu_len) \in Nat
    BY <2>1, <2>2, LengthCheckExact, LengthOnWire
  <2> QED
    BY <1>1, <1>3, <2>1, <2>3 DEF done
<1> QED
  BY <1>2, <1>3

LEMMA PendingShape ==
  ASSUME NEW a \in Seq(Byte), NEW u \in Seq(Byte), NEW p \in Nat, p <= Len(a)
  PROVE  /\ PendingOf(a, u, p) \in Seq(Byte)
         /\ Len(PendingOf(a, u, p)) = Len(a) - p + Len(u)
         /\ \A k \in 1 .. Len(a) - p : PendingOf(a, u, p)[k] = a[p + k]
         /\ \A k \in 1 .. Len(u) : PendingOf(a, u, p)[Len(a) - p + k] = u[k]
<1> DEFINE S == SubSeq(a, p + 1, Len(a))
<1>1. Len(a) \in Nat /\ Len(u) \in Nat
  OBVIOUS
<1>2. /\ S \in Seq(Byte) /\ Len(S) = Len(a) - p
      /\ \A k \in 1 .. Len(a) - p : S[k] = a[p + k]
  <2>1. S \in Seq(Byte) /\ Len(S) = Len(a) - p
    OBVIOUS
  <2>2. ASSUME NEW k \in 1 .. Len(a) - p PROVE S[k] = a[p + k]
    <3>1. p + 1 + k - 1 = p + k
      OBVIOUS
    <3>2. S[k] = a[p + 1 + k - 1]
      BY <2>1
    <3> QED
      BY <3>1, <3>2
  <2> QED
    BY <2>1, <2>2
<1> HIDE DEF S
<1>3. /\ S \o u \in Seq(Byte)
      /\ Len(S \o u) = Len(S) + Len(u)
      /\ \A k \in 1 .. Len(S) + Len(u) :
           (S \o u)[k] = IF k <= Len(S) THEN S[k] ELSE u[k - Len(S)]
  BY <1>2, ConcatProperties
<1> DEFINE A == S \o u
<1> HIDE DEF A
<1>4. /\ A \in Seq(Byte) /\ Len(A) = Len(a) - p + Len(u)
      /\ \A k \in 1 .. Len(a) - p + Len(u) :
           A[k] = IF k <= Len(a) - p THEN S[k] ELSE u[k - (Len(a) - p)]
  BY <1>2, <1>3 DEF A
<1>5. ASSUME NEW k \in 1 .. Len(a) - p PROVE A[k] = a[p + k]
  <2>1. k \in 1 .. Len(a) - p + Len(u) /\ k <= Len(a) - p
    BY <1>1
  <2>2. A[k] = S[k]
    BY <1>4, <2>1
  <2> QED
    BY <1>2, <2>2
<1>6. ASSUME NEW k \in 1 .. Len(u) PROVE A[Len(a) - p + k] = u[k]
  <2> DEFINE m == Len(a) - p + k
  <2>1. m \in 1 .. Len(a) - p + Len(u) /\ ~(m <= Len(a) - p) /\ m - (Len(a) - p) = k
    BY <1>1
  <2> HIDE DEF m
  <2>2. A[m] = u[m - (Len(a) - p)]
    BY <1>4, <2>1
  <2>3. A[m] = u[k]
    BY <2>1, <2>2
  <2> QED
    BY <2>3 DEF m
<1>7. PendingOf(a, u, p) = A
  BY DEF PendingOf, S, A
<1> QED
  BY <1>4, <1>5, <1>6, <1>7

\* ConcatAssociative for bytes.
LEMMA ByteAssociative ==
  \A s \in Seq(Byte), t \in Seq(Byte), u \in Seq(Byte) : (s \o t) \o u = s \o (t \o u)
<1> TAKE s \in Seq(Byte), t \in Seq(Byte), u \in Seq(Byte)
<1> HIDE DEF Byte
<1> QED
  BY ConcatAssociative

\* recv moves bytes from one place to the other, and so does the shift.
LEMMA RecvPending ==
  ASSUME NEW a \in Seq(Byte), NEW u \in Seq(Byte), NEW n \in 1 .. Len(u)
  PROVE  PendingOf(a \o SubSeq(u, 1, n), SubSeq(u, n + 1, Len(u)), 0) = PendingOf(a, u, 0)
<1> DEFINE v == SubSeq(u, 1, n)
           w == SubSeq(u, n + 1, Len(u))
<1>1. v \in Seq(Byte) /\ w \in Seq(Byte) /\ a \o v \in Seq(Byte)
  OBVIOUS
<1>2. v \o w = u
  <2>1. 1 \in 1 .. Len(u) + 1 /\ n \in 1 - 1 .. Len(u) /\ Len(u) \in n .. Len(u)
    OBVIOUS
  <2>2. SubSeq(u, 1, n) \o SubSeq(u, n + 1, Len(u)) = SubSeq(u, 1, Len(u))
    BY <2>1, ConcatAdjacentSubSeq
  <2> QED
    BY <2>2, SubSeqFull
<1> HIDE DEF v, w
<1>3. \A s \in Seq(Byte), t \in Seq(Byte) : PendingOf(s, t, 0) = s \o t
  <2> TAKE s \in Seq(Byte), t \in Seq(Byte)
  <2>1. SubSeq(s, 1, Len(s)) = s /\ 0 + 1 = 1
    BY SubSeqFull
  <2> QED
    BY <2>1, Zenon DEF PendingOf
<1>4. (a \o v) \o w = a \o (v \o w)
  BY <1>1, ByteAssociative, Zenon
<1>5. PendingOf(a \o v, w, 0) = PendingOf(a, u, 0)
  BY <1>1, <1>2, <1>3, <1>4
<1> QED
  BY <1>5 DEF v, w

LEMMA ShiftPending ==
  ASSUME NEW a \in Seq(Byte), NEW u \in Seq(Byte), NEW p \in Nat, p <= Len(a)
  PROVE  PendingOf(SubSeq(a, p + 1, Len(a)), u, 0) = PendingOf(a, u, p)
<1> DEFINE S == SubSeq(a, p + 1, Len(a))
<1>1. S \in Seq(Byte)
  OBVIOUS
<1>2. SubSeq(S, 1, Len(S)) = S /\ 0 + 1 = 1
  BY <1>1, SubSeqFull
<1> QED
  BY <1>2, Zenon DEF PendingOf

LEMMA SendPending ==
  ASSUME NEW a \in Seq(Byte), NEW u \in Seq(Byte), NEW w \in Seq(Byte), NEW p \in Nat,
         p <= Len(a)
  PROVE  PendingOf(a, u \o w, p) = PendingOf(a, u, p) \o w
<1> DEFINE S == SubSeq(a, p + 1, Len(a))
<1>1. S \in Seq(Byte)
  OBVIOUS
<1> HIDE DEF S
<1>2. (S \o u) \o w = S \o (u \o w)
  BY <1>1, ByteAssociative, Zenon
<1> QED
  BY <1>2, Zenon DEF PendingOf, S

\* Consuming a frame takes its bytes off the front.
LEMMA HandlePending ==
  ASSUME NEW a \in Seq(Byte), NEW u \in Seq(Byte), NEW p \in Nat, NEW w \in Nat,
         p + w <= Len(a)
  PROVE  PendingOf(a, u, p + w) =
           SubSeq(PendingOf(a, u, p), w + 1, Len(PendingOf(a, u, p)))
<1> DEFINE A == PendingOf(a, u, p)
           B == PendingOf(a, u, p + w)
           C == SubSeq(A, w + 1, Len(A))
           L == Len(a)
<1>1. L \in Nat /\ Len(u) \in Nat /\ p <= L /\ p + w \in Nat
  OBVIOUS
<1>2. /\ A \in Seq(Byte) /\ Len(A) = L - p + Len(u)
      /\ \A k \in 1 .. L - p : A[k] = a[p + k]
      /\ \A k \in 1 .. Len(u) : A[L - p + k] = u[k]
  BY <1>1, PendingShape
<1>3. /\ B \in Seq(Byte) /\ Len(B) = L - (p + w) + Len(u)
      /\ \A k \in 1 .. L - (p + w) : B[k] = a[p + w + k]
      /\ \A k \in 1 .. Len(u) : B[L - (p + w) + k] = u[k]
  BY <1>1, PendingShape
<1> HIDE DEF A, B
<1>4. /\ C \in Seq(Byte) /\ Len(C) = Len(A) - w
      /\ \A k \in 1 .. Len(A) - w : C[k] = A[k + w]
  <2>1. C \in Seq(Byte) /\ Len(C) = Len(A) - w
    BY <1>1, <1>2
  <2>2. ASSUME NEW k \in 1 .. Len(A) - w PROVE C[k] = A[k + w]
    <3>1. C[k] = A[w + 1 + k - 1] /\ w + 1 + k - 1 = k + w
      BY <1>1, <1>2, <2>1
    <3> QED
      BY <3>1
  <2> QED
    BY <2>1, <2>2
<1> HIDE DEF C
<1>5. Len(B) = Len(C) /\ Len(B) \in Nat
  BY <1>1, <1>2, <1>3, <1>4
<1>6. ASSUME NEW k \in 1 .. Len(B) PROVE B[k] = C[k]
  <2>1. C[k] = A[k + w]
    BY <1>4, <1>5
  <2>2. CASE k <= L - (p + w)
    <3>1. k + w \in 1 .. L - p /\ p + (k + w) = p + w + k /\ k \in 1 .. L - (p + w)
      BY <1>1, <1>5, <2>2
    <3> QED
      BY <1>2, <1>3, <2>1, <3>1
  <2>3. CASE k > L - (p + w)
    <3> DEFINE m == k - (L - (p + w))
    <3>1. m \in 1 .. Len(u) /\ k = L - (p + w) + m /\ k + w = L - p + m
      BY <1>1, <1>3, <1>5, <2>3
    <3> HIDE DEF m
    <3> QED
      BY <1>2, <1>3, <2>1, <3>1
  <2> QED
    BY <1>1, <1>5, <2>2, <2>3
<1>7. B = C
  BY <1>3, <1>4, <1>5, <1>6, SeqEqual
<1> QED
  BY <1>7 DEF A, B, C

\* The Length field the worker reads is that of the next request.
LEMMA FrontFrame ==
  ASSUME TypeOK, StreamInv, HaveHeader, pc # "send"
  PROVE  /\ Pending # <<>>
         /\ Len(requests) + 1 \in 1 .. Len(script)
         /\ script[Len(requests) + 1] \in PduLens
         /\ accum_buf[pos + Hdr] = [frame |-> Len(requests) + 1, off |-> Hdr]
         /\ pdu_len = script[Len(requests) + 1]
<1> DEFINE n == Len(requests)
<1>1. /\ accum_buf \in Seq(Byte) /\ unread \in Seq(Byte) /\ pos <= Len(accum_buf)
      /\ n \in Nat /\ script \in Seq(PduLens) /\ Chain(Pending, n, script)
      /\ pos \in Nat /\ Len(accum_buf) \in Nat /\ Len(unread) \in Nat
  BY DEF StreamInv, TypeOK
<1> Pending = PendingOf(accum_buf, unread, pos)
  BY DoneInside DEF Pending
<1>2. Hdr \in 1 .. Len(accum_buf) - pos
  BY <1>1, ConstantTypes DEF HaveHeader
<1>3. /\ Pending \in Seq(Byte) /\ Len(Pending) = Len(accum_buf) - pos + Len(unread)
      /\ Pending[Hdr] = accum_buf[pos + Hdr]
  BY <1>1, <1>2, PendingShape
<1>4. Pending # <<>>
  BY <1>1, <1>2, <1>3
<1>5. n + 1 \in 1 .. Len(script) /\ script[n + 1] \in PduLens
  BY <1>1, <1>3, <1>4, ChainHead
<1>6. Hdr \in 1 .. WL(script[n + 1])
  BY <1>5, LengthOnWire, ConstantTypes
<1>7. accum_buf[pos + Hdr] = [frame |-> n + 1, off |-> Hdr]
  BY <1>1, <1>3, <1>4, <1>6, ChainHead
<1> QED
  BY <1>4, <1>5, <1>7 DEF pdu_len

LEMMA TypeInit == Init => TypeOK
BY StreamAssumption DEF Init, TypeOK

LEMMA TypeNext ==
  ASSUME TypeOK, StreamInv, [Next]_vars
  PROVE  TypeOK'
<1>0. /\ script \in Seq(PduLens) /\ unread \in Seq(Byte) /\ accum_buf \in Seq(Byte)
      /\ requests \in Seq(Seq(Byte)) /\ pos \in Nat /\ answers \in 0 .. SndBuf
      /\ SndBuf \in Nat \ {0}
  BY StreamAssumption DEF TypeOK
<1>1. CASE Send
  <2>1. PICK l \in PduLens : /\ script' = Append(script, l)
                             /\ unread' = unread \o Wire(Len(script) + 1, l)
    BY <1>1 DEF Send
  <2>2. Wire(Len(script) + 1, l) \in Seq(Byte)
    <3>1. Len(script) + 1 \in Nat \ {0}
      BY <1>0
    <3> QED
      BY <3>1, WireShape
  <2>3. script' \in Seq(PduLens) /\ unread' \in Seq(Byte)
    BY <1>0, <2>1, <2>2
  <2> QED
    BY <1>1, <2>3 DEF Send, TypeOK
<1>2. CASE Recv
  <2>1. CASE Len(accum_buf) >= Cap
    BY <1>2, <2>1 DEF Recv, TypeOK
  <2>2. CASE ~(Len(accum_buf) >= Cap)
    <3>1. PICK n \in 1 .. Cap - Len(accum_buf) :
            /\ n <= Len(unread)
            /\ accum_buf' = accum_buf \o SubSeq(unread, 1, n)
            /\ unread' = SubSeq(unread, n + 1, Len(unread))
            /\ pc' = "parse"
      BY <1>2, <2>2 DEF Recv
    <3>2. SubSeq(unread, 1, n) \in Seq(Byte) /\ unread' \in Seq(Byte)
      BY <1>0, <3>1
    <3>3. accum_buf' \in Seq(Byte)
      BY <1>0, <3>1, <3>2
    <3>4. pos' = 0 /\ Len(accum_buf') \in Nat
      BY <1>2, <3>3 DEF Recv
    <3> QED
      BY <1>2, <3>1, <3>2, <3>3, <3>4 DEF Recv, TypeOK
  <2> QED
    BY <2>1, <2>2
<1>3. CASE RejectFrame \/ Hangup
  BY <1>3 DEF RejectFrame, Hangup, TypeOK
<1>4. CASE HandleFrame
  <2>1. /\ HaveHeader /\ ~BadLength(pdu_len) /\ pos + frame_len(pdu_len) <= Len(accum_buf)
        /\ pc # "send"
    BY <1>4 DEF HandleFrame, Complete
  <2>2. pdu_len \in PduLens
    BY <2>1, FrontFrame
  <2>3. frame_len(pdu_len) \in Nat
    BY <2>1, <2>2, LengthCheckExact, LengthOnWire
  <2>4. SubSeq(accum_buf, pos + 1, pos + frame_len(pdu_len)) \in Seq(Byte)
    BY <1>0, <2>1, <2>3
  <2>5. requests' \in Seq(Seq(Byte))
    BY <1>0, <1>4, <2>4 DEF HandleFrame
  <2> QED
    BY <1>4, <2>5 DEF HandleFrame, TypeOK
<1>7. CASE SendReturns \/ SendFails
  <2>1. /\ pc = "send" /\ pos' = pos + frame_len(pdu_len) /\ pc' = "parse"
        /\ UNCHANGED <<script, unread, accum_buf, requests>>
    BY <1>7 DEF SendReturns, SendFails
  <2>2. pos' \in Nat /\ pos' <= Len(accum_buf')
    BY <2>1, DoneInside DEF done
  <2>3. answers' \in 0 .. SndBuf
    BY <1>0, <1>7 DEF SendReturns, SendFails
  <2> QED
    BY <1>0, <2>1, <2>2, <2>3 DEF TypeOK
<1>8. CASE ClientReads
  <2>1. answers' \in 0 .. SndBuf
    BY <1>0, <1>8 DEF ClientReads
  <2> QED
    BY <1>8, <2>1 DEF ClientReads, TypeOK
<1>5. CASE Shift
  <2>1. accum_buf' \in Seq(Byte)
    BY <1>0, <1>5 DEF Shift
  <2> QED
    BY <1>5, <2>1 DEF Shift, TypeOK
<1>6. CASE UNCHANGED vars
  BY <1>6 DEF vars, TypeOK
<1> QED
  BY <1>1, <1>2, <1>3, <1>4, <1>5, <1>6, <1>7, <1>8 DEF Next, Worker, Quiet

LEMMA StreamInit == Init => StreamInv
<1> SUFFICES ASSUME Init PROVE StreamInv
  OBVIOUS
<1>1. accum_buf = <<>> /\ unread = <<>> /\ pos = 0 /\ script = <<>> /\ requests = <<>>
      /\ pc = "recv"
  BY DEF Init
<1>2. Pending = <<>>
  <2>1. /\ accum_buf \in Seq(Byte) /\ unread \in Seq(Byte) /\ pos \in Nat
        /\ pos <= Len(accum_buf) /\ Len(accum_buf) - pos + Len(unread) = 0
    BY <1>1
  <2>2. Pending \in Seq(Byte) /\ Len(Pending) = 0
    BY <1>1, <2>1, PendingShape DEF Pending, done
  <2> QED
    BY <2>2
<1>3. Chain(Pending, Len(requests), script)
  BY <1>1, <1>2 DEF Chain
<1>4. ~HaveHeader
  BY <1>1, ConstantTypes DEF HaveHeader
<1>5. RecvInv /\ SendInv
  BY <1>1, <1>4 DEF RecvInv, SendInv, Complete
<1>6. AlwaysRoom /\ RequestsExact
  BY <1>1, ConstantTypes DEF AlwaysRoom, RequestsExact
<1> QED
  BY <1>1, <1>3, <1>5, <1>6 DEF StreamInv

LEMMA SendKeeps ==
  ASSUME TypeOK, StreamInv, Send
  PROVE  StreamInv'
<1>1. PICK l \in PduLens : /\ script' = Append(script, l)
                           /\ unread' = unread \o Wire(Len(script) + 1, l)
  BY DEF Send
<1>2. UNCHANGED <<accum_buf, pos, pc, requests>>
  BY DEF Send
<1>3. /\ accum_buf \in Seq(Byte) /\ unread \in Seq(Byte) /\ pos \in Nat
      /\ pos <= Len(accum_buf) /\ script \in Seq(PduLens) /\ Len(requests) \in Nat
      /\ Len(script) + 1 \in Nat \ {0} /\ Chain(Pending, Len(requests), script)
  BY DEF TypeOK, StreamInv
<1>4. /\ Len(script') = Len(script) + 1
      /\ \A i \in 1 .. Len(script) : script'[i] = script[i]
  BY <1>1, <1>3
<1>5. HaveHeader' = HaveHeader
  BY <1>2 DEF HaveHeader
<1>6. HaveHeader => pdu_len' = pdu_len
  <2>1. CASE pc # "send"
    BY <1>2, <1>4, <2>1, FrontFrame DEF pdu_len
  <2>2. CASE pc = "send"
    <3>1. /\ Len(requests) \in 1 .. Len(script)
          /\ accum_buf[pos + Hdr] = [frame |-> Len(requests), off |-> Hdr]
      BY <2>2 DEF StreamInv, SendInv
    <3> QED
      BY <1>2, <1>4, <3>1 DEF pdu_len
  <2> QED
    BY <2>1, <2>2
<1>7. done' = done
  <2>1. CASE pc # "send"
    BY <1>2, <2>1 DEF done
  <2>2. CASE pc = "send"
    <3>1. pdu_len' = pdu_len
      BY <1>6, <2>2 DEF StreamInv, SendInv
    <3> QED
      BY <1>2, <3>1 DEF done, frame_len
  <2> QED
    BY <2>1, <2>2
<1>8. Chain(Pending, Len(requests), script)'
  <2>1. Wire(Len(script) + 1, l) \in Seq(Byte)
    BY <1>3, WireShape
  <2>2. done \in Nat /\ done <= Len(accum_buf)
    BY DoneInside
  <2>3. Pending' = Pending \o Wire(Len(script) + 1, l)
    BY <1>1, <1>2, <1>3, <1>7, <2>1, <2>2, SendPending DEF Pending
  <2>4. Pending \in Seq(Byte)
    BY <1>3, <2>2, PendingShape DEF Pending
  <2>5. Chain(Pending \o Wire(Len(script) + 1, l), Len(requests), Append(script, l))
    BY <1>3, <2>4, ChainAppend
  <2> QED
    BY <1>1, <1>2, <2>3, <2>5
<1>9. RecvInv'
  BY <1>2, <1>5, <1>6 DEF StreamInv, RecvInv, Complete
<1>10. SendInv'
  <2> SUFFICES ASSUME pc = "send" PROVE SendInv'
    BY <1>2 DEF SendInv
  <2>1. /\ HaveHeader /\ Len(requests) \in 1 .. Len(script)
        /\ accum_buf[pos + Hdr] = [frame |-> Len(requests), off |-> Hdr]
        /\ pdu_len \in GoodLens /\ pos + frame_len(pdu_len) <= Len(accum_buf)
    BY DEF StreamInv, SendInv
  <2>2. HaveHeader' /\ pdu_len' = pdu_len
    BY <1>5, <1>6, <2>1
  <2>3. frame_len(pdu_len)' = frame_len(pdu_len)
    BY <2>2 DEF frame_len
  <2>4. Len(requests) \in 1 .. Len(script')
    BY <1>3, <1>4, <2>1
  <2> QED
    BY <1>2, <2>1, <2>2, <2>3, <2>4 DEF SendInv
<1>11. RequestsExact'
  <2>1. \A i \in 1 .. Len(requests) : i \in 1 .. Len(script)
    BY <1>3 DEF StreamInv, RequestsExact
  <2>2. \A i \in 1 .. Len(requests) : requests'[i] = Wire(i, script'[i])
    BY <1>2, <1>4, <2>1 DEF StreamInv, RequestsExact
  <2> QED
    BY <1>2, <1>3, <1>4, <2>2 DEF StreamInv, RequestsExact
<1> QED
  BY <1>2, <1>8, <1>9, <1>10, <1>11 DEF StreamInv, AlwaysRoom

LEMMA RecvKeeps ==
  ASSUME TypeOK, StreamInv, Recv
  PROVE  StreamInv'
<1>1. pc = "recv" /\ pos = 0 /\ Len(accum_buf) < Cap /\ pos' = 0
  BY DEF Recv, StreamInv, RecvInv, AlwaysRoom
<1>2. accum_buf \in Seq(Byte) /\ unread \in Seq(Byte) /\ Len(accum_buf) \in Nat
      /\ Len(unread) \in Nat /\ Cap \in Nat
  BY ConstantTypes DEF TypeOK
<1>3. PICK n \in 1 .. Cap - Len(accum_buf) :
        /\ n <= Len(unread)
        /\ accum_buf' = accum_buf \o SubSeq(unread, 1, n)
        /\ unread' = SubSeq(unread, n + 1, Len(unread))
        /\ pc' = "parse"
  <2>1. ~(Len(accum_buf) >= Cap)
    BY <1>1, <1>2
  <2> QED
    BY <2>1 DEF Recv
<1>4. n \in 1 .. Len(unread) /\ n \in Nat
  BY <1>2, <1>3
<1>5. Pending' = Pending
  <2>1. done = 0 /\ done' = 0
    BY <1>1, <1>3 DEF done
  <2> QED
    BY <1>2, <1>3, <1>4, <2>1, RecvPending DEF Pending
<1>6. UNCHANGED <<script, requests>>
  BY DEF Recv
<1>7. Len(accum_buf') \in Nat /\ Len(accum_buf') <= Cap
  <2>1. SubSeq(unread, 1, n) \in Seq(Byte) /\ Len(SubSeq(unread, 1, n)) = n
    BY <1>2, <1>4
  <2>2. Len(accum_buf') = Len(accum_buf) + n
    BY <1>2, <1>3, <2>1
  <2> QED
    BY <1>2, <1>3, <2>2
<1>8. AlwaysRoom' /\ RecvInv' /\ SendInv'
  BY <1>3, <1>7 DEF AlwaysRoom, RecvInv, SendInv
<1>9. RequestsExact' /\ Chain(Pending, Len(requests), script)'
  BY <1>5, <1>6 DEF StreamInv, RequestsExact
<1> QED
  BY <1>1, <1>7, <1>8, <1>9 DEF StreamInv

\* The frame at pos, its length being good and all its bytes received, is the
\* next request.
LEMMA CompleteFrame ==
  ASSUME TypeOK, StreamInv, Complete, pc # "send"
  PROVE  /\ pdu_len \in GoodLens
         /\ Len(requests) + 1 \in 1 .. Len(script)
         /\ pdu_len = script[Len(requests) + 1]
         /\ Pending # <<>>
         /\ frame_len(pdu_len) = WL(pdu_len)
         /\ pos + WL(pdu_len) <= Len(accum_buf)
         /\ SubSeq(accum_buf, pos + 1, pos + WL(pdu_len)) = Wire(Len(requests) + 1, pdu_len)
<1> DEFINE n == Len(requests)
           W == WL(pdu_len)
           F == SubSeq(accum_buf, pos + 1, pos + W)
<1>1. /\ HaveHeader /\ ~BadLength(pdu_len)
      /\ pos + frame_len(pdu_len) <= Len(accum_buf)
  BY DEF Complete
<1>2. /\ n + 1 \in 1 .. Len(script) /\ pdu_len = script[n + 1] /\ pdu_len \in PduLens
      /\ Pending # <<>>
  BY <1>1, FrontFrame
<1>3. pdu_len \in GoodLens /\ frame_len(pdu_len) = W /\ pos + W <= Len(accum_buf)
  BY <1>1, <1>2, LengthCheckExact
<1>4. W \in Nat /\ W >= 1
  BY <1>2, LengthOnWire
<1>5. /\ accum_buf \in Seq(Byte) /\ unread \in Seq(Byte) /\ pos \in Nat
      /\ Len(accum_buf) \in Nat /\ pos <= Len(accum_buf) /\ n \in Nat
      /\ script \in Seq(PduLens) /\ Chain(Pending, n, script)
  BY DEF TypeOK, StreamInv
<1>6. /\ Pending \in Seq(Byte)
      /\ \A k \in 1 .. Len(accum_buf) - pos : Pending[k] = accum_buf[pos + k]
  <2>1. Pending = PendingOf(accum_buf, unread, pos)
    BY DoneInside DEF Pending
  <2> QED
    BY <1>5, <2>1, PendingShape
<1>7. \A k \in 1 .. W : Pending[k] = [frame |-> n + 1, off |-> k]
  BY <1>2, <1>5, <1>6, ChainHead
<1> HIDE DEF W
<1>8. /\ F \in Seq(Byte) /\ Len(F) = W
      /\ \A k \in 1 .. W : F[k] = [frame |-> n + 1, off |-> k]
  <2>1. F \in Seq(Byte) /\ Len(F) = W
    BY <1>3, <1>4, <1>5
  <2>2. ASSUME NEW k \in 1 .. W PROVE F[k] = [frame |-> n + 1, off |-> k]
    <3>1. F[k] = accum_buf[pos + 1 + k - 1] /\ pos + 1 + k - 1 = pos + k
      BY <1>3, <1>4, <1>5, <2>1
    <3>2. k \in 1 .. Len(accum_buf) - pos
      BY <1>3, <1>4, <1>5
    <3> QED
      BY <1>6, <1>7, <3>1, <3>2
  <2> QED
    BY <2>1, <2>2
<1> DEFINE X == Wire(n + 1, pdu_len)
<1>9. X \in Seq(Byte) /\ Len(X) = W /\ \A k \in 1 .. W : X[k] = [frame |-> n + 1, off |-> k]
  <2>1. n + 1 \in Nat \ {0}
    BY <1>5
  <2> QED
    BY <1>2, <2>1, WireShape DEF W
<1> HIDE DEF F, X
<1>10. F = X
  BY <1>8, <1>9, SeqEqual
<1> QED
  BY <1>2, <1>3, <1>10 DEF F, X, W

LEMMA HandleKeeps ==
  ASSUME TypeOK, StreamInv, HandleFrame
  PROVE  StreamInv'
<1> DEFINE n == Len(requests)
           W == WL(pdu_len)
<1>1. Complete /\ pc = "parse"
  BY DEF HandleFrame
<1>2. /\ n + 1 \in 1 .. Len(script) /\ pdu_len = script[n + 1] /\ Pending # <<>>
      /\ frame_len(pdu_len) = W /\ pos + W <= Len(accum_buf)
      /\ SubSeq(accum_buf, pos + 1, pos + W) = Wire(n + 1, pdu_len)
      /\ pdu_len \in PduLens /\ pdu_len \in GoodLens
  BY <1>1, CompleteFrame DEF GoodLens
<1>3. W \in Nat
  BY <1>2, LengthOnWire
<1>4. /\ requests' = Append(requests, Wire(n + 1, pdu_len)) /\ pc' = "send"
      /\ UNCHANGED <<script, unread, accum_buf, pos>>
  BY <1>2 DEF HandleFrame
<1>5. /\ accum_buf \in Seq(Byte) /\ unread \in Seq(Byte) /\ pos \in Nat
      /\ pos <= Len(accum_buf) /\ n \in Nat /\ requests \in Seq(Seq(Byte))
      /\ script \in Seq(PduLens) /\ Chain(Pending, n, script)
  BY DEF TypeOK, StreamInv
<1>6. /\ Len(requests') = n + 1 /\ requests'[n + 1] = Wire(n + 1, pdu_len)
      /\ \A i \in 1 .. n : requests'[i] = requests[i]
  <2>1. n + 1 \in Nat \ {0}
    BY <1>5
  <2>2. Wire(n + 1, pdu_len) \in Seq(Byte)
    BY <1>2, <2>1, WireShape
  <2> QED
    BY <1>4, <1>5, <2>2, AppendProperties
<1>7. Chain(Pending, Len(requests), script)'
  <2>1. Pending' = SubSeq(Pending, W + 1, Len(Pending))
    <3>1. pdu_len' = pdu_len
      BY <1>4 DEF pdu_len
    <3>2. done = pos /\ done' = pos + W
      BY <1>1, <1>2, <1>4, <3>1 DEF done, frame_len
    <3>3. Pending = PendingOf(accum_buf, unread, pos)
      BY <3>2 DEF Pending
    <3>4. Pending' = PendingOf(accum_buf, unread, pos + W)
      BY <1>4, <3>2 DEF Pending
    <3> HIDE DEF W
    <3> QED
      BY <1>2, <1>3, <1>5, <3>3, <3>4, HandlePending
  <2>2. Pending \in Seq(Byte)
    BY <1>5, DoneInside, PendingShape DEF Pending
  <2>3. Chain(SubSeq(Pending, W + 1, Len(Pending)), n + 1, script)
    BY <1>2, <1>5, <2>2, ChainTail
  <2> QED
    BY <1>4, <1>6, <2>1, <2>3
<1>8. RequestsExact'
  <2>1. \A i \in 1 .. n : requests[i] = Wire(i, script[i])
    BY DEF StreamInv, RequestsExact
  <2>2. ASSUME NEW i \in 1 .. n + 1 PROVE requests'[i] = Wire(i, script'[i])
    <3>1. i \in 1 .. n \/ i = n + 1
      BY <1>5
    <3> QED
      BY <1>2, <1>4, <1>6, <2>1, <3>1
  <2> QED
    BY <1>2, <1>4, <1>6, <2>2 DEF RequestsExact
<1>9. RecvInv' /\ AlwaysRoom'
  BY <1>1, <1>4 DEF StreamInv, RecvInv, AlwaysRoom
<1>10. SendInv'
  <2>1. HaveHeader /\ accum_buf[pos + Hdr] = [frame |-> n + 1, off |-> Hdr]
    BY <1>1, FrontFrame DEF Complete
  <2>2. HaveHeader' /\ pdu_len' = pdu_len
    BY <1>4, <2>1 DEF HaveHeader, pdu_len
  <2>3. frame_len(pdu_len)' = W
    BY <1>2, <2>2 DEF frame_len
  <2> QED
    BY <1>2, <1>4, <1>6, <2>1, <2>2, <2>3 DEF SendInv
<1> QED
  BY <1>4, <1>5, <1>7, <1>8, <1>9, <1>10 DEF StreamInv

\* The worker goes on from send: the frame is consumed, whatever send has answered.
LEMMA SentKeeps ==
  ASSUME TypeOK, StreamInv, SendReturns \/ SendFails
  PROVE  StreamInv'
<1>1. /\ pc = "send" /\ pc' = "parse" /\ pos' = pos + frame_len(pdu_len)
      /\ UNCHANGED <<script, unread, accum_buf, requests>>
  BY DEF SendReturns, SendFails
<1>2. done' = done /\ pos' = done
  BY <1>1 DEF done
<1>3. pos' <= Len(accum_buf')
  BY <1>1, <1>2, DoneInside
<1>4. Chain(Pending, Len(requests), script)'
  BY <1>1, <1>2 DEF StreamInv, Pending
<1>5. RecvInv' /\ SendInv' /\ AlwaysRoom' /\ RequestsExact'
  BY <1>1 DEF StreamInv, RecvInv, SendInv, AlwaysRoom, RequestsExact
<1> QED
  BY <1>3, <1>4, <1>5 DEF StreamInv

LEMMA ShiftKeeps ==
  ASSUME TypeOK, StreamInv, Shift
  PROVE  StreamInv'
<1>1. /\ ~Complete /\ ~(HaveHeader /\ BadLength(pdu_len)) /\ pos' = 0 /\ pc' = "recv"
      /\ pc = "parse"
      /\ accum_buf' = SubSeq(accum_buf, pos + 1, Len(accum_buf))
      /\ UNCHANGED <<script, unread, requests>>
  BY DEF Shift
<1>2. /\ accum_buf \in Seq(Byte) /\ unread \in Seq(Byte) /\ pos \in Nat
      /\ pos <= Len(accum_buf) /\ Len(accum_buf) \in Nat
  BY DEF TypeOK, StreamInv
<1>3. Pending' = Pending
  <2>1. done = pos /\ done' = 0
    BY <1>1 DEF done
  <2> QED
    BY <1>1, <1>2, <2>1, ShiftPending DEF Pending
<1>4. Len(accum_buf') = Len(accum_buf) - pos /\ Len(accum_buf') \in Nat
  BY <1>1, <1>2
<1>5. HaveHeader' <=> HaveHeader
  BY <1>1, <1>2, <1>4, ConstantTypes DEF HaveHeader
<1>6. HaveHeader => accum_buf'[Hdr] = accum_buf[pos + Hdr]
  <2>1. SUFFICES ASSUME HaveHeader PROVE accum_buf'[Hdr] = accum_buf[pos + Hdr]
    OBVIOUS
  <2>2. Hdr \in 1 .. Len(accum_buf) - pos /\ pos + 1 + Hdr - 1 = pos + Hdr
    BY <1>2, <2>1, ConstantTypes DEF HaveHeader
  <2>3. accum_buf'[Hdr] = accum_buf[pos + 1 + Hdr - 1]
    BY <1>1, <1>2, <2>2
  <2> QED
    BY <2>2, <2>3
<1>7. HaveHeader => pdu_len' = pdu_len
  <2>1. 0 + Hdr = Hdr
    BY ConstantTypes
  <2> QED
    BY <1>1, <1>6, <2>1 DEF pdu_len
<1>8. HaveHeader => /\ pdu_len \in GoodLens /\ frame_len(pdu_len) = WL(pdu_len)
                    /\ WL(pdu_len) \in Nat /\ WL(pdu_len) <= Cap
                    /\ pos + WL(pdu_len) > Len(accum_buf)
  <2> SUFFICES ASSUME HaveHeader
               PROVE  /\ pdu_len \in GoodLens /\ frame_len(pdu_len) = WL(pdu_len)
                      /\ WL(pdu_len) \in Nat /\ WL(pdu_len) <= Cap
                      /\ pos + WL(pdu_len) > Len(accum_buf)
    OBVIOUS
  <2>1. pdu_len \in PduLens
    BY <1>1, FrontFrame
  <2>2. ~BadLength(pdu_len)
    BY <1>1
  <2>3. pdu_len \in GoodLens /\ frame_len(pdu_len) = WL(pdu_len)
    BY <2>1, <2>2, LengthCheckExact
  <2>4. WL(pdu_len) \in Nat /\ WL(pdu_len) <= Cap
    BY <2>1, <2>3, LengthOnWire DEF WL, GoodLens
  <2>5. ~(pos + WL(pdu_len) <= Len(accum_buf))
    BY <1>1, <2>2, <2>3 DEF Complete
  <2> QED
    BY <1>2, <2>3, <2>4, <2>5
<1>9. RecvInv'
  <2>1. CASE ~HaveHeader
    BY <1>1, <1>5, <2>1 DEF RecvInv, Complete
  <2>2. CASE HaveHeader
    <3>1. pdu_len' = pdu_len /\ ~BadLength(pdu_len)
      BY <1>1, <1>7, <2>2
    <3>2. ~(0 + WL(pdu_len) <= Len(accum_buf'))
      BY <1>2, <1>4, <1>8, <2>2
    <3>3. ~Complete'
      BY <1>1, <1>8, <2>2, <3>1, <3>2 DEF Complete
    <3>4. ~BadLength(pdu_len)'
      BY <3>1 DEF BadLength, frame_len
    <3> QED
      BY <1>1, <3>3, <3>4 DEF RecvInv
  <2> QED
    BY <2>1, <2>2
<1>10. Len(accum_buf') < Cap
  <2>1. CASE ~HaveHeader
    BY <1>2, <1>4, <2>1, ConstantTypes DEF HaveHeader
  <2>2. CASE HaveHeader
    BY <1>2, <1>4, <1>8, <2>2, ConstantTypes
  <2> QED
    BY <2>1, <2>2
<1>11. AlwaysRoom'
  <2>1. pc' = "recv"
    BY <1>1
  <2> QED
    BY <1>4, <1>10, <2>1, ConstantTypes DEF AlwaysRoom
<1>12. RequestsExact' /\ Chain(Pending, Len(requests), script)'
  BY <1>1, <1>3 DEF StreamInv, RequestsExact
<1>13. pos' <= Len(accum_buf')
  <2>1. pos' = 0
    BY <1>1
  <2> QED
    BY <1>4, <2>1
<1>14. SendInv'
  BY <1>1 DEF SendInv
<1> QED
  BY <1>9, <1>11, <1>12, <1>13, <1>14 DEF StreamInv

LEMMA StreamNext ==
  ASSUME TypeOK, StreamInv, [Next]_vars
  PROVE  StreamInv'
<1>1. CASE RejectFrame \/ Hangup
  <2>1. /\ pc \in {"parse", "recv"} /\ pc' \in {"rejected", "gone"}
        /\ UNCHANGED <<script, unread, accum_buf, pos, requests>>
    BY <1>1 DEF RejectFrame, Hangup
  <2>2. done' = done
    BY <2>1 DEF done
  <2> QED
    BY <2>1, <2>2 DEF StreamInv, Pending, RecvInv, SendInv, AlwaysRoom, RequestsExact
<1>2. CASE ClientReads \/ UNCHANGED vars
  <2>1. UNCHANGED <<script, unread, accum_buf, pos, pc, requests>>
    BY <1>2 DEF ClientReads, vars
  <2>2. pdu_len' = pdu_len
    BY <2>1 DEF pdu_len
  <2>3. /\ UNCHANGED <<HaveHeader, BadLength(pdu_len), frame_len(pdu_len)>>
    BY <2>1, <2>2 DEF HaveHeader, BadLength, frame_len
  <2>4. UNCHANGED <<done, Complete>>
    BY <2>1, <2>2, <2>3 DEF done, Complete
  <2> QED
    BY <2>1, <2>2, <2>3, <2>4 DEF StreamInv, Pending, RecvInv, SendInv, AlwaysRoom,
                                  RequestsExact
<1> QED
  BY <1>1, <1>2, SendKeeps, RecvKeeps, HandleKeeps, SentKeeps, ShiftKeeps
     DEF Next, Worker, Quiet

\* The inductive invariant holds in every reachable state.
THEOREM StreamInvariant == Spec => [](TypeOK /\ StreamInv)
<1>1. Init => TypeOK /\ StreamInv
  BY TypeInit, StreamInit
<1>2. TypeOK /\ StreamInv /\ [Next]_vars => (TypeOK /\ StreamInv)'
  BY TypeNext, StreamNext
<1> QED
  BY <1>1, <1>2, PTL DEF Spec

\* Type correctness: the position stays inside the accumulator.
THEOREM TypeCorrect == Spec => []TypeOK
BY StreamInvariant, PTL

\* The accumulator has room whenever the worker receives.
THEOREM RoomAlways == Spec => []AlwaysRoom
<1>1. TypeOK /\ StreamInv => AlwaysRoom
  BY DEF StreamInv
<1> QED
  BY <1>1, StreamInvariant, PTL

\* Every call of modbus_protocol_handle gets one whole request, in order.
THEOREM RequestsAreExact == Spec => []RequestsExact
<1>1. TypeOK /\ StreamInv => RequestsExact
  BY DEF StreamInv
<1> QED
  BY <1>1, StreamInvariant, PTL

LEMMA NothingComplete ==
  ASSUME TypeOK, StreamInv
  PROVE  NoFrameWaits
<1> SUFFICES ASSUME pc = "recv", NEW i \in 1 .. Len(script), NEW k \in 1 .. Len(accum_buf),
                    accum_buf[k] = [frame |-> i, off |-> Hdr + script[i]],
                    script[i] \in GoodLens, ~(i <= Len(requests))
             PROVE  FALSE
  BY DEF NoFrameWaits
<1> DEFINE n == Len(requests)
           W == WL(script[n + 1])
<1>1. /\ accum_buf \in Seq(Byte) /\ unread \in Seq(Byte) /\ script \in Seq(PduLens)
      /\ Len(accum_buf) \in Nat /\ Len(unread) \in Nat /\ n \in Nat
      /\ pos = 0 /\ ~Complete /\ ~(HaveHeader /\ BadLength(pdu_len))
      /\ Chain(Pending, n, script)
  BY DEF TypeOK, StreamInv, RecvInv
<1>2. /\ Pending \in Seq(Byte) /\ Len(Pending) = Len(accum_buf) - pos + Len(unread)
      /\ \A m \in 1 .. Len(accum_buf) - pos : Pending[m] = accum_buf[pos + m]
  <2>1. pos \in Nat /\ pos <= Len(accum_buf)
    BY DEF TypeOK, StreamInv
  <2>2. accum_buf \in Seq(Byte) /\ unread \in Seq(Byte)
    BY <1>1
  <2>3. Pending = PendingOf(accum_buf, unread, pos)
    BY DoneInside DEF Pending
  <2> QED
    BY <2>1, <2>2, <2>3, PendingShape
<1>3. Pending[k] = accum_buf[k] /\ Pending # <<>>
  <2>1. k \in 1 .. Len(accum_buf) - pos /\ pos + k = k
    BY <1>1
  <2>2. Pending[k] = accum_buf[pos + k]
    BY <1>2, <2>1
  <2>3. Len(Pending) > 0
    BY <1>1, <1>2, <2>1
  <2>4. Pending # <<>>
    BY <2>3
  <2> QED
    BY <2>1, <2>2, <2>4, Zenon
<1>4. /\ n + 1 \in 1 .. Len(script) /\ script[n + 1] \in PduLens
      /\ \A j \in 1 .. W : Pending[j] = [frame |-> n + 1, off |-> j]
  <2>1. /\ Pending \in Seq(Byte) /\ n \in Nat /\ script \in Seq(PduLens)
        /\ Chain(Pending, n, script) /\ Pending # <<>>
    BY <1>1, <1>2, <1>3
  <2>2. /\ n + 1 \in 1 .. Len(script)
        /\ \A j \in 1 .. W : Pending[j] = [frame |-> n + 1, off |-> j]
    BY <2>1, ChainHead
  <2> QED
    BY <2>1, <2>2
<1>5. W \in Nat /\ W >= Hdr
  BY <1>4, LengthOnWire
<1>6. W <= k
  <2> SUFFICES ASSUME k \in 1 .. W PROVE k = W
    BY <1>5
  <2>1. Pending[k] = [frame |-> n + 1, off |-> k]
    BY <1>4
  <2>2. [frame |-> i, off |-> Hdr + script[i]] = [frame |-> n + 1, off |-> k]
    BY <1>3, <2>1
  <2>3. i = n + 1 /\ Hdr + script[i] = k
    BY <2>2
  <2> QED
    BY <2>3 DEF WL
<1>7. HaveHeader
  BY <1>1, <1>5, <1>6, ConstantTypes DEF HaveHeader
<1>8. pdu_len = script[n + 1] /\ ~BadLength(pdu_len)
  BY <1>1, <1>7, FrontFrame
<1>9. frame_len(pdu_len) = W
  BY <1>4, <1>8, LengthCheckExact
<1>10. pos + W <= Len(accum_buf)
  BY <1>1, <1>5, <1>6
<1> QED
  BY <1>1, <1>7, <1>8, <1>9, <1>10 DEF Complete

\* A request that has been received whole is answered before the worker waits again.
THEOREM NothingWaits == Spec => []NoFrameWaits
<1>1. TypeOK /\ StreamInv => NoFrameWaits
  BY NothingComplete
<1> QED
  BY <1>1, StreamInvariant, PTL

-----------------------------------------------------------------------------
(***************************************************************************)
(* The worker implements OrderedService.                                   *)
(***************************************************************************)

\* The rejected request is the next one, and its length is not a good one.
LEMMA RejectedFrame ==
  ASSUME TypeOK, StreamInv, HaveHeader, BadLength(pdu_len), pc # "send"
  PROVE  Len(requests) < Len(script) /\ script[Len(requests) + 1] \notin GoodLens
<1>1. /\ Len(requests) + 1 \in 1 .. Len(script)
      /\ script[Len(requests) + 1] \in PduLens
      /\ pdu_len = script[Len(requests) + 1]
  BY FrontFrame
<1>2. Len(requests) \in Nat /\ Len(script) \in Nat
  BY DEF TypeOK
<1> QED
  BY <1>1, <1>2, LengthCheckExact

LEMMA ServiceInit == Init => Service!Init
BY DEF Init, Service!Init

LEMMA ServiceNext ==
  ASSUME TypeOK, StreamInv, [Next]_vars
  PROVE  [Service!Next]_(Service!vars)
<1>1. CASE Send
  <2>1. \E l \in PduLens : script' = Append(script, l)
    BY <1>1 DEF Send
  <2>2. Service!Send
    BY <1>1, <2>1 DEF Send, Service!Send
  <2> QED
    BY <2>2 DEF Service!Next
<1>2. CASE Recv
  <2>1. pc = "recv" /\ pc' \in {"parse", "overflow"} /\ UNCHANGED <<script, requests>>
    BY <1>2 DEF Recv
  <2>2. Len(accum_buf) < Cap /\ Len(accum_buf) \in Nat
    BY <2>1 DEF StreamInv, AlwaysRoom, TypeOK
  <2>3. pc' = "parse"
    BY <1>2, <2>2, ConstantTypes DEF Recv
  <2> QED
    BY <2>1, <2>3 DEF Service!vars
<1>3. CASE RejectFrame
  <2>1. Len(requests) < Len(script) /\ script[Len(requests) + 1] \notin GoodLens
    BY <1>3, RejectedFrame DEF RejectFrame
  <2>2. Service!Reject
    BY <1>3, <2>1 DEF RejectFrame, Service!Reject
  <2> QED
    BY <2>2 DEF Service!Next
<1>4. CASE HandleFrame
  <2>1. /\ pdu_len \in GoodLens /\ Len(requests) + 1 \in 1 .. Len(script)
        /\ pdu_len = script[Len(requests) + 1]
    BY <1>4, CompleteFrame DEF HandleFrame
  <2>2. Len(requests) \in Nat /\ Len(script) \in Nat /\ requests \in Seq(Seq(Byte))
    BY DEF TypeOK
  <2>3. requests' \in Seq(Seq(Byte))
    BY TypeNext DEF TypeOK
  <2>4. Len(requests') = Len(requests) + 1
    BY <1>4, <2>2 DEF HandleFrame
  <2>5. Service!Handle
    BY <1>4, <2>1, <2>2, <2>4 DEF HandleFrame, Service!Handle
  <2> QED
    BY <2>5 DEF Service!Next
<1>5. CASE Shift \/ SendReturns \/ SendFails \/ ClientReads
  BY <1>5 DEF Shift, SendReturns, SendFails, ClientReads, Service!vars
<1>6. CASE Hangup
  <2>1. Service!Hangup
    BY <1>6 DEF Hangup, Service!Hangup
  <2> QED
    BY <2>1 DEF Service!Next
<1>7. CASE UNCHANGED vars
  BY <1>7 DEF vars, Service!vars
<1> QED
  BY <1>1, <1>2, <1>3, <1>4, <1>5, <1>6, <1>7 DEF Next, Worker, Quiet

\* However TCP cuts the stream, the client sees a server that handles its requests
\* one by one and in order: every behaviour of the worker is one of OrderedService.
THEOREM ImplementsService == Spec => ServiceSpec
<1>1. Init => Service!Init
  BY ServiceInit
<1>2. TypeOK /\ StreamInv /\ [Next]_vars => [Service!Next]_(Service!vars)
  BY ServiceNext
<1> QED
  BY <1>1, <1>2, StreamInvariant, PTL DEF Spec, ServiceSpec, Service!Spec
=============================================================================
