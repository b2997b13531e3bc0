----------------------------- MODULE LwrbProofs -----------------------------
(***************************************************************************)
(* The ring buffer with one writer and one reader, for any size and bytes: *)
(* the two never touch the same byte, and together they are a queue.       *)
(***************************************************************************)
EXTENDS Lwrb, Integers, SequenceTheorems, TLAPS

\* Arithmetic of positions.  Full(i, r) is how far i lies after r on the ring.
LEMMA SizeType == Size \in Nat /\ Size >= 1
BY LwrbAssumption

LEMMA FullType ==
  ASSUME NEW i \in Index, NEW r \in Index
  PROVE  /\ Full(i, r) \in 0 .. Size - 1
         /\ Free(i, r) = Size - 1 - Full(i, r)
         /\ Full(i, i) = 0
         /\ At(r, Full(i, r)) = i
BY SizeType DEF Index, Full, Free, At

LEMMA AtType ==
  ASSUME NEW r \in Index, NEW k \in 0 .. Size - 1
  PROVE  At(r, k) \in Index /\ Full(At(r, k), r) = k
BY SizeType DEF Index, Full, At

LEMMA NextType ==
  ASSUME NEW i \in Index, NEW r \in Index
  PROVE  /\ Next_(i) \in Index
         /\ Full(i, r) + 1 < Size => Full(Next_(i), r) = Full(i, r) + 1
BY SizeType DEF Index, Full, Next_

\* Steps forward add up as long as they stay on the ring.
LEMMA FullAdds ==
  ASSUME NEW i \in Index, NEW w \in Index, NEW r \in Index,
         Full(i, w) + Full(w, r) < Size
  PROVE  Full(i, r) = Full(w, r) + Full(i, w)
BY SizeType DEF Index, Full

LEMMA FullSubtracts ==
  ASSUME NEW i \in Index, NEW w \in Index, NEW r \in Index,
         Full(i, r) <= Full(w, r)
  PROVE  Full(w, i) = Full(w, r) - Full(i, r)
BY SizeType DEF Index, Full

LEMMA AtAdds ==
  ASSUME NEW r \in Index, NEW k \in 0 .. Size - 1, NEW j \in 0 .. Size - 1,
         k + j < Size
  PROVE  At(At(r, k), j) = At(r, k + j)
BY SizeType DEF Index, At

LEMMA SmallerType ==
  ASSUME NEW a \in Int, NEW b \in Int
  PROVE  SmallerOf(a, b) \in {a, b} /\ SmallerOf(a, b) <= a /\ SmallerOf(a, b) <= b
BY DEF SmallerOf

LEMMA PrefixType ==
  ASSUME NEW s \in Seq(Data), NEW m \in Nat
  PROVE  /\ Prefix(s, m) \in Seq(Data)
         /\ Len(Prefix(s, m)) <= m
         /\ Len(Prefix(s, m)) <= Len(s)
         /\ Len(s) <= m => Prefix(s, m) = s
<1>1. Len(s) \in Nat
  OBVIOUS
<1> DEFINE l == SmallerOf(m, Len(s))
<1>2. l \in 0 .. Len(s) /\ l <= m
  BY <1>1, SmallerType DEF SmallerOf
<1>3. SubSeq(s, 1, l) \in Seq(Data) /\ Len(SubSeq(s, 1, l)) = l
  BY <1>1, <1>2
<1>4. Len(s) <= m => l = Len(s)
  BY <1>1, SmallerType DEF SmallerOf
<1>5. SubSeq(s, 1, Len(s)) = s
  BY SubSeqFull
<1> QED
  BY <1>2, <1>3, <1>4, <1>5 DEF Prefix

-----------------------------------------------------------------------------

LEMMA InitType == Init => TypeOK
<1>1. 0 \in Index
  BY SizeType DEF Index
<1>2. <<>> \in Seq(Data)
  OBVIOUS
<1> QED
  BY <1>1, <1>2 DEF Init, TypeOK

LEMMA RequestType == \A s \in Requests : s \in Seq(Data)
BY SizeType DEF Requests

LEMMA BeginsType ==
  ASSUME TypeOK, NEW op \in {"read", "peek", "linear"}, NEW from \in Index,
         NEW count \in Nat, Begins(op, from, count)
  PROVE  TypeOK'
BY DEF TypeOK, Begins, writer

LEMMA ReadLengths ==
  ASSUME TypeOK
  PROVE  /\ \A btr \in 1 .. Size : SmallerOf(Full(w_ptr, r_ptr), btr) \in 0 .. Full(w_ptr, r_ptr)
         /\ LinearReadLength(w_ptr, r_ptr) \in 0 .. Full(w_ptr, r_ptr)
         /\ \A k \in 0 .. Size, btp \in 1 .. Size : k < Full(w_ptr, r_ptr) =>
              /\ k \in 0 .. Size - 1
              /\ SmallerOf(Full(w_ptr, r_ptr) - k, btp) \in Nat
              /\ k + SmallerOf(Full(w_ptr, r_ptr) - k, btp) <= Full(w_ptr, r_ptr)
<1>1. w_ptr \in Index /\ r_ptr \in Index
  BY DEF TypeOK
<1>2. Full(w_ptr, r_ptr) \in 0 .. Size - 1
  BY <1>1, FullType
<1>3. LinearReadLength(w_ptr, r_ptr) \in 0 .. Full(w_ptr, r_ptr)
  BY <1>1, SizeType DEF LinearReadLength, Full, Index
<1> QED
  BY <1>2, <1>3, SizeType DEF SmallerOf

LEMMA NextKeepsType == TypeOK /\ [Next]_vars => TypeOK'
<1> SUFFICES ASSUME TypeOK, [Next]_vars
             PROVE  TypeOK'
  OBVIOUS
<1>1. w_ptr \in Index /\ r_ptr \in Index /\ wl \in Index /\ rl \in Index
  BY DEF TypeOK
<1>2. src \in Seq(Data) /\ out \in Seq(Data) /\ n \in Nat /\ buff \in [Index -> Data]
  BY DEF TypeOK
<1>3. Free(w_ptr, r_ptr) \in Nat /\ Full(w_ptr, r_ptr) \in 0 .. Size - 1
  BY <1>1, FullType, SizeType
<1>4. ASSUME NEW s \in Requests, WriteCall(s)
      PROVE  TypeOK'
  <2>1. src' \in Seq(Data)
    BY <1>3, <1>4, RequestType, PrefixType DEF WriteCall
  <2> QED
    BY <1>4, <2>1 DEF TypeOK, WriteCall, reader
<1>5. ASSUME NEW s \in Requests, LinearStart(s)
      PROVE  TypeOK'
  BY <1>1, <1>5, RequestType DEF TypeOK, LinearStart, reader
<1>6. CASE WriteStart
  <2>1. src' \in Seq(Data)
    BY <1>2, <1>3, <1>6, PrefixType DEF WriteStart
  <2> QED
    BY <1>6, <2>1 DEF TypeOK, WriteStart, reader
<1>7. CASE WriteByte
  <2>1. Head(src) \in Data /\ Tail(src) \in Seq(Data)
    BY <1>2, <1>7 DEF WriteByte
  <2>2. wl' \in Index
    BY <1>1, <1>7, NextType DEF WriteByte
  <2>3. buff' \in [Index -> Data]
    BY <1>2, <1>7, <2>1 DEF WriteByte
  <2> QED
    BY <1>7, <2>1, <2>2, <2>3 DEF TypeOK, WriteByte, reader
<1>8. CASE WriteEnds
  BY <1>8 DEF TypeOK, WriteEnds, reader
<1>9. CASE Advance
  <2>1. SmallerOf(Full(wl, w_ptr), Free(w_ptr, r_ptr)) \in 0 .. Size - 1
    BY <1>1, FullType, SizeType DEF SmallerOf
  <2>2. w_ptr' \in Index
    BY <1>1, <1>9, <2>1, AtType DEF Advance
  <2> QED
    BY <1>9, <2>2 DEF TypeOK, Advance, reader
<1>10. ASSUME NEW btr \in 1 .. Size, ReadCall(btr)
       PROVE  TypeOK'
  <2>1. SmallerOf(Full(w_ptr, r_ptr), btr) \in Nat
    BY <1>3, ReadLengths
  <2> QED
    BY <1>1, <1>10, <2>1, BeginsType DEF ReadCall
<1>11. ASSUME NEW btr \in 1 .. Size, SkipCall(btr)
       PROVE  TypeOK'
  <2>1. SmallerOf(btr, Full(w_ptr, r_ptr)) \in 0 .. Size - 1
    BY <1>3, SizeType DEF SmallerOf
  <2>2. rl' \in Index /\ out' \in Seq(Data)
    BY <1>1, <1>11, <2>1, AtType DEF SkipCall
  <2> QED
    BY <1>11, <2>2 DEF TypeOK, SkipCall, writer
<1>12. ASSUME NEW k \in 0 .. Size, NEW btp \in 1 .. Size, PeekCall(k, btp)
       PROVE  TypeOK'
  <2>1. k \in 0 .. Size - 1 /\ SmallerOf(Full(w_ptr, r_ptr) - k, btp) \in Nat
    BY <1>12, ReadLengths DEF PeekCall
  <2>2. At(r_ptr, k) \in Index
    BY <1>1, <2>1, AtType
  <2> QED
    BY <1>12, <2>1, <2>2, BeginsType DEF PeekCall
<1>13. CASE LinearRead
  BY <1>1, <1>3, <1>13, ReadLengths, BeginsType DEF LinearRead
<1>14. CASE ReadByte
  <2>1. rl' \in Index /\ n' \in Nat
    BY <1>1, <1>2, <1>14, NextType DEF ReadByte
  <2>2. out' \in Seq(Data)
    BY <1>1, <1>2, <1>14 DEF ReadByte
  <2> QED
    BY <1>14, <2>1, <2>2 DEF TypeOK, ReadByte, writer
<1>15. CASE ReadEnds
  <2>1. Len(out) \in Nat
    BY <1>2
  <2>2. SmallerOf(Len(out), Full(w_ptr, r_ptr)) \in 0 .. Size - 1
    BY <1>3, <2>1, SizeType DEF SmallerOf
  <2>3. r_ptr' \in Index
    BY <1>1, <1>15, <2>2, AtType DEF ReadEnds
  <2> QED
    BY <1>15, <2>3 DEF TypeOK, ReadEnds, writer
<1>16. CASE PeekEnds
  BY <1>16 DEF TypeOK, PeekEnds, writer
<1>17. CASE lwrb_reset
  <2>1. 0 \in Index
    BY SizeType DEF Index
  <2> QED
    BY <1>17, <2>1 DEF TypeOK, lwrb_reset, writer, reader
<1>18. CASE UNCHANGED vars
  BY <1>18 DEF TypeOK, vars, writer, reader
<1> QED
  BY <1>4, <1>5, <1>6, <1>7, <1>8, <1>9, <1>10, <1>11, <1>12, <1>13, <1>14, <1>15,
     <1>16, <1>17, <1>18
  DEF Next, Write, Read

\* No index leaves the buffer, in any step of either side.
THEOREM TypeCorrect == Spec => []TypeOK
BY InitType, NextKeepsType, PTL DEF Spec

-----------------------------------------------------------------------------

\* What each side has still to copy lies on its own part of the ring, measured
\* from the index it started at.
Bounds ==
  /\ wpc = "clamped" => Len(src) <= Free(w_ptr, r_ptr)
  /\ wpc \in {"copy", "linear"} => Full(wl, w_ptr) + Len(src) <= Free(w_ptr, r_ptr)
  /\ rpc \in {"idle", "skip"} => n = 0
  /\ rpc \in {"read", "peek", "linear"} => Full(rl, r_ptr) + n <= Full(w_ptr, r_ptr)
  /\ rpc = "skip" => Full(rl, r_ptr) <= Full(w_ptr, r_ptr) /\ out = <<>>
  /\ rpc \in {"read", "linear"} => Len(out) = Full(rl, r_ptr)
  /\ rpc = "peek" => Len(out) <= Full(rl, r_ptr)

\* The readable part only grows under the reader, the free part under the writer.
LEMMA WriterMoves ==
  ASSUME TypeOK, Bounds, WriteEnds \/ Advance
  PROVE  /\ w_ptr' = wl
         /\ Full(wl, r_ptr) = Full(w_ptr, r_ptr) + Full(wl, w_ptr)
         /\ Full(wl, w_ptr) \in 0 .. Size - 1
         /\ Full(w_ptr, r_ptr) \in 0 .. Size - 1
<1>1. w_ptr \in Index /\ r_ptr \in Index /\ wl \in Index /\ src = <<>>
  BY DEF TypeOK, WriteEnds, Advance
<1>2. /\ Full(wl, w_ptr) \in 0 .. Size - 1
      /\ Full(w_ptr, r_ptr) \in 0 .. Size - 1
      /\ Free(w_ptr, r_ptr) = Size - 1 - Full(w_ptr, r_ptr)
      /\ At(w_ptr, Full(wl, w_ptr)) = wl
  BY <1>1, FullType
<1>3. Full(wl, w_ptr) <= Free(w_ptr, r_ptr)
  BY <1>1, <1>2 DEF Bounds, WriteEnds, Advance
<1>4. w_ptr' = wl
  <2>1. SmallerOf(Full(wl, w_ptr), Free(w_ptr, r_ptr)) = Full(wl, w_ptr)
    BY <1>2, <1>3, SizeType DEF SmallerOf
  <2> QED
    BY <1>2, <2>1 DEF WriteEnds, Advance
<1>5. Full(wl, r_ptr) = Full(w_ptr, r_ptr) + Full(wl, w_ptr)
  BY <1>1, <1>2, <1>3, FullAdds, SizeType
<1> QED
  BY <1>2, <1>4, <1>5

LEMMA ReaderMoves ==
  ASSUME TypeOK, Bounds, ReadEnds
  PROVE  /\ r_ptr' = rl
         /\ Full(w_ptr, rl) = Full(w_ptr, r_ptr) - Full(rl, r_ptr)
         /\ Full(rl, r_ptr) \in 0 .. Full(w_ptr, r_ptr)
         /\ Full(w_ptr, r_ptr) \in 0 .. Size - 1
<1>1. w_ptr \in Index /\ r_ptr \in Index /\ rl \in Index /\ n = 0
  BY DEF TypeOK, ReadEnds
<1>2. /\ Full(rl, r_ptr) \in 0 .. Size - 1
      /\ Full(w_ptr, r_ptr) \in 0 .. Size - 1
      /\ At(r_ptr, Full(rl, r_ptr)) = rl
  BY <1>1, FullType
<1>3. Full(rl, r_ptr) <= Full(w_ptr, r_ptr)
  BY <1>1, <1>2 DEF Bounds, ReadEnds
<1>4. r_ptr' = rl
  BY <1>2, <1>3 DEF ReadEnds, Bounds, SmallerOf
<1>5. Full(w_ptr, rl) = Full(w_ptr, r_ptr) - Full(rl, r_ptr)
  BY <1>1, <1>3, FullSubtracts
<1> QED
  BY <1>2, <1>3, <1>4, <1>5

LEMMA BeginsBounds ==
  ASSUME TypeOK, Bounds, NEW op \in {"read", "peek", "linear"}, NEW from \in Index,
         NEW count \in Nat, Begins(op, from, count),
         Full(from, r_ptr) + count <= Full(w_ptr, r_ptr),
         op # "peek" => Full(from, r_ptr) = 0
  PROVE  Bounds'
<1>1. Full(from, r_ptr) \in 0 .. Size - 1
  BY FullType DEF TypeOK
<1>2. out' = <<>> /\ Len(out') = 0 /\ n' = count /\ rl' = from
  BY DEF Begins
<1>3. UNCHANGED <<w_ptr, r_ptr, wpc, src, wl>>
  BY DEF Begins, writer
<1>4. rpc' = IF count = 0 THEN "idle" ELSE op
  BY DEF Begins
<1>5. CASE count = 0
  BY <1>2, <1>3, <1>4, <1>5 DEF Bounds
<1>6. CASE count # 0
  <2>1. rpc' = op
    BY <1>4, <1>6
  <2>2. Full(rl', r_ptr') + n' <= Full(w_ptr', r_ptr')
    BY <1>2, <1>3
  <2>3. op # "peek" => Len(out') = Full(rl', r_ptr')
    BY <1>2, <1>3
  <2>4. Len(out') <= Full(rl', r_ptr')
    BY <1>1, <1>2, <1>3
  <2> QED
    BY <1>3, <2>1, <2>2, <2>3, <2>4 DEF Bounds
<1> QED
  BY <1>5, <1>6

LEMMA InitBounds == Init => Bounds
BY DEF Init, Bounds

LEMMA NextKeepsBounds == TypeOK /\ Bounds /\ [Next]_vars => Bounds'
<1> SUFFICES ASSUME TypeOK, Bounds, [Next]_vars
             PROVE  Bounds'
  OBVIOUS
<1>1. w_ptr \in Index /\ r_ptr \in Index /\ wl \in Index /\ rl \in Index
  BY DEF TypeOK
<1>2. src \in Seq(Data) /\ out \in Seq(Data) /\ n \in Nat
  BY DEF TypeOK
<1>3. /\ Full(w_ptr, r_ptr) \in 0 .. Size - 1
      /\ Full(rl, r_ptr) \in 0 .. Size - 1
      /\ Full(wl, w_ptr) \in 0 .. Size - 1
      /\ Full(w_ptr, w_ptr) = 0
      /\ Full(r_ptr, r_ptr) = 0
      /\ Free(w_ptr, r_ptr) = Size - 1 - Full(w_ptr, r_ptr)
      /\ Free(w_ptr, r_ptr) \in Nat
  BY <1>1, FullType, SizeType
<1>4. Len(src) \in Nat /\ Len(out) \in Nat
  BY <1>2
<1>5. ASSUME NEW s \in Requests, WriteCall(s)
      PROVE  Bounds'
  <2>1. Len(src') <= Free(w_ptr, r_ptr)
    BY <1>3, <1>5, RequestType, PrefixType DEF WriteCall
  <2> QED
    BY <1>5, <2>1 DEF Bounds, WriteCall, reader
<1>6. ASSUME NEW s \in Requests, LinearStart(s)
      PROVE  Bounds'
  <2>1. LinearWriteLength(w_ptr, r_ptr) <= Free(w_ptr, r_ptr)
    BY <1>1, SizeType DEF LinearWriteLength, Free, Index
  <2>2. Len(src') <= Free(w_ptr, r_ptr) /\ Len(src') \in Nat
    <3>1. Len(s) \in Nat /\ LinearWriteLength(w_ptr, r_ptr) \in Int
      BY <1>1, SizeType, RequestType DEF LinearWriteLength, Index
    <3> QED
      BY <1>3, <1>6, <2>1, <3>1 DEF LinearStart
  <2>3. Full(wl', w_ptr') + Len(src') <= Free(w_ptr', r_ptr')
    BY <1>3, <1>6, <2>2 DEF LinearStart, reader
  <2> QED
    BY <1>6, <2>3 DEF Bounds, LinearStart, reader
<1>7. CASE WriteStart
  <2>1. Len(src') <= Free(w_ptr, r_ptr) /\ Len(src') \in Nat
    BY <1>2, <1>3, <1>7, PrefixType DEF WriteStart
  <2>2. Full(wl', w_ptr') + Len(src') <= Free(w_ptr', r_ptr')
    BY <1>3, <1>7, <2>1 DEF WriteStart, reader
  <2> QED
    BY <1>7, <2>2 DEF Bounds, WriteStart, reader
<1>8. CASE WriteByte
  <2>1. Len(src) >= 1 /\ Len(src') = Len(src) - 1
    BY <1>2, <1>8 DEF WriteByte
  <2>2. Full(wl, w_ptr) + Len(src) <= Free(w_ptr, r_ptr)
    BY <1>8 DEF Bounds, WriteByte
  <2>3. Full(wl', w_ptr) = Full(wl, w_ptr) + 1
    BY <1>1, <1>3, <1>4, <1>8, <2>1, <2>2, NextType, SizeType DEF WriteByte
  <2>4. Full(wl', w_ptr') + Len(src') <= Free(w_ptr', r_ptr')
    BY <1>3, <1>4, <1>8, <2>1, <2>2, <2>3 DEF WriteByte
  <2> QED
    BY <1>8, <2>4 DEF Bounds, WriteByte, reader
<1>9. CASE WriteEnds \/ Advance
  <2>1. Full(w_ptr, r_ptr) <= Full(w_ptr', r_ptr')
    BY <1>9, WriterMoves DEF WriteEnds, Advance
  <2>2. wpc' = "idle" /\ UNCHANGED <<r_ptr, rpc, n, rl, out>>
    BY <1>9 DEF WriteEnds, Advance, reader
  <2>3. Full(w_ptr', r_ptr') \in Int
    BY <1>1, <1>9, <2>2, FullType, WriterMoves
  <2>4. Full(rl', r_ptr') = Full(rl, r_ptr)
    BY <2>2
  <2> QED
    BY <1>3, <2>1, <2>2, <2>3, <2>4, <1>2 DEF Bounds
<1>10. ASSUME NEW btr \in 1 .. Size, ReadCall(btr)
       PROVE  Bounds'
  <2> DEFINE count == SmallerOf(Full(w_ptr, r_ptr), btr)
  <2>1. count \in 0 .. Full(w_ptr, r_ptr)
    BY <1>3, ReadLengths
  <2>2. Begins("read", r_ptr, count)
    BY <1>10 DEF ReadCall
  <2> HIDE DEF count
  <2> QED
    BY <1>1, <1>3, <2>1, <2>2, BeginsBounds
<1>11. ASSUME NEW btr \in 1 .. Size, SkipCall(btr)
       PROVE  Bounds'
  <2> DEFINE m == SmallerOf(btr, Full(w_ptr, r_ptr))
  <2>1. m \in 0 .. Full(w_ptr, r_ptr) /\ m \in 0 .. Size - 1
    BY <1>3, SizeType DEF SmallerOf
  <2>2. Full(At(r_ptr, m), r_ptr) = m
    BY <1>1, <2>1, AtType
  <2>3. rl' = At(r_ptr, m) /\ n' = 0 /\ out' = <<>> /\ rpc' = "skip"
        /\ UNCHANGED <<w_ptr, r_ptr, wpc, src, wl>>
    BY <1>11 DEF SkipCall, writer
  <2> HIDE DEF m
  <2>4. Full(rl', r_ptr') <= Full(w_ptr', r_ptr')
    BY <1>3, <2>1, <2>2, <2>3
  <2> QED
    BY <2>3, <2>4 DEF Bounds
<1>12. ASSUME NEW k \in 0 .. Size, NEW btp \in 1 .. Size, PeekCall(k, btp)
       PROVE  Bounds'
  <2> DEFINE count == SmallerOf(Full(w_ptr, r_ptr) - k, btp)
  <2>1. k \in 0 .. Size - 1 /\ count \in Nat /\ k + count <= Full(w_ptr, r_ptr)
    BY <1>12, ReadLengths DEF PeekCall
  <2>2. At(r_ptr, k) \in Index /\ Full(At(r_ptr, k), r_ptr) = k
    BY <1>1, <2>1, AtType
  <2>3. Begins("peek", At(r_ptr, k), count)
    BY <1>12 DEF PeekCall
  <2> HIDE DEF count
  <2> QED
    BY <2>1, <2>2, <2>3, BeginsBounds
<1>13. CASE LinearRead
  <2> DEFINE count == LinearReadLength(w_ptr, r_ptr)
  <2>1. count \in 0 .. Full(w_ptr, r_ptr)
    BY ReadLengths
  <2>2. Begins("linear", r_ptr, count)
    BY <1>13 DEF LinearRead
  <2> HIDE DEF count
  <2> QED
    BY <1>1, <1>3, <2>1, <2>2, BeginsBounds
<1>14. CASE ReadByte
  <2>1. rpc \in {"read", "peek", "linear"} /\ Full(rl, r_ptr) + n <= Full(w_ptr, r_ptr)
    BY <1>14 DEF Bounds, ReadByte, TypeOK
  <2>2. n' = n - 1 /\ n \in Nat \ {0} /\ Len(out') = Len(out) + 1
        /\ UNCHANGED <<w_ptr, r_ptr, rpc, wpc, src, wl>>
    BY <1>2, <1>14 DEF ReadByte, writer
  <2>3. Full(rl', r_ptr') = Full(rl, r_ptr) + 1
    BY <1>1, <1>3, <1>14, <2>1, <2>2, NextType, SizeType DEF ReadByte
  <2>4. Full(rl', r_ptr') + n' <= Full(w_ptr', r_ptr')
    BY <1>3, <2>1, <2>2, <2>3
  <2>5. /\ rpc' \in {"read", "linear"} => Len(out') = Full(rl', r_ptr')
        /\ rpc' = "peek" => Len(out') <= Full(rl', r_ptr')
    BY <1>3, <1>4, <2>2, <2>3 DEF Bounds
  <2> QED
    BY <2>1, <2>2, <2>4, <2>5 DEF Bounds
<1>15. CASE ReadEnds
  <2>1. Full(w_ptr, r_ptr') = Full(w_ptr, r_ptr) - Full(rl, r_ptr) /\ r_ptr' = rl
    BY <1>15, ReaderMoves
  <2>2. Free(w_ptr, r_ptr') = Size - 1 - Full(w_ptr, r_ptr')
    BY <1>1, <2>1, FullType
  <2>3. Free(w_ptr, r_ptr) <= Free(w_ptr, r_ptr') /\ Free(w_ptr, r_ptr') \in Int
    BY <1>3, <2>1, <2>2, SizeType
  <2>4. rpc' = "idle" /\ n' = 0 /\ UNCHANGED <<w_ptr, wpc, src, wl>>
    BY <1>15 DEF ReadEnds, writer
  <2>5. Full(wl', w_ptr') = Full(wl, w_ptr)
    BY <2>4
  <2> QED
    BY <1>3, <1>4, <2>3, <2>4, <2>5 DEF Bounds
<1>16. CASE PeekEnds
  BY <1>16 DEF Bounds, PeekEnds, writer
<1>17. CASE lwrb_reset
  BY <1>17 DEF Bounds, lwrb_reset, writer, reader
<1>18. CASE UNCHANGED vars
  BY <1>18 DEF Bounds, vars, writer, reader
<1> QED
  BY <1>5, <1>6, <1>7, <1>8, <1>9, <1>10, <1>11, <1>12, <1>13, <1>14, <1>15, <1>16,
     <1>17, <1>18
  DEF Next, Write, Read

\* Every length the two sides have computed still fits what is theirs now.
THEOREM BoundsHold == Spec => [](TypeOK /\ Bounds)
<1>1. Init => TypeOK /\ Bounds
  BY InitType, InitBounds
<1>2. TypeOK /\ Bounds /\ [Next]_vars => (TypeOK /\ Bounds)'
  BY NextKeepsType, NextKeepsBounds
<1> QED
  BY <1>1, <1>2, PTL DEF Spec

\* Once uart_manage_write_to_recv_ring has limited a length to the free space,
\* lwrb_write takes all of it: the reader can only add to the free space, so
\* the manager's test for a write cut short never fires.
NoShortWrite == wpc = "clamped" => Len(src) <= Free(w_ptr, r_ptr)
THEOREM WritesAreWhole == Spec => []NoShortWrite
<1>1. Bounds => NoShortWrite
  BY DEF Bounds, NoShortWrite
<1> QED
  BY <1>1, BoundsHold, PTL

\* A position is readable if it lies less than Full from r_ptr.
LEMMA ReadableFar ==
  ASSUME TypeOK, NEW i \in Index
  PROVE  (i \in {At(r_ptr, k - 1) : k \in 1 .. Full(w_ptr, r_ptr)})
           <=> Full(i, r_ptr) < Full(w_ptr, r_ptr)
<1>1. r_ptr \in Index /\ w_ptr \in Index
  BY DEF TypeOK
<1>2. Full(w_ptr, r_ptr) \in 0 .. Size - 1 /\ Full(i, r_ptr) \in 0 .. Size - 1
      /\ At(r_ptr, Full(i, r_ptr)) = i
  BY <1>1, FullType
<1>3. ASSUME NEW k \in 1 .. Full(w_ptr, r_ptr), i = At(r_ptr, k - 1)
      PROVE  Full(i, r_ptr) < Full(w_ptr, r_ptr)
  <2>1. k - 1 \in 0 .. Size - 1
    BY <1>2, SizeType
  <2>2. Full(i, r_ptr) = k - 1
    BY <1>1, <1>3, <2>1, AtType
  <2> QED
    BY <1>2, <2>2
<1>4. ASSUME Full(i, r_ptr) < Full(w_ptr, r_ptr)
      PROVE  \E k \in 1 .. Full(w_ptr, r_ptr) : i = At(r_ptr, k - 1)
  <2>1. Full(i, r_ptr) + 1 \in 1 .. Full(w_ptr, r_ptr) /\ (Full(i, r_ptr) + 1) - 1 = Full(i, r_ptr)
    BY <1>2, <1>4
  <2> QED
    BY <1>2, <2>1
<1> QED
  BY <1>3, <1>4

\* The writer stores outside the readable bytes.
LEMMA WriterOutside ==
  ASSUME TypeOK, Bounds, wpc \in {"copy", "linear"}, src # <<>>
  PROVE  Full(wl, r_ptr) >= Full(w_ptr, r_ptr)
<1>1. r_ptr \in Index /\ w_ptr \in Index /\ wl \in Index
  BY DEF TypeOK
<1>2. Len(src) >= 1 /\ Len(src) \in Nat
  BY DEF TypeOK
<1>3. /\ Full(wl, w_ptr) \in 0 .. Size - 1
      /\ Full(w_ptr, r_ptr) \in 0 .. Size - 1
      /\ Free(w_ptr, r_ptr) = Size - 1 - Full(w_ptr, r_ptr)
  BY <1>1, FullType
<1>4. Full(wl, w_ptr) + Full(w_ptr, r_ptr) < Size
  BY <1>2, <1>3, SizeType DEF Bounds
<1> QED
  BY <1>1, <1>3, <1>4, FullAdds

\* The writer and the reader never touch the same byte at the same time.
THEOREM SidesApart == Spec => []Apart
<1>1. TypeOK /\ Bounds => Apart
  <2> SUFFICES ASSUME TypeOK, Bounds
               PROVE  Apart
    OBVIOUS
  <2>1. r_ptr \in Index /\ w_ptr \in Index /\ wl \in Index /\ rl \in Index /\ n \in Nat
    BY DEF TypeOK
  <2>2. /\ Full(w_ptr, r_ptr) \in 0 .. Size - 1
        /\ Full(wl, r_ptr) \in 0 .. Size - 1
        /\ Full(rl, r_ptr) \in 0 .. Size - 1
    BY <2>1, FullType
  <2>3. ASSUME wpc \in {"copy", "linear"}, src # <<>>
        PROVE  wl \notin {At(r_ptr, k - 1) : k \in 1 .. Full(w_ptr, r_ptr)}
    BY <2>1, <2>2, <2>3, WriterOutside, ReadableFar
  <2>4. ASSUME n > 0
        PROVE  rl \in {At(r_ptr, k - 1) : k \in 1 .. Full(w_ptr, r_ptr)}
    <3>1. Full(rl, r_ptr) < Full(w_ptr, r_ptr)
      BY <2>1, <2>2, <2>4 DEF Bounds, TypeOK
    <3> QED
      BY <2>1, <3>1, ReadableFar
  <2> QED
    BY <2>3, <2>4 DEF Apart
<1> QED
  BY <1>1, BoundsHold, PTL

-----------------------------------------------------------------------------

\* The bytes copied so far are those that lie before the reader's position.
Contents ==
  rpc \in {"read", "peek", "linear"} =>
    \A k \in 1 .. Len(out) :
      out[k] = buff[At(r_ptr, Full(rl, r_ptr) - Len(out) + k - 1)]

LEMMA QueueType ==
  ASSUME TypeOK
  PROVE  /\ contents \in Seq(Data)
         /\ Len(contents) = Full(w_ptr, r_ptr)
         /\ Full(w_ptr, r_ptr) \in 0 .. Size - 1
         /\ \A k \in 1 .. Full(w_ptr, r_ptr) : contents[k] = buff[At(r_ptr, k - 1)]
<1>1. Full(w_ptr, r_ptr) \in 0 .. Size - 1
  BY FullType DEF TypeOK
<1>2. \A k \in 1 .. Full(w_ptr, r_ptr) : buff[At(r_ptr, k - 1)] \in Data
  <2> TAKE k \in 1 .. Full(w_ptr, r_ptr)
  <2>1. k - 1 \in 0 .. Size - 1
    BY <1>1, SizeType
  <2>2. At(r_ptr, k - 1) \in Index
    BY <2>1, AtType DEF TypeOK
  <2> QED
    BY <2>2 DEF TypeOK
<1>3. contents \in [1 .. Full(w_ptr, r_ptr) -> Data]
  BY <1>2 DEF contents
<1>4. contents \in Seq(Data) /\ Len(contents) = Full(w_ptr, r_ptr)
  BY <1>1, <1>3
<1> QED
  BY <1>1, <1>4 DEF contents

QueueIs ==
  /\ contents \in Seq(Data)
  /\ Len(contents) = Full(w_ptr, r_ptr)
  /\ Full(w_ptr, r_ptr) \in 0 .. Size - 1
  /\ \A k \in 1 .. Full(w_ptr, r_ptr) : contents[k] = buff[At(r_ptr, k - 1)]

\* The same of the next state.
LEMMA QueueTypeNext == TypeOK' => QueueIs'
<1>1. TypeOK => QueueIs
  BY QueueType DEF QueueIs
<1> QED
  BY <1>1, PTL

\* The bytes of the queue, for a slice of it.
LEMMA SliceType ==
  ASSUME TypeOK, NEW k \in Nat, NEW m \in Nat, k + m <= Full(w_ptr, r_ptr)
  PROVE  /\ SubSeq(contents, k + 1, k + m) \in Seq(Data)
         /\ Len(SubSeq(contents, k + 1, k + m)) = m
         /\ \A j \in 1 .. m : SubSeq(contents, k + 1, k + m)[j] = buff[At(r_ptr, k + j - 1)]
<1>1. \A i \in k + 1 .. k + m : contents[i] \in Data
  <2> TAKE i \in k + 1 .. k + m
  <2>1. i \in 1 .. Len(contents)
    BY QueueType
  <2> QED
    BY <2>1, QueueType, ElementOfSeq
<1>2. /\ SubSeq(contents, k + 1, k + m) \in Seq(Data)
      /\ Len(SubSeq(contents, k + 1, k + m)) = IF k + 1 <= k + m THEN (k + m) - (k + 1) + 1 ELSE 0
      /\ \A j \in 1 .. (k + m) - (k + 1) + 1 :
           SubSeq(contents, k + 1, k + m)[j] = contents[k + 1 + j - 1]
  BY <1>1, SubSeqProperties
<1>3. \A j \in 1 .. m : SubSeq(contents, k + 1, k + m)[j] = buff[At(r_ptr, k + j - 1)]
  <2> TAKE j \in 1 .. m
  <2>1. k + 1 + j - 1 = k + j /\ j \in 1 .. (k + m) - (k + 1) + 1
        /\ k + j \in 1 .. Full(w_ptr, r_ptr)
    BY QueueType
  <2>2. SubSeq(contents, k + 1, k + m)[j] = contents[k + j]
    BY <1>2, <2>1
  <2> QED
    BY <2>1, <2>2, QueueType
<1>4. Len(SubSeq(contents, k + 1, k + m)) = m
  <2> DEFINE l == Len(SubSeq(contents, k + 1, k + m))
  <2>1. l = IF k + 1 <= k + m THEN (k + m) - (k + 1) + 1 ELSE 0
    BY <1>2
  <2> HIDE DEF l
  <2>2. l = m
    BY <2>1
  <2> QED
    BY <2>2 DEF l
<1> QED
  BY <1>2, <1>3, <1>4

\* Storing a byte leaves the readable bytes as they are.
LEMMA StoreOutside ==
  ASSUME TypeOK, Bounds, WriteByte, NEW k \in 0 .. Full(w_ptr, r_ptr) - 1
  PROVE  buff'[At(r_ptr, k)] = buff[At(r_ptr, k)]
<1>1. r_ptr \in Index /\ w_ptr \in Index /\ wl \in Index
  BY DEF TypeOK
<1>2. Full(w_ptr, r_ptr) \in 0 .. Size - 1 /\ Full(wl, r_ptr) \in 0 .. Size - 1
  BY <1>1, FullType
<1>3. k \in 0 .. Size - 1
  BY <1>2, SizeType
<1>4. At(r_ptr, k) \in Index /\ Full(At(r_ptr, k), r_ptr) = k
  BY <1>1, <1>3, AtType
<1>5. Full(wl, r_ptr) >= Full(w_ptr, r_ptr)
  BY WriterOutside DEF WriteByte
<1>6. At(r_ptr, k) # wl
  BY <1>2, <1>4, <1>5
<1> QED
  BY <1>4, <1>6 DEF WriteByte, TypeOK

LEMMA NextKeepsContents == TypeOK /\ Bounds /\ Contents /\ [Next]_vars => Contents'
<1> SUFFICES ASSUME TypeOK, Bounds, Contents, [Next]_vars
             PROVE  Contents'
  OBVIOUS
<1>1. /\ Full(rl, r_ptr) \in 0 .. Size - 1
      /\ Full(w_ptr, r_ptr) \in 0 .. Size - 1
      /\ Len(out) \in Nat
  BY FullType DEF TypeOK
<1>2. CASE WriteByte
  <2> SUFFICES ASSUME rpc \in {"read", "peek", "linear"}, NEW k \in 1 .. Len(out)
               PROVE  out[k] = buff'[At(r_ptr, Full(rl, r_ptr) - Len(out) + k - 1)]
    BY <1>2 DEF Contents, WriteByte, reader
  <2>1. Len(out) <= Full(rl, r_ptr) /\ Full(rl, r_ptr) <= Full(w_ptr, r_ptr)
    BY <1>1 DEF Bounds, TypeOK
  <2>2. Full(rl, r_ptr) - Len(out) + k - 1 \in 0 .. Full(w_ptr, r_ptr) - 1
    BY <1>1, <2>1
  <2> QED
    BY <1>2, <2>2, StoreOutside DEF Contents
<1>3. CASE ReadByte
  <2> SUFFICES ASSUME rpc \in {"read", "peek", "linear"}, NEW k \in 1 .. Len(out')
               PROVE  out'[k] = buff[At(r_ptr, Full(rl', r_ptr) - Len(out') + k - 1)]
    BY <1>3 DEF Contents, ReadByte, writer
  <2>1. n \in Nat \ {0} /\ Full(rl, r_ptr) + n <= Full(w_ptr, r_ptr) /\ rl \in Index /\ r_ptr \in Index
    BY <1>3 DEF Bounds, ReadByte, TypeOK
  <2>2. Full(rl', r_ptr) = Full(rl, r_ptr) + 1
    BY <1>1, <1>3, <2>1, NextType, SizeType DEF ReadByte
  <2>3. Len(out') = Len(out) + 1 /\ out' = Append(out, buff[rl]) /\ out \in Seq(Data)
    BY <1>3 DEF ReadByte, TypeOK
  <2>4. Full(rl', r_ptr) - Len(out') + k - 1 = Full(rl, r_ptr) - Len(out) + k - 1
    BY <1>1, <2>2, <2>3
  <2>5. CASE k = Len(out')
    <3>1. At(r_ptr, Full(rl, r_ptr)) = rl
      BY <2>1, FullType
    <3>2. Full(rl, r_ptr) - Len(out) + k - 1 = Full(rl, r_ptr)
      BY <1>1, <2>3, <2>5
    <3>3. out'[k] = buff[rl]
      BY <2>3, <2>5
    <3> QED
      BY <2>4, <3>1, <3>2, <3>3
  <2>6. CASE k # Len(out')
    <3>1. k \in 1 .. Len(out)
      BY <1>1, <2>3, <2>6
    <3>2. out'[k] = out[k]
      BY <2>3, <3>1
    <3> QED
      BY <2>4, <3>1, <3>2 DEF Contents
  <2> QED
    BY <2>5, <2>6
<1>4. ASSUME NEW op, NEW from, NEW count, Begins(op, from, count)
      PROVE  Contents'
  BY <1>4 DEF Begins, Contents
<1>5. ASSUME NEW s \in Requests, WriteCall(s) \/ LinearStart(s)
      PROVE  Contents'
  BY <1>5 DEF Contents, WriteCall, LinearStart, reader
<1>6. CASE WriteStart \/ WriteEnds \/ Advance
  BY <1>6 DEF Contents, WriteStart, WriteEnds, Advance, reader
<1>7. ASSUME NEW btr \in 1 .. Size, ReadCall(btr) \/ SkipCall(btr)
      PROVE  Contents'
  BY <1>4, <1>7 DEF ReadCall, SkipCall, Contents
<1>8. ASSUME NEW k \in 0 .. Size, NEW btp \in 1 .. Size, PeekCall(k, btp)
      PROVE  Contents'
  BY <1>4, <1>8 DEF PeekCall
<1>9. CASE LinearRead
  BY <1>4, <1>9 DEF LinearRead
<1>10. CASE ReadEnds \/ PeekEnds
  BY <1>10 DEF Contents, ReadEnds, PeekEnds
<1>11. CASE lwrb_reset
  BY <1>11 DEF Contents, lwrb_reset, reader
<1>12. CASE UNCHANGED vars
  BY <1>12 DEF Contents, vars, reader
<1> QED
  BY <1>2, <1>3, <1>5, <1>6, <1>7, <1>8, <1>9, <1>10, <1>11, <1>12 DEF Next, Write, Read

LEMMA QueueInit == Init => Queue!Init
<1> SUFFICES ASSUME Init
             PROVE  Queue!Init
  OBVIOUS
<1>1. Len(contents) = 0 /\ contents \in Seq(Data)
  <2>1. Full(w_ptr, r_ptr) = 0
    BY DEF Init, Full
  <2> QED
    BY <2>1, InitType, QueueType
<1>2. contents = <<>>
  BY <1>1
<1>3. returned = <<>> /\ accepted = <<>>
  BY DEF Init, returned, accepted
<1> QED
  BY <1>2, <1>3 DEF Queue!Init

\* The elements of two sequences one after the other.
LEMMA Joined ==
  ASSUME NEW s \in Seq(Data), NEW t \in Seq(Data)
  PROVE  /\ s \o t \in Seq(Data)
         /\ Len(s \o t) = Len(s) + Len(t)
         /\ \A k \in 1 .. Len(s) : (s \o t)[k] = s[k]
         /\ \A k \in 1 .. Len(t) : (s \o t)[Len(s) + k] = t[k]
<1>1. Len(s) \in Nat /\ Len(t) \in Nat
  OBVIOUS
<1>2. /\ s \o t \in Seq(Data)
      /\ Len(s \o t) = Len(s) + Len(t)
      /\ \A i \in 1 .. Len(s) + Len(t) :
           (s \o t)[i] = IF i <= Len(s) THEN s[i] ELSE t[i - Len(s)]
  BY ConcatProperties
<1>3. ASSUME NEW k \in 1 .. Len(t)
      PROVE  (s \o t)[Len(s) + k] = t[k]
  <2>1. Len(s) + k \in 1 .. Len(s) + Len(t) /\ ~(Len(s) + k <= Len(s))
        /\ (Len(s) + k) - Len(s) = k
    BY <1>1
  <2> QED
    BY <1>2, <2>1
<1> QED
  BY <1>1, <1>2, <1>3

\* The bytes stored between w_ptr and the writer's position.
LEMMA StoredType ==
  ASSUME TypeOK
  PROVE  /\ stored \in Seq(Data)
         /\ Len(stored) = Full(wl, w_ptr)
         /\ Full(wl, w_ptr) \in 0 .. Size - 1
         /\ \A k \in 1 .. Full(wl, w_ptr) : stored[k] = buff[At(w_ptr, k - 1)]
<1>1. Full(wl, w_ptr) \in 0 .. Size - 1
  BY FullType DEF TypeOK
<1>2. \A k \in 1 .. Full(wl, w_ptr) : buff[At(w_ptr, k - 1)] \in Data
  <2> TAKE k \in 1 .. Full(wl, w_ptr)
  <2>1. k - 1 \in 0 .. Size - 1
    BY <1>1, SizeType
  <2>2. At(w_ptr, k - 1) \in Index
    BY <2>1, AtType DEF TypeOK
  <2> QED
    BY <2>2 DEF TypeOK
<1>3. stored \in [1 .. Full(wl, w_ptr) -> Data]
  BY <1>2 DEF stored
<1>4. stored \in Seq(Data) /\ Len(stored) = Full(wl, w_ptr)
  BY <1>1, <1>3
<1> QED
  BY <1>1, <1>4 DEF stored

StoredIs ==
  /\ stored \in Seq(Data)
  /\ Len(stored) = Full(wl, w_ptr)
  /\ \A k \in 1 .. Full(wl, w_ptr) : stored[k] = buff[At(w_ptr, k - 1)]

\* The same of the next state.
LEMMA StoredTypeNext == TypeOK' => StoredIs'
<1>1. TypeOK => StoredIs
  BY StoredType DEF StoredIs
<1> QED
  BY <1>1, PTL

\* Nothing is stored where the writer begins.
LEMMA NothingStored ==
  ASSUME TypeOK', w_ptr' \in Index, wl' = w_ptr'
  PROVE  stored' = <<>>
<1>1. Full(wl', w_ptr') = 0
  BY FullType
<1>2. stored' \in Seq(Data) /\ Len(stored') = 0
  BY <1>1, StoredTypeNext DEF StoredIs
<1> QED
  BY <1>2

\* The bytes that lwrb_write_ex copies are those the caller was granted: its own
\* limit takes nothing off them.
LEMMA StartKeepsAccepted ==
  ASSUME TypeOK, TypeOK', Bounds, WriteStart
  PROVE  accepted' = accepted
<1>1. w_ptr \in Index /\ r_ptr \in Index /\ src \in Seq(Data)
  BY DEF TypeOK
<1>2. Free(w_ptr, r_ptr) \in Nat
  BY <1>1, FullType, SizeType
<1>3. src' = src
  BY <1>1, <1>2, PrefixType DEF WriteStart, Bounds
<1>4. stored' = <<>>
  BY <1>1, NothingStored DEF WriteStart
<1>5. accepted = src
  BY DEF WriteStart, accepted
<1>6. CASE src = <<>>
  BY <1>3, <1>5, <1>6 DEF WriteStart, accepted
<1>7. CASE src # <<>>
  <2>1. accepted' = <<>> \o src
    BY <1>3, <1>4, <1>7 DEF WriteStart, accepted
  <2> QED
    BY <1>1, <1>5, <2>1
<1> QED
  BY <1>6, <1>7

\* A byte that is copied goes from the bytes to be copied to those stored.
LEMMA ByteKeepsAccepted ==
  ASSUME TypeOK, TypeOK', Bounds, WriteByte
  PROVE  accepted' = accepted
<1> DEFINE f == Full(wl, w_ptr)
<1>1. /\ w_ptr \in Index /\ r_ptr \in Index /\ wl \in Index
      /\ src \in Seq(Data) /\ src # <<>> /\ buff \in [Index -> Data]
  BY DEF TypeOK, WriteByte
<1>2. Len(src) \in Nat \ {0} /\ Head(src) = src[1] /\ Tail(src) \in Seq(Data)
  BY <1>1
<1>3. /\ f \in 0 .. Size - 1
      /\ Free(w_ptr, r_ptr) = Size - 1 - Full(w_ptr, r_ptr)
      /\ Full(w_ptr, r_ptr) \in 0 .. Size - 1
      /\ At(w_ptr, f) = wl
  BY <1>1, FullType
<1>4. f + 1 < Size
  BY <1>2, <1>3, SizeType DEF Bounds, WriteByte
<1>5. Full(wl', w_ptr') = f + 1 /\ w_ptr' = w_ptr /\ src' = Tail(src)
  BY <1>1, <1>4, NextType DEF WriteByte
<1>6. /\ stored \in Seq(Data) /\ Len(stored) = f
      /\ \A k \in 1 .. f : stored[k] = buff[At(w_ptr, k - 1)]
  BY StoredType
<1>7. /\ stored' \in Seq(Data) /\ Len(stored') = f + 1
      /\ \A k \in 1 .. f + 1 : stored'[k] = buff'[At(w_ptr, k - 1)]
  BY <1>5, StoredTypeNext DEF StoredIs
<1> HIDE DEF f
<1>8. stored'[f + 1] = Head(src)
  <2>1. stored'[f + 1] = buff'[At(w_ptr, f)]
    BY <1>3, <1>7
  <2> QED
    BY <1>1, <1>3, <2>1 DEF WriteByte
<1>9. \A k \in 1 .. f : stored'[k] = stored[k]
  <2> TAKE k \in 1 .. f
  <2>1. k - 1 \in 0 .. Size - 1 /\ k - 1 # f
    BY <1>3, SizeType
  <2>2. At(w_ptr, k - 1) \in Index /\ Full(At(w_ptr, k - 1), w_ptr) = k - 1
    BY <1>1, <2>1, AtType
  <2>3. At(w_ptr, k - 1) # wl
    BY <2>1, <2>2 DEF f
  <2>4. buff'[At(w_ptr, k - 1)] = buff[At(w_ptr, k - 1)]
    BY <1>1, <2>2, <2>3 DEF WriteByte
  <2> QED
    BY <1>3, <1>6, <1>7, <2>4
<1>10. accepted = stored \o src /\ accepted' = stored' \o src'
  BY DEF WriteByte, accepted
<1>11. stored' \o Tail(src) = stored \o src
  <2> DEFINE l == Len(src)
  <2>1. /\ l \in Nat \ {0} /\ Len(Tail(src)) = l - 1 /\ f \in Nat
        /\ \A k \in 1 .. l - 1 : Tail(src)[k] = src[k + 1]
    BY <1>1, <1>3
  <2>2. /\ stored' \o Tail(src) \in Seq(Data) /\ stored \o src \in Seq(Data)
        /\ Len(stored' \o Tail(src)) = (f + 1) + (l - 1) /\ Len(stored \o src) = f + l
        /\ \A k \in 1 .. f + 1 : (stored' \o Tail(src))[k] = stored'[k]
        /\ \A k \in 1 .. l - 1 : (stored' \o Tail(src))[(f + 1) + k] = Tail(src)[k]
        /\ \A k \in 1 .. f : (stored \o src)[k] = stored[k]
        /\ \A k \in 1 .. l : (stored \o src)[f + k] = src[k]
    <3>1. /\ stored' \o Tail(src) \in Seq(Data)
          /\ Len(stored' \o Tail(src)) = Len(stored') + Len(Tail(src))
          /\ \A k \in 1 .. Len(stored') : (stored' \o Tail(src))[k] = stored'[k]
          /\ \A k \in 1 .. Len(Tail(src)) :
               (stored' \o Tail(src))[Len(stored') + k] = Tail(src)[k]
      BY <1>2, <1>7, Joined, Zenon
    <3>2. /\ stored \o src \in Seq(Data)
          /\ Len(stored \o src) = Len(stored) + Len(src)
          /\ \A k \in 1 .. Len(stored) : (stored \o src)[k] = stored[k]
          /\ \A k \in 1 .. Len(src) : (stored \o src)[Len(stored) + k] = src[k]
      BY <1>1, <1>6, Joined, Zenon
    <3>3. Len(stored') = f + 1 /\ Len(stored) = f /\ Len(Tail(src)) = l - 1 /\ Len(src) = l
      BY <1>6, <1>7, <2>1
    <3> QED
      BY <3>1, <3>2, <3>3, Zenon
  <2> HIDE DEF l
  <2>3. \A k \in 1 .. f + l : (stored' \o Tail(src))[k] = (stored \o src)[k]
    <3> TAKE k \in 1 .. f + l
    <3>1. CASE k \in 1 .. f
      BY <1>9, <2>1, <2>2, <3>1
    <3>2. CASE k = f + 1
      <4>1. (stored \o src)[f + 1] = src[1]
        BY <2>1, <2>2
      <4>2. (stored' \o Tail(src))[f + 1] = stored'[f + 1]
        BY <2>1, <2>2
      <4> QED
        BY <1>2, <1>8, <3>2, <4>1, <4>2
    <3>3. CASE k > f + 1
      <4> DEFINE j == k - (f + 1)
      <4>1. j \in 1 .. l - 1 /\ j + 1 \in 1 .. l /\ (f + 1) + j = k /\ f + (j + 1) = k
        BY <2>1, <3>3
      <4> HIDE DEF j
      <4>2. (stored' \o Tail(src))[k] = Tail(src)[j]
        BY <2>2, <4>1
      <4>3. (stored \o src)[k] = src[j + 1]
        BY <2>2, <4>1
      <4> QED
        BY <2>1, <4>1, <4>2, <4>3
    <3>4. k \in 1 .. f \/ k = f + 1 \/ k > f + 1
      BY <2>1
    <3> QED
      BY <3>1, <3>2, <3>3, <3>4, Zenon
  <2>4. Len(stored' \o Tail(src)) = f + l /\ Len(stored \o src) = f + l
    BY <2>1, <2>2
  <2> QED
    BY <2>2, <2>3, <2>4, SeqEqual
<1> QED
  BY <1>5, <1>10, <1>11

\* The reader has no part in what the writer is about to add.
LEMMA ReaderKeepsAccepted ==
  ASSUME UNCHANGED <<buff, w_ptr, writer>>
  PROVE  accepted' = accepted
BY DEF writer, accepted, stored

\* A step of the writer that stores its index adds the bytes it has accepted.
LEMMA WriteIsPut ==
  ASSUME TypeOK, TypeOK', Bounds, WriteEnds \/ Advance
  PROVE  Queue!Put
<1> DEFINE a == Full(w_ptr, r_ptr)
           f == Full(wl, w_ptr)
<1>1. /\ r_ptr' = r_ptr /\ buff' = buff /\ rpc' = rpc /\ out' = out
      /\ src = <<>> /\ wpc \in {"copy", "linear"} /\ wpc' = "idle"
  BY DEF WriteEnds, Advance, reader
<1>2. Full(w_ptr', r_ptr') = a + f
  BY <1>1, WriterMoves
<1>3. a \in 0 .. Size - 1 /\ f \in 0 .. Size - 1 /\ w_ptr \in Index /\ r_ptr \in Index
  BY WriterMoves DEF TypeOK
<1>4. /\ contents \in Seq(Data) /\ Len(contents) = a
      /\ \A k \in 1 .. a : contents[k] = buff[At(r_ptr, k - 1)]
  BY QueueType
<1>5. /\ contents' \in Seq(Data) /\ Len(contents') = a + f
      /\ a + f \in 0 .. Size - 1
      /\ \A k \in 1 .. a + f : contents'[k] = buff[At(r_ptr, k - 1)]
  BY <1>1, <1>2, QueueTypeNext DEF QueueIs
<1>6. /\ stored \in Seq(Data) /\ Len(stored) = f
      /\ \A k \in 1 .. f : stored[k] = buff[At(w_ptr, k - 1)]
  BY StoredType
<1>7. At(r_ptr, a) = w_ptr
  BY <1>3, FullType
<1>8. accepted = stored /\ accepted' = <<>>
  BY <1>1, <1>6 DEF accepted
<1> HIDE DEF a, f
<1>9. /\ contents \o stored \in Seq(Data) /\ Len(contents \o stored) = a + f
      /\ \A k \in 1 .. a : (contents \o stored)[k] = contents[k]
      /\ \A k \in 1 .. f : (contents \o stored)[a + k] = stored[k]
  BY <1>4, <1>6, Joined
<1>10. contents' = contents \o stored
  <2>1. a \in Nat /\ f \in Nat
    BY <1>3
  <2>2. ASSUME NEW k \in 1 .. a + f
        PROVE  contents'[k] = (contents \o stored)[k]
    <3>1. CASE k \in 1 .. a
      BY <1>4, <1>5, <1>9, <2>1, <3>1
    <3>2. CASE k > a
      <4> DEFINE j == k - a
      <4>1. j \in 1 .. f /\ a + j = k /\ j - 1 \in 0 .. Size - 1 /\ a + (j - 1) < Size
            /\ a + (j - 1) = k - 1
        BY <1>3, <1>5, <2>1, <3>2, SizeType
      <4> HIDE DEF j
      <4>2. At(w_ptr, j - 1) = At(r_ptr, k - 1)
        BY <1>3, <1>7, <4>1, AtAdds
      <4>3. (contents \o stored)[k] = stored[j]
        BY <1>9, <4>1
      <4> QED
        BY <1>5, <1>6, <4>1, <4>2, <4>3
    <3>3. k \in 1 .. a \/ k > a
      BY <2>1
    <3> QED
      BY <3>1, <3>2, <3>3, Zenon
  <2> QED
    BY <1>5, <1>9, <2>2, SeqEqual
<1>11. returned' = returned
  BY <1>1 DEF returned
<1>12. Len(contents') <= Size - 1
  BY <1>5, SizeType
<1> QED
  BY <1>8, <1>10, <1>11, <1>12 DEF Queue!Put

\* The bytes the reader has copied are a slice of the queue.
LEMMA CopiedIsSlice ==
  ASSUME TypeOK, Bounds, Contents, rpc \in {"read", "peek", "linear"}
  PROVE  \E k, m \in 0 .. Len(contents) :
           /\ k + m = Full(rl, r_ptr)
           /\ k + m <= Len(contents)
           /\ rpc # "peek" => k = 0
           /\ out = SubSeq(contents, k + 1, k + m)
<1> DEFINE m == Len(out)
           k == Full(rl, r_ptr) - m
<1>1. /\ Full(rl, r_ptr) \in 0 .. Size - 1
      /\ Full(w_ptr, r_ptr) \in 0 .. Size - 1
      /\ Len(contents) = Full(w_ptr, r_ptr)
  BY FullType, QueueType DEF TypeOK
<1>2. m \in Nat /\ n \in Nat /\ out \in Seq(Data)
  BY DEF TypeOK
<1>3. m <= Full(rl, r_ptr) /\ Full(rl, r_ptr) + n <= Full(w_ptr, r_ptr)
      /\ (rpc # "peek" => m = Full(rl, r_ptr))
  BY <1>1 DEF Bounds
<1>4. k \in Nat /\ k + m = Full(rl, r_ptr) /\ k + m <= Full(w_ptr, r_ptr)
      /\ (rpc # "peek" => k = 0) /\ k \in 0 .. Len(contents) /\ m \in 0 .. Len(contents)
  BY <1>1, <1>2, <1>3
<1>5. \A j \in 1 .. m : out[j] = buff[At(r_ptr, k + j - 1)]
  BY DEF Contents
<1> HIDE DEF k, m
<1>6. /\ SubSeq(contents, k + 1, k + m) \in Seq(Data)
      /\ Len(SubSeq(contents, k + 1, k + m)) = m
      /\ \A j \in 1 .. m : SubSeq(contents, k + 1, k + m)[j] = buff[At(r_ptr, k + j - 1)]
  BY <1>2, <1>4, SliceType
<1>7. Len(out) = m
  BY DEF m
<1>8. out = SubSeq(contents, k + 1, k + m)
  BY <1>2, <1>5, <1>6, <1>7, SeqEqual
<1> QED
  BY <1>1, <1>4, <1>8

\* Advancing r_ptr takes the bytes before the reader's position off the queue.
LEMMA ReadTakes ==
  ASSUME TypeOK, TypeOK', Bounds, ReadEnds
  PROVE  /\ Full(rl, r_ptr) \in 0 .. Len(contents)
         /\ contents' = SubSeq(contents, Full(rl, r_ptr) + 1, Len(contents))
<1> DEFINE f == Full(rl, r_ptr)
           m == Full(w_ptr, rl)
<1>1. /\ r_ptr' = rl /\ buff' = buff /\ w_ptr' = w_ptr
      /\ m = Full(w_ptr, r_ptr) - f
      /\ f \in 0 .. Full(w_ptr, r_ptr)
      /\ Full(w_ptr, r_ptr) \in 0 .. Size - 1
      /\ r_ptr \in Index /\ rl \in Index
  BY ReaderMoves DEF ReadEnds, TypeOK
<1>2. Len(contents) = f + m /\ m \in Nat /\ f \in Nat /\ f + m <= Full(w_ptr, r_ptr)
      /\ f \in 0 .. Size - 1
  <2>1. Len(contents) = Full(w_ptr, r_ptr)
    BY QueueType
  <2> HIDE DEF f, m
  <2> QED
    BY <1>1, <2>1, SizeType
<1>3. At(r_ptr, f) = rl
  BY <1>1, FullType
<1>4. /\ contents' \in Seq(Data)
      /\ Len(contents') = m
      /\ \A j \in 1 .. m : contents'[j] = buff[At(rl, j - 1)]
  BY <1>1, QueueTypeNext DEF QueueIs
<1> HIDE DEF f, m
<1>5. \A j \in 1 .. m : At(rl, j - 1) = At(r_ptr, f + j - 1)
  <2> TAKE j \in 1 .. m
  <2>1. j - 1 \in 0 .. Size - 1 /\ f + (j - 1) < Size /\ f + (j - 1) = f + j - 1
    BY <1>1, <1>2, SizeType
  <2>2. At(At(r_ptr, f), j - 1) = At(r_ptr, f + (j - 1))
    BY <1>1, <1>2, <2>1, AtAdds
  <2> QED
    BY <1>3, <2>1, <2>2
<1>6. /\ SubSeq(contents, f + 1, f + m) \in Seq(Data)
      /\ Len(SubSeq(contents, f + 1, f + m)) = m
      /\ \A j \in 1 .. m : SubSeq(contents, f + 1, f + m)[j] = buff[At(r_ptr, f + j - 1)]
  BY <1>2, SliceType
<1>7. \A j \in 1 .. m : contents'[j] = SubSeq(contents, f + 1, f + m)[j]
  BY <1>4, <1>5, <1>6
<1>8. contents' = SubSeq(contents, f + 1, f + m)
  BY <1>4, <1>6, <1>7, SeqEqual
<1> QED
  BY <1>1, <1>2, <1>8, QueueType DEF f

LEMMA ReadEndsRefines ==
  ASSUME TypeOK, TypeOK', Bounds, Contents, ReadEnds
  PROVE  Queue!Next
<1> DEFINE f == Full(rl, r_ptr)
<1>1. f \in 0 .. Len(contents) /\ contents' = SubSeq(contents, f + 1, Len(contents))
  BY ReadTakes
<1>2. returned' = out
  BY DEF ReadEnds, returned
<1>3. returned = <<>> /\ accepted' = accepted
  BY ReaderKeepsAccepted DEF ReadEnds, returned
<1>4. CASE rpc = "skip"
  <2>1. out = <<>>
    BY <1>4 DEF Bounds
  <2>2. Queue!Skip
    BY <1>1, <1>2, <1>3, <2>1 DEF Queue!Skip
  <2> QED
    BY <2>2 DEF Queue!Next
<1>5. CASE rpc \in {"read", "linear"}
  <2>1. PICK k \in 0 .. Len(contents), m \in 0 .. Len(contents) :
          k = 0 /\ k + m = f /\ out = SubSeq(contents, k + 1, k + m)
    BY <1>5, CopiedIsSlice
  <2> HIDE DEF f
  <2>2. m = f
    BY <2>1
  <2>3. k + 1 = 1 /\ k + m = f
    BY <2>1
  <2>4. out = SubSeq(contents, 1, f)
    BY <2>1, <2>3
  <2>5. Queue!Get
    BY <1>1, <1>2, <1>3, <2>4 DEF Queue!Get
  <2> QED
    BY <2>5 DEF Queue!Next
<1> QED
  BY <1>4, <1>5 DEF ReadEnds

LEMMA PeekEndsRefines ==
  ASSUME TypeOK, Bounds, Contents, PeekEnds
  PROVE  Queue!Next
<1>1. PICK k \in 0 .. Len(contents), m \in 0 .. Len(contents) :
        k + m <= Len(contents) /\ out = SubSeq(contents, k + 1, k + m)
  BY CopiedIsSlice DEF PeekEnds
<1>2. returned' = out /\ contents' = contents /\ accepted' = accepted
  BY ReaderKeepsAccepted DEF PeekEnds, returned, contents, writer
<1>3. Queue!Peek
  BY <1>1, <1>2 DEF Queue!Peek
<1> QED
  BY <1>3 DEF Queue!Next

LEMMA BeginsRefines ==
  ASSUME NEW op \in {"read", "peek", "linear"}, NEW from, NEW count, Begins(op, from, count)
  PROVE  Queue!Next
<1>1. returned' = <<>>
  BY DEF Begins, returned
<1>2. contents' = contents /\ accepted' = accepted
  BY ReaderKeepsAccepted DEF Begins, contents
<1>3. Queue!Ask
  BY <1>1, <1>2 DEF Queue!Ask
<1> QED
  BY <1>3 DEF Queue!Next

LEMMA StepRefines ==
  ASSUME TypeOK, TypeOK', Bounds, Contents, [Next]_vars
  PROVE  [Queue!Next]_(Queue!vars)
<1>1. ASSUME NEW s \in Requests, WriteCall(s) \/ LinearStart(s)
      PROVE  Queue!Next
  <2>1. returned' = returned /\ contents' = contents
    BY <1>1 DEF WriteCall, LinearStart, reader, returned, contents
  <2>2. accepted = <<>>
    BY <1>1 DEF WriteCall, LinearStart, accepted
  <2>3. Queue!Request
    BY <2>1, <2>2 DEF Queue!Request
  <2> QED
    BY <2>3 DEF Queue!Next
<1>2. CASE WriteStart
  <2>1. returned' = returned /\ contents' = contents
    BY <1>2 DEF WriteStart, reader, returned, contents
  <2> QED
    BY <1>2, <2>1, StartKeepsAccepted DEF Queue!vars
<1>3. CASE WriteByte
  <2>1. returned' = returned
    BY <1>3 DEF WriteByte, reader, returned
  <2>2. Full(w_ptr, r_ptr) \in 0 .. Size - 1 /\ Len(contents) = Full(w_ptr, r_ptr)
        /\ contents \in Seq(Data)
        /\ \A k \in 1 .. Full(w_ptr, r_ptr) : contents[k] = buff[At(r_ptr, k - 1)]
    BY QueueType
  <2>3. contents' \in Seq(Data) /\ Len(contents') = Full(w_ptr, r_ptr)
        /\ \A k \in 1 .. Full(w_ptr, r_ptr) : contents'[k] = buff'[At(r_ptr, k - 1)]
    BY <1>3, QueueTypeNext DEF QueueIs, WriteByte
  <2>4. \A k \in 1 .. Full(w_ptr, r_ptr) : contents'[k] = contents[k]
    <3> TAKE k \in 1 .. Full(w_ptr, r_ptr)
    <3>1. k - 1 \in 0 .. Full(w_ptr, r_ptr) - 1
      BY <2>2
    <3> QED
      BY <1>3, <2>2, <2>3, <3>1, StoreOutside
  <2>5. contents' = contents
    BY <2>2, <2>3, <2>4, SeqEqual
  <2> QED
    BY <1>3, <2>1, <2>5, ByteKeepsAccepted DEF Queue!vars
<1>4. CASE WriteEnds \/ Advance
  BY <1>4, WriteIsPut DEF Queue!Next
<1>5. ASSUME NEW btr \in 1 .. Size, ReadCall(btr)
      PROVE  Queue!Next
  BY <1>5, BeginsRefines DEF ReadCall
<1>6. ASSUME NEW len \in 1 .. Size, SkipCall(len)
      PROVE  Queue!Next
  <2>1. returned' = <<>> /\ contents' = contents /\ accepted' = accepted
    BY <1>6, ReaderKeepsAccepted DEF SkipCall, returned, contents
  <2>2. Queue!Ask
    BY <2>1 DEF Queue!Ask
  <2> QED
    BY <2>2 DEF Queue!Next
<1>7. ASSUME NEW k \in 0 .. Size, NEW btp \in 1 .. Size, PeekCall(k, btp)
      PROVE  Queue!Next
  BY <1>7, BeginsRefines DEF PeekCall
<1>8. CASE LinearRead
  BY <1>8, BeginsRefines DEF LinearRead
<1>9. CASE ReadByte
  <2>1. returned' = returned
    BY <1>9 DEF ReadByte, Bounds, TypeOK, returned
  <2>2. contents' = contents /\ accepted' = accepted
    BY <1>9, ReaderKeepsAccepted DEF ReadByte, contents
  <2> QED
    BY <2>1, <2>2 DEF Queue!vars
<1>10. CASE ReadEnds
  BY <1>10, ReadEndsRefines
<1>11. CASE PeekEnds
  BY <1>11, PeekEndsRefines
<1>12. CASE lwrb_reset
  <2>1. returned' = returned /\ accepted = <<>> /\ accepted' = <<>>
    BY <1>12 DEF lwrb_reset, reader, writer, returned, accepted
  <2>2. Full(w_ptr', r_ptr') = 0
    BY <1>12 DEF lwrb_reset, Full
  <2>3. contents' \in Seq(Data) /\ Len(contents') = 0
    BY <2>2, QueueTypeNext DEF QueueIs
  <2>4. contents' = <<>>
    BY <2>3
  <2>5. Queue!Reset
    BY <2>1, <2>4 DEF Queue!Reset
  <2> QED
    BY <2>5 DEF Queue!Next
<1>13. CASE UNCHANGED vars
  BY <1>13, ReaderKeepsAccepted DEF vars, reader, returned, contents, Queue!vars
<1> QED
  BY <1>1, <1>2, <1>3, <1>4, <1>5, <1>6, <1>7, <1>8, <1>9, <1>10, <1>11, <1>12, <1>13
  DEF Next, Write, Read

\* The ring buffer is a bounded queue, whatever the interleaving of the two sides.
THEOREM RingIsAQueue == Spec => RingSpec
<1>1. Init => TypeOK /\ Bounds /\ Contents /\ Queue!Init
  BY InitType, InitBounds, QueueInit DEF Init, Contents
<1>2. TypeOK /\ Bounds /\ Contents /\ [Next]_vars => (TypeOK /\ Bounds /\ Contents)'
  BY NextKeepsType, NextKeepsBounds, NextKeepsContents
<1>3. TypeOK /\ TypeOK' /\ Bounds /\ Contents /\ [Next]_vars => [Queue!Next]_(Queue!vars)
  BY StepRefines
<1> QED
  BY <1>1, <1>2, <1>3, PTL DEF Spec, RingSpec, Queue!Spec

-----------------------------------------------------------------------------

\* The blocks given to hardware do not wrap: what is left of one ends before the
\* end of the buffer (lwrb_get_linear_block_write_length and _read_length, with
\* the other side moving its index meanwhile).
LinearBlocks ==
  /\ wpc = "linear" /\ src # <<>> => wl + Len(src) <= Size
  /\ rpc = "linear" /\ n > 0 => rl + n <= Size

LEMMA LinearNext == TypeOK /\ LinearBlocks /\ [Next]_vars => LinearBlocks'
<1> SUFFICES ASSUME TypeOK, LinearBlocks, [Next]_vars
             PROVE  LinearBlocks'
  OBVIOUS
<1>1. /\ w_ptr \in 0 .. Size - 1 /\ r_ptr \in 0 .. Size - 1
      /\ wl \in 0 .. Size - 1 /\ rl \in 0 .. Size - 1
      /\ src \in Seq(Data) /\ n \in Nat
  BY DEF TypeOK, Index
<1> DEFINE WriterBlock == wpc = "linear" /\ src # <<>> => wl + Len(src) <= Size
           ReaderBlock == rpc = "linear" /\ n > 0 => rl + n <= Size
<1>2. WriterBlock /\ ReaderBlock
  BY DEF LinearBlocks
<1>3. CASE Write
  <2>1. ReaderBlock'
    BY <1>2, <1>3 DEF Write, WriteCall, LinearStart, WriteStart, WriteByte, WriteEnds, Advance,
       reader
  <2>2. ASSUME NEW s \in Requests, WriteCall(s) \/ LinearStart(s) PROVE WriterBlock'
    <3>1. CASE WriteCall(s)
      BY <3>1 DEF WriteCall
    <3>2. CASE LinearStart(s)
      <4>1. Len(s) \in Nat /\ Len(s) <= LinearWriteLength(w_ptr, r_ptr)
        BY <3>2, RequestType DEF LinearStart
      <4>2. LinearWriteLength(w_ptr, r_ptr) <= Size - w_ptr
            /\ LinearWriteLength(w_ptr, r_ptr) \in Int
        BY <1>1, SizeType DEF LinearWriteLength
      <4>3. src' = s /\ wl' = w_ptr
        BY <3>2 DEF LinearStart
      <4> QED
        BY <1>1, <4>1, <4>2, <4>3, SizeType
    <3> QED
      BY <2>2, <3>1, <3>2
  <2>3. CASE WriteStart \/ WriteEnds \/ Advance
    BY <2>1, <2>3 DEF WriteStart, WriteEnds, Advance, LinearBlocks
  <2>4. CASE WriteByte
    <3>1. wpc' = wpc /\ src # <<>> /\ src' = Tail(src) /\ wl' = Next_(wl)
      BY <2>4 DEF WriteByte
    <3>2. Len(src) \in Nat \ {0} /\ Len(src') = Len(src) - 1 /\ src' \in Seq(Data)
      BY <1>1, <3>1
    <3>3. src' # <<>> => Len(src') > 0
      BY <3>2
    <3> SUFFICES ASSUME wpc = "linear", src' # <<>>
                 PROVE  wl' + Len(src') <= Size
      BY <2>1, <3>1 DEF LinearBlocks
    <3>4. wl + Len(src) <= Size /\ Len(src) > 1
      BY <1>2, <3>1, <3>2, <3>3
    <3>5. wl' = wl + 1
      BY <1>1, <3>1, <3>2, <3>4, SizeType DEF Next_
    <3> QED
      BY <1>1, <3>2, <3>4, <3>5, SizeType
  <2> QED
    BY <1>3, <2>1, <2>2, <2>3, <2>4 DEF Write, LinearBlocks
<1>4. CASE Read
  <2>1. WriterBlock'
    BY <1>2, <1>4 DEF Read, ReadCall, SkipCall, PeekCall, LinearRead, Begins, ReadByte, ReadEnds,
       PeekEnds, writer
  <2>2. CASE LinearRead
    <3>1. LinearReadLength(w_ptr, r_ptr) <= Size - r_ptr /\ LinearReadLength(w_ptr, r_ptr) \in Int
      BY <1>1, SizeType DEF LinearReadLength
    <3>2. rl' = r_ptr /\ n' = LinearReadLength(w_ptr, r_ptr)
      BY <2>2 DEF LinearRead, Begins
    <3> QED
      BY <1>1, <2>1, <3>1, <3>2, SizeType DEF LinearBlocks
  <2>3. ASSUME NEW btr \in 1 .. Size, ReadCall(btr) \/ SkipCall(btr) PROVE LinearBlocks'
    BY <2>1, <2>3 DEF ReadCall, SkipCall, Begins, LinearBlocks
  <2>4. ASSUME NEW k \in 0 .. Size, NEW btp \in 1 .. Size, PeekCall(k, btp) PROVE LinearBlocks'
    BY <2>1, <2>4 DEF PeekCall, Begins, LinearBlocks
  <2>5. CASE ReadByte
    <3>1. rpc' = rpc /\ n > 0 /\ n' = n - 1 /\ rl' = Next_(rl)
      BY <2>5 DEF ReadByte
    <3>2. rpc = "linear" /\ n' > 0 => rl' + n' <= Size
      BY <1>1, <1>2, <3>1, SizeType DEF Next_
    <3> QED
      BY <2>1, <3>1, <3>2 DEF LinearBlocks
  <2>6. CASE ReadEnds \/ PeekEnds
    BY <2>1, <2>6 DEF ReadEnds, PeekEnds, LinearBlocks
  <2> QED
    BY <1>4, <2>2, <2>3, <2>4, <2>5, <2>6 DEF Read
<1>5. CASE lwrb_reset
  BY <1>5 DEF lwrb_reset, writer, reader, LinearBlocks
<1>6. CASE UNCHANGED vars
  BY <1>6 DEF vars, writer, reader, LinearBlocks
<1> QED
  BY <1>3, <1>4, <1>5, <1>6 DEF Next

\* A DMA that is given a linear block stays inside the buffer.
THEOREM BlocksAreLinear == Spec => []LinearBlocks
<1>1. Init => LinearBlocks
  BY DEF Init, LinearBlocks
<1> QED
  BY <1>1, LinearNext, TypeCorrect, PTL DEF Spec

\* The limits in lwrb_advance and lwrb_skip never bite: the index ends where the
\* hardware, or the reader, has come to, so no byte is dropped or given twice.
THEOREM IndicesFollow ==
  Spec => [][(WriteEnds \/ Advance => w_ptr' = wl) /\ (ReadEnds => r_ptr' = rl)]_vars
<1>1. TypeOK /\ Bounds =>
        (WriteEnds \/ Advance => w_ptr' = wl) /\ (ReadEnds => r_ptr' = rl)
  BY WriterMoves, ReaderMoves
<1> QED
  BY <1>1, BoundsHold, PTL
=============================================================================
