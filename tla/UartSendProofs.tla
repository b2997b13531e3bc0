--------------------------- MODULE UartSendProofs ---------------------------
(***************************************************************************)
(* The transmit side of the UART manager, for any buffer sizes: what a     *)
(* send answers, who takes the queued bytes, and their order.              *)
(***************************************************************************)
EXTENDS UartSend, Integers, SequenceTheorems, TLAPS

LEMMA SizesType ==
  /\ RecvSize \in Nat /\ RecvSize >= 1 /\ SendSize \in Nat /\ SendSize >= 1
  /\ FifoSize \in Nat /\ FifoSize >= 1 /\ PutMod \in Nat /\ PutMod >= 1
  /\ Numbers \in Nat /\ Numbers > SendSize + FifoSize /\ RecvSize <= FifoSize
BY UartAssumption

Byte == 0 .. Numbers - 1

\* Numbers wrap at most once between the oldest byte and the next one.
LEMMA WrapsOnce ==
  ASSUME NEW x \in 0 .. 2 * Numbers - 1
  PROVE  x % Numbers = (IF x < Numbers THEN x ELSE x - Numbers) /\ x % Numbers \in Byte
BY SizesType DEF Byte

LEMMA NumberType ==
  ASSUME NEW first \in Byte, NEW m \in 0 .. SendSize + FifoSize
  PROVE  /\ Number(first, m) \in Seq(Byte) /\ Len(Number(first, m)) = m
         /\ \A k \in 1 .. m : Number(first, m)[k] = (first + k - 1) % Numbers
<1>1. \A k \in 1 .. m : (first + k - 1) % Numbers \in Byte
  <2> TAKE k \in 1 .. m
  <2>1. first + k - 1 \in 0 .. 2 * Numbers - 1
    BY SizesType DEF Byte
  <2> QED
    BY <2>1, WrapsOnce
<1>2. Number(first, m) \in [1 .. m -> Byte]
  BY <1>1 DEF Number
<1>3. m \in Nat
  BY SizesType
<1>4. Number(first, m) \in Seq(Byte) /\ Len(Number(first, m)) = m
  BY <1>2, <1>3
<1> QED
  BY <1>4 DEF Number

LEMMA ModAtMost == \A m \in Nat : m % PutMod <= m /\ m % PutMod \in Nat
BY SizesType

\* The lengths of a send: all of it is kept, or it does not answer 0.
LEMMA LengthsType ==
  ASSUME TypeOK, NEW len \in 1 .. RecvSize
  PROVE  /\ Direct(len) \in 0 .. SendSize
         /\ Rest(len) \in 0 .. FifoSize
         /\ Puts(Rest(len)) \in 0 .. Rest(len)
         /\ Len(fifo) + Puts(Rest(len)) <= FifoSize
         /\ Direct(len) + Puts(Rest(len)) \in 0 .. SendSize + FifoSize
         /\ AnswersOk(Rest(len)) => Direct(len) + Puts(Rest(len)) >= len
         /\ Direct(len) > 0 <=> ~is_sending
<1>1. Len(fifo) \in 0 .. FifoSize
  BY DEF TypeOK
<1>2. len \in Nat /\ len >= 1 /\ len <= FifoSize
  BY SizesType
<1>3. Direct(len) \in 0 .. SendSize /\ (Direct(len) > 0 <=> ~is_sending)
  BY <1>2, SizesType DEF Direct, SmallerOf
<1>4. Rest(len) \in 0 .. FifoSize /\ Direct(len) + Rest(len) >= len
  BY <1>2, SizesType DEF Rest, Direct, SmallerOf
<1> DEFINE r == Rest(len)
           q == Puts(r)
<1>5. q \in 0 .. r /\ Len(fifo) + q <= FifoSize
  <2> HIDE DEF r
  <2> QED
    BY <1>1, <1>4, SizesType DEF Puts, SmallerOf, r
<1>6. AnswersOk(r) => q = r
  <2>1. q % PutMod <= q
    BY <1>4, <1>5, ModAtMost, SizesType
  <2>2. q % PutMod \in Nat
    BY <1>4, <1>5, ModAtMost, SizesType
  <2> HIDE DEF q, r
  <2>3. AnswersOk(r) => r = 0 \/ q % PutMod = r
    BY DEF AnswersOk, q
  <2> QED
    BY <1>4, <1>5, <2>1, <2>2, <2>3, SizesType DEF r
<1> QED
  <2> HIDE DEF q
  <2> QED
    BY <1>3, <1>4, <1>5, <1>6, SizesType DEF q

-----------------------------------------------------------------------------
\* Where a transfer and the hook stand: they exclude one another, is_sending
\* covers both, and the hook finds in the queue what it has counted there.
Control ==
  /\ tx # <<>> => is_sending /\ hook = "idle"
  /\ hook # "idle" => is_sending
  /\ hook = "some" => fifo_data_num \in 1 .. Len(fifo)
  /\ hook = "empty" /\ ~raced => fifo = <<>>
  /\ is_sending /\ ~refused => tx # <<>> \/ hook # "idle"
  /\ fifo # <<>> /\ ~raced /\ ~refused => is_sending

UInv == TypeOK /\ Control

\* What a send leaves in the variables it changes.
LEMMA EchoStep ==
  ASSUME TypeOK, NEW len \in 1 .. RecvSize, Echo(len)
  PROVE  /\ TypeOK'
         /\ is_sending'
         /\ is_sending => UNCHANGED <<is_sending, tx, gState, refused>>
         /\ ~is_sending /\ ~refused' =>
              /\ ~refused
              /\ tx' = Number(accepted, Direct(len))
              /\ Len(tx') = Direct(len) /\ Direct(len) > 0
         /\ fifo' = fifo \o Number((accepted + Direct(len)) % Numbers, Puts(Rest(len)))
         /\ Len(fifo') = Len(fifo) + Puts(Rest(len))
         /\ (accepted + Direct(len)) % Numbers \in Byte
<1> DEFINE d == Direct(len)
           p == Puts(Rest(len))
           next == (accepted + d) % Numbers
<1>1. /\ d \in 0 .. SendSize /\ p \in 0 .. FifoSize
      /\ Len(fifo) + p <= FifoSize /\ (d > 0 <=> ~is_sending)
  BY LengthsType, SizesType
<1>2. accepted \in Byte /\ sent \in Byte
  BY DEF TypeOK, Byte
<1>3. accepted + d \in 0 .. 2 * Numbers - 1
  <2> HIDE DEF d
  <2> QED
    BY <1>1, <1>2, SizesType DEF Byte
<1>4. next \in Byte
  BY <1>3, WrapsOnce
<1>5. next + p \in 0 .. 2 * Numbers - 1
  <2> HIDE DEF next, p
  <2> QED
    BY <1>1, <1>4, SizesType DEF Byte
<1>6. (next + p) % Numbers \in Byte
  BY <1>5, WrapsOnce
<1>7. Number(next, p) \in Seq(Byte) /\ Len(Number(next, p)) = p
  <2> HIDE DEF next, p
  <2>1. p \in 0 .. SendSize + FifoSize
    BY <1>1, SizesType
  <2> QED
    BY <1>4, <2>1, NumberType
<1>8. Number(accepted, d) \in Seq(Byte) /\ Len(Number(accepted, d)) = d
  <2> HIDE DEF d
  <2>1. d \in 0 .. SendSize + FifoSize
    BY <1>1, SizesType
  <2> QED
    BY <1>2, <2>1, NumberType
<1>9. fifo \in Seq(Byte)
  BY DEF TypeOK, Byte
<1>10. fifo' = fifo \o Number(next, p)
  BY DEF Echo
<1>11. fifo' \in Seq(Byte) /\ Len(fifo') = Len(fifo) + p
  <2> HIDE DEF next, p
  <2> QED
    BY <1>7, <1>9, <1>10, ConcatProperties
<1>12. IF d > 0 THEN is_sending' = TRUE /\ Transmit_DMA(Number(accepted, d))
       ELSE UNCHANGED <<is_sending, tx, gState, refused>>
  BY DEF Echo
<1>13. is_sending'
  BY <1>1, <1>12
<1>14. ~is_sending /\ ~refused' =>
         ~refused /\ tx' = Number(accepted, d) /\ Len(tx') = d /\ d > 0
  <2> HIDE DEF d
  <2> QED
    BY <1>1, <1>8, <1>12 DEF Transmit_DMA
<1>15. /\ tx' \in Seq(Byte) /\ Len(tx') <= SendSize
       /\ gState' \in {"READY", "BUSY_TX"} /\ refused' \in BOOLEAN
  <2> HIDE DEF d
  <2>1. CASE d > 0 /\ gState = "READY"
    BY <1>1, <1>8, <1>12, <2>1, SizesType DEF Transmit_DMA, TypeOK
  <2>2. CASE d > 0 /\ gState # "READY"
    BY <1>12, <2>2 DEF Transmit_DMA, TypeOK, Byte
  <2>3. CASE ~(d > 0)
    BY <1>12, <2>3 DEF TypeOK, Byte
  <2> QED
    BY <2>1, <2>2, <2>3
<1>16. /\ silent' \in BOOLEAN /\ raced' \in BOOLEAN /\ accepted' \in Byte
       /\ UNCHANGED <<sent, hook, fifo_data_num, print>>
  BY <1>6 DEF Echo, TypeOK
<1>17. TypeOK'
  <2> HIDE DEF d, p, next
  <2>1. is_sending' \in BOOLEAN
    BY <1>12 DEF TypeOK
  <2> QED
    BY <1>1, <1>11, <1>15, <1>16, <2>1 DEF TypeOK, Byte
<1>18. is_sending => UNCHANGED <<is_sending, tx, gState, refused>>
  <2> HIDE DEF d
  <2> QED
    BY <1>1, <1>12
<1> QED
  BY <1>4, <1>10, <1>11, <1>13, <1>14, <1>17, <1>18

\* What the hook takes from the queue: something, at most a send_buffer.
Taken == SmallerOf(SmallerOf(fifo_data_num, SendSize), Len(fifo))
LEMMA HookStep ==
  ASSUME UInv, HookSends
  PROVE  /\ TypeOK'
         /\ Taken \in 1 .. SendSize /\ Taken <= Len(fifo)
         /\ ~refused' => tx' = SubSeq(fifo, 1, Taken) /\ Len(tx') = Taken /\ ~refused
         /\ refused' => (tx' = SubSeq(fifo, 1, Taken) /\ Len(tx') = Taken) \/ tx' = tx
         /\ fifo' = SubSeq(fifo, Taken + 1, Len(fifo))
         /\ Len(fifo') = Len(fifo) - Taken
<1> DEFINE m == Taken
<1>1. Len(fifo) \in 1 .. FifoSize /\ fifo_data_num \in 1 .. Len(fifo)
  BY SizesType DEF UInv, TypeOK, Control, HookSends
<1>2. m \in 1 .. SendSize /\ m <= Len(fifo)
  BY <1>1, SizesType DEF Taken, SmallerOf
<1>3. fifo \in Seq(Byte)
  BY DEF UInv, TypeOK, Byte
<1>4. SubSeq(fifo, 1, m) \in Seq(Byte) /\ Len(SubSeq(fifo, 1, m)) = m
  <2> HIDE DEF m
  <2> QED
    BY <1>1, <1>2, <1>3, SizesType, SubSeqProperties
<1>5. /\ SubSeq(fifo, m + 1, Len(fifo)) \in Seq(Byte)
      /\ Len(SubSeq(fifo, m + 1, Len(fifo))) = Len(fifo) - m
  <2> HIDE DEF m
  <2> QED
    BY <1>1, <1>2, <1>3, SizesType, SubSeqProperties
<1>6. Transmit_DMA(SubSeq(fifo, 1, m)) /\ fifo' = SubSeq(fifo, m + 1, Len(fifo))
  BY DEF HookSends, Taken
<1>7. /\ ~refused' => tx' = SubSeq(fifo, 1, m) /\ Len(tx') = m /\ ~refused
      /\ refused' => (tx' = SubSeq(fifo, 1, m) /\ Len(tx') = m) \/ tx' = tx
      /\ gState' \in {"READY", "BUSY_TX"} /\ refused' \in BOOLEAN
  <2> HIDE DEF m
  <2> QED
    BY <1>4, <1>6 DEF Transmit_DMA, UInv, TypeOK
<1>8. tx' \in Seq(Byte) /\ Len(tx') <= SendSize
  <2> HIDE DEF m
  <2>1. (tx' = SubSeq(fifo, 1, m) /\ Len(tx') = m) \/ tx' = tx
    BY <1>7, Zenon
  <2>2. tx \in Seq(Byte) /\ Len(tx) <= SendSize
    BY DEF UInv, TypeOK, Byte
  <2>3. CASE tx' = SubSeq(fifo, 1, m) /\ Len(tx') = m
    BY <1>2, <1>4, <2>3, SizesType
  <2> QED
    BY <2>1, <2>2, <2>3
<1>9. /\ fifo' \in Seq(Byte) /\ Len(fifo') = Len(fifo) - m /\ Len(fifo') <= FifoSize
  <2> HIDE DEF m
  <2> QED
    BY <1>1, <1>2, <1>5, <1>6, SizesType
<1>10. TypeOK'
  BY <1>7, <1>8, <1>9 DEF UInv, TypeOK, Byte, HookSends
<1> QED
  BY <1>2, <1>6, <1>7, <1>9, <1>10

-----------------------------------------------------------------------------
LEMMA InitUInv == Init => UInv
<1> SUFFICES ASSUME Init PROVE UInv
  OBVIOUS
<1>1. 0 \in Byte /\ 0 \in 0 .. FifoSize /\ 0 <= FifoSize /\ 0 <= SendSize
  BY SizesType DEF Byte
<1>2. <<>> \in Seq(Byte) /\ Len(<<>>) = 0
  OBVIOUS
<1>3. TypeOK
  BY <1>1, <1>2 DEF Init, TypeOK, Byte
<1>4. Control
  BY DEF Init, Control
<1> QED
  BY <1>3, <1>4 DEF UInv

LEMMA StepUInv == UInv /\ [Next]_vars => UInv'
<1> SUFFICES ASSUME UInv, [Next]_vars PROVE UInv'
  OBVIOUS
<1>1. ASSUME NEW len \in 1 .. RecvSize, Echo(len) PROVE UInv'
  <2>0. TypeOK /\ Control
    BY DEF UInv
  <2> DEFINE p == Puts(Rest(len))
  <2>1. TypeOK' /\ is_sending'
    BY <1>1, <2>0, EchoStep
  <2>2. is_sending => UNCHANGED <<is_sending, tx, gState, refused>>
    BY <1>1, <2>0, EchoStep
  <2>3. ~is_sending /\ ~refused' => ~refused /\ Len(tx') > 0
    BY <1>1, <2>0, EchoStep
  <2>4. Len(fifo') = Len(fifo) + p /\ p \in Nat
    BY <1>1, <2>0, EchoStep, LengthsType, SizesType
  <2>5. /\ UNCHANGED <<hook, fifo_data_num>>
        /\ raced' = (raced \/ (hook = "empty" /\ p > 0))
    BY <1>1 DEF Echo
  <2>6. ~is_sending => hook = "idle"
    BY <2>0 DEF Control
  <2>7. (tx' # <<>> => is_sending' /\ hook' = "idle") /\ (hook' # "idle" => is_sending')
    BY <2>0, <2>1, <2>2, <2>5, <2>6 DEF Control
  <2>8. hook' = "some" => fifo_data_num' \in 1 .. Len(fifo')
    <3> HIDE DEF p
    <3>1. Len(fifo) \in Nat
      BY <2>0 DEF TypeOK
    <3> QED
      BY <2>0, <2>4, <2>5, <3>1 DEF Control
  <2>9. hook' = "empty" /\ ~raced' => fifo' = <<>>
    <3> SUFFICES ASSUME hook' = "empty", ~raced' PROVE fifo' = <<>>
      OBVIOUS
    <3>1. p = 0 /\ ~raced
      <4> HIDE DEF p
      <4>1. ~(p > 0) /\ ~raced
        BY <2>5, Zenon
      <4> QED
        BY <2>4, <4>1
    <3>2. fifo = <<>>
      BY <2>0, <2>5, <3>1 DEF Control
    <3>3. Len(fifo') = 0
      <4> HIDE DEF p
      <4> QED
        BY <2>4, <3>1, <3>2
    <3> QED
      BY <2>1, <3>3 DEF TypeOK
  <2>10. is_sending' /\ ~refused' => tx' # <<>> \/ hook' # "idle"
    <3>1. CASE is_sending
      BY <2>0, <2>2, <2>5, <3>1 DEF Control
    <3>2. CASE ~is_sending
      BY <2>3, <3>2
    <3> QED
      BY <3>1, <3>2
  <2> QED
    BY <2>1, <2>7, <2>8, <2>9, <2>10 DEF UInv, Control
<1>2. CASE TransmitEnds
  <2>1. sent + Len(tx) \in 0 .. 2 * Numbers - 1
    BY SizesType DEF UInv, TypeOK
  <2>2. (sent + Len(tx)) % Numbers \in Byte
    BY <2>1, WrapsOnce
  <2>3. <<>> \in Seq(0 .. Numbers - 1) /\ Len(<<>>) = 0
    OBVIOUS
  <2>4. TypeOK'
    BY <1>2, <2>2, <2>3, SizesType DEF TransmitEnds, UInv, TypeOK, Byte, hist
  <2>5. Control'
    BY <1>2 DEF TransmitEnds, UInv, Control, hist
  <2> QED
    BY <2>4, <2>5 DEF UInv
<1>3. CASE HookReads
  <2>1. Len(fifo) \in 0 .. FifoSize /\ (Len(fifo) = 0 <=> fifo = <<>>)
    BY DEF UInv, TypeOK
  <2>2. TypeOK'
    BY <1>3, <2>1 DEF HookReads, UInv, TypeOK, bytes, hist
  <2>3. Control'
    BY <1>3, <2>1 DEF HookReads, UInv, Control, bytes, hist
  <2> QED
    BY <2>2, <2>3 DEF UInv
<1>4. CASE HookClears
  <2>1. TypeOK'
    BY <1>4 DEF HookClears, UInv, TypeOK, bytes, hist
  <2>2. Control'
    BY <1>4 DEF HookClears, UInv, Control, bytes, hist
  <2> QED
    BY <2>1, <2>2 DEF UInv
<1>5. CASE HookSends
  <2>1. TypeOK' /\ Taken \in 1 .. SendSize
    BY <1>5, HookStep
  <2>2. ~refused' => Len(tx') = Taken /\ ~refused
    BY <1>5, HookStep
  <2>3. is_sending' /\ hook' = "idle"
    BY <1>5 DEF HookSends
  <2>4. ~refused' => tx' # <<>>
    <3> HIDE DEF Taken
    <3> QED
      BY <2>1, <2>2
  <2>5. Control'
    BY <2>3, <2>4 DEF Control
  <2> QED
    BY <2>1, <2>5 DEF UInv
<1>6. CASE PrintfSends
  <2>1. TypeOK'
    BY <1>6 DEF PrintfSends, UInv, TypeOK, bytes, hist
  <2>2. Control'
    BY <1>6 DEF PrintfSends, UInv, Control, bytes, hist
  <2> QED
    BY <2>1, <2>2 DEF UInv
<1>7. CASE UNCHANGED vars
  BY <1>7 DEF vars, bytes, hist, UInv, TypeOK, Control
<1> QED
  BY <1>1, <1>2, <1>3, <1>4, <1>5, <1>6, <1>7 DEF Next, Hook

\* In every execution the variables have their types, the queue does not
\* outgrow its buffer, and transfer, hook and is_sending agree.
THEOREM TypeCorrect == Spec => [](TypeOK /\ Control)
<1>1. UInv => TypeOK /\ Control
  BY DEF UInv
<1> QED
  BY <1>1, InitUInv, StepUInv, PTL DEF Spec

\* As long as no send falls into the hook's gap and no printing task holds the
\* UART, queued bytes always have a transfer or a hook to come that takes them
\* (uart_manage_send_completed_hook).
THEOREM QueueHasServer == Spec => []NoneStranded
<1>1. UInv => NoneStranded
  BY DEF UInv, Control, NoneStranded
<1> QED
  BY <1>1, InitUInv, StepUInv, PTL DEF Spec

-----------------------------------------------------------------------------
\* A send that answers 0 has each byte in the transfer or in the queue, whatever
\* the width of put_len, as long as HAL_UART_Transmit_DMA has refused no transfer:
\* uart_manage_dma_send_impl may report a success as a failure, and the reverse
\* only for direct bytes whose transfer is refused.
THEOREM ZeroAnswersAreTrue == Spec => []ZeroMeansAll
<1>1. Init => ZeroMeansAll
  BY DEF Init, ZeroMeansAll
<1>2. UInv /\ ZeroMeansAll /\ [Next]_vars => ZeroMeansAll'
  <2> SUFFICES ASSUME UInv, ZeroMeansAll, [Next]_vars PROVE ZeroMeansAll'
    OBVIOUS
  <2>1. ASSUME NEW len \in 1 .. RecvSize, Echo(len) PROVE ZeroMeansAll'
    <3> DEFINE d == Direct(len)
               t == DirectTaken(len)
               p == Puts(Rest(len))
               ok == AnswersOk(Rest(len))
    <3>1. silent' = (silent \/ (ok /\ t + p < len))
      BY <2>1 DEF Echo
    <3>2. ok => d + p >= len
      BY LengthsType DEF UInv
    <3>3. d \in Nat /\ d + p \in Nat /\ len \in Nat
      BY LengthsType, SizesType DEF UInv
    <3>4. t = d \/ (d > 0 /\ gState # "READY")
      <4> HIDE DEF d
      <4> QED
        BY <3>3 DEF DirectTaken, d
    <3>5. d > 0 /\ gState # "READY" => refused'
      BY <2>1 DEF Echo, Transmit_DMA
    <3>6. refused => refused'
      BY <2>1 DEF Echo, Transmit_DMA
    <3> HIDE DEF d, t, p, ok
    <3>7. ok /\ t = d => ~(t + p < len)
      BY <3>2, <3>3
    <3>8. silent' => silent \/ (ok /\ t + p < len)
      BY <3>1
    <3> QED
      BY <3>4, <3>5, <3>6, <3>7, <3>8 DEF ZeroMeansAll
  <2>2. CASE TransmitEnds
    BY <2>2 DEF TransmitEnds, hist, ZeroMeansAll
  <2>3. CASE Hook
    BY <2>3 DEF Hook, HookReads, HookClears, HookSends, Transmit_DMA, hist, ZeroMeansAll
  <2>4. CASE PrintfSends
    BY <2>4 DEF PrintfSends, hist, ZeroMeansAll
  <2>5. CASE UNCHANGED vars
    BY <2>5 DEF vars, hist, ZeroMeansAll
  <2> QED
    BY <2>1, <2>2, <2>3, <2>4, <2>5 DEF Next
<1> QED
  BY <1>1, <1>2, InitUInv, StepUInv, PTL DEF Spec

-----------------------------------------------------------------------------
\* SentInOrder, byte by byte.
Order ==
  ~raced /\ ~refused =>
    /\ accepted = (sent + (Len(tx) + Len(fifo))) % Numbers
    /\ \A k \in 1 .. Len(tx) : tx[k] = (sent + (k - 1)) % Numbers
    /\ \A k \in 1 .. Len(fifo) : fifo[k] = (sent + (Len(tx) + k - 1)) % Numbers

LEMMA OrderSuffices == TypeOK /\ Order => SentInOrder
<1> SUFFICES ASSUME TypeOK, Order, ~raced, ~refused
             PROVE  /\ tx \o fifo = Number(sent, Len(tx) + Len(fifo))
                    /\ accepted = (sent + Len(tx) + Len(fifo)) % Numbers
  BY DEF SentInOrder
<1> DEFINE s == Number(sent, Len(tx) + Len(fifo))
<1>1. /\ tx \in Seq(Byte) /\ fifo \in Seq(Byte) /\ sent \in Byte
      /\ Len(tx) \in 0 .. SendSize /\ Len(fifo) \in 0 .. FifoSize
      /\ sent \in Nat
  BY SizesType DEF TypeOK, Byte
<1>2. Len(tx) + Len(fifo) \in 0 .. SendSize + FifoSize
  BY <1>1, SizesType
<1>3. /\ s \in Seq(Byte) /\ Len(s) = Len(tx) + Len(fifo)
      /\ \A k \in 1 .. Len(tx) + Len(fifo) : s[k] = (sent + k - 1) % Numbers
  BY <1>1, <1>2, NumberType
<1>4. /\ tx \o fifo \in Seq(Byte) /\ Len(tx \o fifo) = Len(tx) + Len(fifo)
      /\ \A k \in 1 .. Len(tx) + Len(fifo) :
           (tx \o fifo)[k] = IF k <= Len(tx) THEN tx[k] ELSE fifo[k - Len(tx)]
  BY <1>1, ConcatProperties
<1>5. ASSUME NEW k \in 1 .. Len(s) PROVE (tx \o fifo)[k] = s[k]
  <2>0. k \in 1 .. Len(tx) + Len(fifo) /\ k \in Nat /\ k >= 1
    BY <1>3, <1>1, SizesType
  <2>1. s[k] = (sent + k - 1) % Numbers
    <3> HIDE DEF s
    <3> QED
      BY <1>3, <2>0
  <2>2. CASE k <= Len(tx)
    <3>1. k \in 1 .. Len(tx)
      BY <2>0, <2>2, <1>1, SizesType
    <3>2. tx[k] = (sent + (k - 1)) % Numbers
      BY <3>1 DEF Order
    <3>3. sent + (k - 1) = sent + k - 1
      BY <1>1, <2>0
    <3> QED
      BY <1>4, <2>0, <2>1, <2>2, <3>2, <3>3
  <2>3. CASE ~(k <= Len(tx))
    <3> DEFINE j == k - Len(tx)
    <3>1. j \in 1 .. Len(fifo) /\ sent + (Len(tx) + j - 1) = sent + k - 1
      BY <2>0, <2>3, <1>1, SizesType
    <3>2. fifo[j] = (sent + (Len(tx) + j - 1)) % Numbers
      <4> HIDE DEF j
      <4> QED
        BY <3>1 DEF Order
    <3>3. (tx \o fifo)[k] = fifo[j]
      BY <1>4, <2>0, <2>3
    <3> QED
      BY <2>1, <3>1, <3>2, <3>3
  <2> QED
    BY <2>2, <2>3
<1>6. tx \o fifo = s
  <2> HIDE DEF s
  <2> QED
    BY <1>3, <1>4, <1>5, SeqEqual
<1>7. accepted = (sent + Len(tx) + Len(fifo)) % Numbers
  <2>1. sent + (Len(tx) + Len(fifo)) = sent + Len(tx) + Len(fifo)
    BY <1>1, SizesType
  <2> QED
    BY <2>1 DEF Order
<1> QED
  BY <1>6, <1>7

LEMMA AddOnce ==
  ASSUME NEW a \in Byte, NEW b \in Nat, NEW c \in Nat, b + c <= SendSize + FifoSize
  PROVE  (((a + b) % Numbers) + c) % Numbers = (a + (b + c)) % Numbers
<1> DEFINE x == a + b
           y == x % Numbers
           z == a + (b + c)
           w == y + c
<1>1. x \in 0 .. 2 * Numbers - 1 /\ z \in 0 .. 2 * Numbers - 1 /\ z = x + c
  BY SizesType DEF Byte
<1>2. x % Numbers = (IF x < Numbers THEN x ELSE x - Numbers) /\ x % Numbers \in Byte
  <2> HIDE DEF x
  <2> QED
    BY <1>1, WrapsOnce
<1>3. z % Numbers = (IF z < Numbers THEN z ELSE z - Numbers)
  <2> HIDE DEF z
  <2> QED
    BY <1>1, WrapsOnce
<1>4. w \in 0 .. 2 * Numbers - 1
  <2> HIDE DEF x, z
  <2> QED
    BY <1>1, <1>2, SizesType DEF Byte
<1>5. w % Numbers = (IF w < Numbers THEN w ELSE w - Numbers)
  <2> HIDE DEF w
  <2> QED
    BY <1>4, WrapsOnce
<1>6. w % Numbers = z % Numbers
  <2>1. y = x % Numbers /\ w = y + c
    OBVIOUS
  <2> HIDE DEF x, y, z, w
  <2> QED
    BY <1>1, <1>2, <1>3, <1>5, <2>1, SizesType DEF Byte
<1> QED
  BY <1>6

\* A send appends the next numbers.
LEMMA EchoOrder ==
  ASSUME UInv, Order, NEW len \in 1 .. RecvSize, Echo(len)
  PROVE  Order'
<1> SUFFICES ASSUME ~raced', ~refused'
             PROVE  /\ accepted' = (sent' + (Len(tx') + Len(fifo'))) % Numbers
                    /\ \A k \in 1 .. Len(tx') : tx'[k] = (sent' + (k - 1)) % Numbers
                    /\ \A k \in 1 .. Len(fifo') :
                         fifo'[k] = (sent' + (Len(tx') + k - 1)) % Numbers
  BY DEF Order
<1> DEFINE d == Direct(len)
           p == Puts(Rest(len))
           next == (accepted + d) % Numbers
           L == Len(tx) + Len(fifo)
<1>1. /\ d \in 0 .. SendSize /\ p \in Nat /\ Len(fifo) + p <= FifoSize
      /\ (d > 0 <=> ~is_sending) /\ d + p \in 0 .. SendSize + FifoSize
  BY LengthsType, SizesType DEF UInv
<1>2. /\ accepted \in Byte /\ sent \in Byte /\ accepted \in Nat /\ sent \in Nat
      /\ tx \in Seq(Byte) /\ fifo \in Seq(Byte)
      /\ Len(tx) \in 0 .. SendSize /\ Len(fifo) \in 0 .. FifoSize
  BY SizesType DEF UInv, TypeOK, Byte
<1>3. /\ fifo' = fifo \o Number(next, p) /\ Len(fifo') = Len(fifo) + p
      /\ next \in Byte
  BY EchoStep DEF UInv
<1>4. accepted' = (next + p) % Numbers /\ sent' = sent
  BY DEF Echo
<1>5. ~raced
  BY DEF Echo
<1>6. /\ Number(next, p) \in Seq(Byte) /\ Len(Number(next, p)) = p
      /\ \A k \in 1 .. p : Number(next, p)[k] = (next + k - 1) % Numbers
  <2> HIDE DEF next, p
  <2>1. p \in 0 .. SendSize + FifoSize
    BY <1>1, SizesType
  <2> QED
    BY <1>3, <2>1, NumberType
<1>7. /\ \A k \in 1 .. Len(fifo) : fifo'[k] = fifo[k]
      /\ \A k \in 1 .. p : fifo'[Len(fifo) + k] = (next + k - 1) % Numbers
  <2> HIDE DEF next, p
  <2>1. \A k \in 1 .. Len(fifo) + p :
          fifo'[k] = IF k <= Len(fifo) THEN fifo[k] ELSE Number(next, p)[k - Len(fifo)]
    BY <1>2, <1>3, <1>6, ConcatProperties
  <2>2. ASSUME NEW k \in 1 .. Len(fifo) PROVE fifo'[k] = fifo[k]
    BY <1>1, <1>2, <2>1
  <2>3. ASSUME NEW k \in 1 .. p PROVE fifo'[Len(fifo) + k] = (next + k - 1) % Numbers
    <3>1. Len(fifo) + k \in 1 .. Len(fifo) + p /\ ~(Len(fifo) + k <= Len(fifo))
      BY <1>1, <1>2
    <3>2. (Len(fifo) + k) - Len(fifo) = k
      BY <1>1, <1>2
    <3>3. fifo'[Len(fifo) + k] = Number(next, p)[k]
      BY <2>1, <3>1, <3>2
    <3> QED
      BY <1>6, <3>3
  <2> QED
    BY <2>2, <2>3
<1>8. CASE is_sending
  <2>1. d = 0
    <3> HIDE DEF d
    <3> QED
      BY <1>1, <1>8
  <2>2. UNCHANGED <<tx, refused>>
    BY <1>8, EchoStep DEF UInv
  <2>3. /\ accepted = (sent + L) % Numbers
        /\ \A k \in 1 .. Len(tx) : tx[k] = (sent + (k - 1)) % Numbers
        /\ \A k \in 1 .. Len(fifo) : fifo[k] = (sent + (Len(tx) + k - 1)) % Numbers
    BY <1>5, <2>2 DEF Order
  <2>4. next = accepted
    <3> HIDE DEF d
    <3>1. accepted + d = accepted /\ accepted \in 0 .. 2 * Numbers - 1 /\ accepted < Numbers
      BY <1>2, <2>1, SizesType DEF Byte
    <3> QED
      BY <3>1, WrapsOnce
  <2>5. L \in Nat /\ L + p <= SendSize + FifoSize /\ Len(tx) + Len(fifo') = L + p
    <3>1. Len(fifo') = Len(fifo) + p
      BY <1>3
    <3>2. /\ Len(tx) \in Nat /\ Len(tx) <= SendSize /\ Len(fifo) \in Nat
          /\ p \in Nat /\ Len(fifo) + p <= FifoSize
      BY <1>1, <1>2, SizesType
    <3> HIDE DEF p
    <3> QED
      BY <3>1, <3>2, SizesType
  <2>6. accepted' = (sent + (L + p)) % Numbers
    <3> HIDE DEF L, next, p
    <3> QED
      BY <1>1, <1>2, <1>4, <2>3, <2>4, <2>5, AddOnce
  <2>7. ASSUME NEW k \in 1 .. p
        PROVE  fifo'[Len(fifo) + k] = (sent + (Len(tx) + (Len(fifo) + k) - 1)) % Numbers
    <3>1. /\ k - 1 \in Nat /\ L + (k - 1) <= SendSize + FifoSize
          /\ next + k - 1 = next + (k - 1)
          /\ L + (k - 1) = Len(tx) + (Len(fifo) + k) - 1
      <4> HIDE DEF p, next
      <4> QED
        BY <1>1, <1>2, <1>3, <2>5, SizesType DEF Byte
    <3>2. fifo'[Len(fifo) + k] = (next + (k - 1)) % Numbers
      <4> HIDE DEF p, next
      <4> QED
        BY <1>7, <3>1
    <3>3. (((sent + L) % Numbers) + (k - 1)) % Numbers = (sent + (L + (k - 1))) % Numbers
      <4> HIDE DEF L, p
      <4> QED
        BY <1>2, <2>5, <3>1, AddOnce
    <3> HIDE DEF L, p, next
    <3> QED
      BY <2>3, <2>4, <3>1, <3>2, <3>3
  <2>8. ASSUME NEW k \in 1 .. Len(fifo')
        PROVE  fifo'[k] = (sent + (Len(tx) + k - 1)) % Numbers
    <3>1. CASE k <= Len(fifo)
      <4>1. k \in 1 .. Len(fifo)
        BY <1>2, <3>1
      <4> QED
        BY <1>7, <2>3, <4>1
    <3>2. CASE ~(k <= Len(fifo))
      <4> HIDE DEF p
      <4>1. PICK j \in 1 .. p : k = Len(fifo) + j
        <5>1. k - Len(fifo) \in 1 .. p /\ k = Len(fifo) + (k - Len(fifo))
          BY <1>1, <1>2, <1>3, <3>2
        <5> QED
          BY <5>1
      <4> QED
        BY <2>7, <4>1
    <3> QED
      BY <3>1, <3>2
  <2> HIDE DEF p, L, next, d
  <2> QED
    BY <1>4, <2>2, <2>3, <2>5, <2>6, <2>8
<1>9. CASE ~is_sending
  <2>1. /\ ~refused /\ tx' = Number(accepted, d) /\ Len(tx') = d
    BY <1>9, EchoStep DEF UInv
  <2>2. tx = <<>> /\ fifo = <<>>
    BY <1>5, <1>9, <2>1 DEF UInv, Control
  <2>3. Len(tx) = 0 /\ Len(fifo) = 0 /\ L = 0
    BY <2>2
  <2>4. accepted = sent
    <3>1. accepted = (sent + (Len(tx) + Len(fifo))) % Numbers
      BY <1>5, <2>1 DEF Order
    <3>2. sent + (Len(tx) + Len(fifo)) = sent /\ sent \in 0 .. 2 * Numbers - 1 /\ sent < Numbers
      BY <1>2, <2>3, SizesType DEF Byte
    <3> QED
      BY <3>1, <3>2, WrapsOnce
  <2>5. ASSUME NEW k \in 1 .. Len(tx') PROVE tx'[k] = (sent + (k - 1)) % Numbers
    <3> HIDE DEF d
    <3>1. k \in 1 .. d /\ sent + k - 1 = sent + (k - 1) /\ d \in 0 .. SendSize + FifoSize
      BY <1>1, <1>2, <2>1, SizesType
    <3> QED
      BY <1>2, <2>1, <2>4, <3>1, NumberType
  <2>6. accepted' = (sent + (d + p)) % Numbers
    <3>1. d \in Nat /\ p \in Nat /\ d + p <= SendSize + FifoSize /\ accepted \in Byte
      <4> HIDE DEF d, p
      <4> QED
        BY <1>1, <1>2, SizesType
    <3>2. (((accepted + d) % Numbers) + p) % Numbers = (accepted + (d + p)) % Numbers
      <4> HIDE DEF d, p
      <4> QED
        BY <3>1, AddOnce
    <3>3. accepted' = (((accepted + d) % Numbers) + p) % Numbers
      BY <1>4
    <3> QED
      BY <2>4, <3>2, <3>3
  <2>7. d + p = Len(tx') + Len(fifo') /\ Len(fifo') = p
    <3> HIDE DEF d, p
    <3> QED
      BY <1>1, <1>3, <2>1, <2>3
  <2>8. ASSUME NEW k \in 1 .. Len(fifo')
        PROVE  fifo'[k] = (sent + (Len(tx') + k - 1)) % Numbers
    <3>1. /\ k \in 1 .. p /\ k - 1 \in Nat /\ d + (k - 1) <= SendSize + FifoSize
          /\ next + k - 1 = next + (k - 1) /\ Len(fifo) + k = k
          /\ d + (k - 1) = Len(tx') + k - 1
      <4> HIDE DEF p, next, d
      <4> QED
        BY <1>1, <1>3, <2>1, <2>3, <2>7, SizesType DEF Byte
    <3>2. fifo'[k] = (next + (k - 1)) % Numbers
      <4> HIDE DEF p, next
      <4> QED
        BY <1>7, <3>1
    <3>3. next = (sent + d) % Numbers
      BY <2>4
    <3>4. (((sent + d) % Numbers) + (k - 1)) % Numbers = (sent + (d + (k - 1))) % Numbers
      <4>1. d \in Nat /\ k - 1 \in Nat /\ sent \in Byte
        <5> HIDE DEF d, p
        <5> QED
          BY <1>1, <1>2, <3>1, SizesType
      <4> QED
        <5> HIDE DEF d
        <5> QED
          BY <3>1, <4>1, AddOnce
    <3> HIDE DEF d, p, next
    <3> QED
      BY <3>1, <3>2, <3>3, <3>4
  <2> HIDE DEF p, L, next, d
  <2> QED
    BY <1>4, <2>5, <2>6, <2>7, <2>8
<1> QED
  BY <1>8, <1>9

\* The end of a transfer takes its bytes off the front.
LEMMA EndOrder ==
  ASSUME UInv, Order, TransmitEnds
  PROVE  Order'
<1> SUFFICES ASSUME ~raced, ~refused
             PROVE  /\ accepted = (sent' + (0 + Len(fifo))) % Numbers
                    /\ \A k \in 1 .. Len(fifo) : fifo[k] = (sent' + (0 + k - 1)) % Numbers
  BY DEF Order, TransmitEnds, hist
<1> DEFINE n == Len(tx)
           f == Len(fifo)
<1>1. /\ n \in Nat /\ f \in Nat /\ n <= SendSize /\ f <= FifoSize
      /\ sent \in Byte /\ sent \in Nat
  BY SizesType DEF UInv, TypeOK, Byte
<1>2. sent' = (sent + n) % Numbers
  BY DEF TransmitEnds
<1>3. (((sent + n) % Numbers) + f) % Numbers = (sent + (n + f)) % Numbers
  <2> HIDE DEF n, f
  <2>1. n + f <= SendSize + FifoSize
    BY <1>1, SizesType
  <2> QED
    BY <1>1, <2>1, AddOnce
<1>4. accepted = (sent' + (0 + f)) % Numbers
  <2>1. accepted = (sent + (n + f)) % Numbers
    BY DEF Order
  <2>2. 0 + f = f
    BY <1>1
  <2> QED
    BY <1>2, <1>3, <2>1, <2>2
<1>5. ASSUME NEW k \in 1 .. f PROVE fifo[k] = (sent' + (0 + k - 1)) % Numbers
  <2>1. fifo[k] = (sent + (n + k - 1)) % Numbers
    BY DEF Order
  <2> HIDE DEF n, f
  <2>2. /\ k - 1 \in Nat /\ n + (k - 1) <= SendSize + FifoSize
        /\ n + k - 1 = n + (k - 1) /\ 0 + k - 1 = k - 1
    BY <1>1, SizesType
  <2>3. (((sent + n) % Numbers) + (k - 1)) % Numbers = (sent + (n + (k - 1))) % Numbers
    BY <1>1, <2>2, AddOnce
  <2> QED
    BY <1>2, <2>1, <2>2, <2>3
<1> QED
  BY <1>4, <1>5

\* The hook moves the front of the queue to the transfer.
LEMMA HookOrder ==
  ASSUME UInv, Order, HookSends
  PROVE  Order'
<1> DEFINE m == Taken
           f == Len(fifo)
<1> SUFFICES ASSUME ~raced', ~refused'
             PROVE  /\ accepted' = (sent' + (Len(tx') + Len(fifo'))) % Numbers
                    /\ \A k \in 1 .. Len(tx') : tx'[k] = (sent' + (k - 1)) % Numbers
                    /\ \A k \in 1 .. Len(fifo') :
                         fifo'[k] = (sent' + (Len(tx') + k - 1)) % Numbers
  BY DEF Order
<1>1. m \in Nat /\ 1 <= m /\ m <= f /\ f \in Nat
  BY HookStep, SizesType DEF UInv, TypeOK
<1>2. tx' = SubSeq(fifo, 1, m) /\ Len(tx') = m /\ ~refused /\ Len(fifo') = f - m
  BY HookStep
<1>3. fifo' = SubSeq(fifo, m + 1, f)
  BY HookStep
<1>4. ~raced /\ UNCHANGED <<accepted, sent>> /\ sent \in Nat
  BY SizesType DEF HookSends, UInv, TypeOK
<1>5. Len(tx) = 0
  BY DEF HookSends, UInv, Control
<1>6. /\ accepted = (sent + (Len(tx) + f)) % Numbers
      /\ \A k \in 1 .. f : fifo[k] = (sent + (Len(tx) + k - 1)) % Numbers
  BY <1>2, <1>4 DEF Order
<1>7. fifo \in Seq(Byte)
  BY DEF UInv, TypeOK, Byte
<1>8. ASSUME NEW k \in 1 .. m PROVE tx'[k] = (sent + (k - 1)) % Numbers
  <2>1. SubSeq(fifo, 1, m)[k] = fifo[k] /\ k \in 1 .. f
    <3> HIDE DEF m
    <3> QED
      BY <1>1, <1>7, SubSeqProperties
  <2>2. Len(tx) + k - 1 = k - 1
    BY <1>5
  <2> QED
    BY <1>2, <1>6, <2>1, <2>2
<1>9. ASSUME NEW k \in 1 .. f - m PROVE fifo'[k] = (sent + (m + k - 1)) % Numbers
  <2> HIDE DEF m
  <2>1. SubSeq(fifo, m + 1, f)[k] = fifo[m + k] /\ m + k \in 1 .. f
    <3>1. \A i \in 1 .. f - (m + 1) + 1 : SubSeq(fifo, m + 1, f)[i] = fifo[m + 1 + i - 1]
      BY <1>1, <1>7, SubSeqProperties
    <3>2. k \in 1 .. f - (m + 1) + 1 /\ m + 1 + k - 1 = m + k
      BY <1>1
    <3>3. m + k \in 1 .. f
      BY <1>1
    <3> QED
      BY <3>1, <3>2, <3>3
  <2>2. Len(tx) + (m + k) - 1 = m + k - 1
    BY <1>1, <1>5
  <2> HIDE DEF f
  <2> QED
    BY <1>3, <1>6, <2>1, <2>2
<1>10. accepted = (sent + (Len(tx') + Len(fifo'))) % Numbers
  <2>1. Len(tx') + Len(fifo') = Len(tx) + f
    <3> HIDE DEF m
    <3> QED
      BY <1>1, <1>2, <1>5
  <2> QED
    BY <1>6, <2>1
<1> HIDE DEF m
<1> QED
  BY <1>2, <1>4, <1>8, <1>9, <1>10

\* Bytes leave in the order in which sends and the queue took them, none lost
\* and none twice, as long as no send falls into the hook's gap and no printing
\* task holds the UART.
THEOREM SentIsInOrder == Spec => []SentInOrder
<1>1. Init => Order
  <2> SUFFICES ASSUME Init PROVE Order
    OBVIOUS
  <2>1. Len(<<>>) = 0 /\ 0 + (0 + 0) = 0 /\ 0 \in 0 .. 2 * Numbers - 1 /\ 0 < Numbers
    BY SizesType
  <2>2. (0 + (0 + 0)) % Numbers = 0
    BY <2>1, WrapsOnce
  <2>3. 1 .. 0 = {}
    OBVIOUS
  <2> QED
    BY <2>1, <2>2, <2>3 DEF Init, Order
<1>2. UInv /\ Order /\ [Next]_vars => Order'
  <2> SUFFICES ASSUME UInv, Order, [Next]_vars PROVE Order'
    OBVIOUS
  <2>1. ASSUME NEW len \in 1 .. RecvSize, Echo(len) PROVE Order'
    BY <2>1, EchoOrder
  <2>2. CASE TransmitEnds
    BY <2>2, EndOrder
  <2>3. CASE HookReads \/ HookClears
    BY <2>3 DEF HookReads, HookClears, bytes, hist, Order
  <2>4. CASE HookSends
    BY <2>4, HookOrder
  <2>5. CASE PrintfSends
    BY <2>5 DEF PrintfSends, bytes, hist, Order
  <2>6. CASE UNCHANGED vars
    BY <2>6 DEF vars, bytes, hist, Order
  <2> QED
    BY <2>1, <2>2, <2>3, <2>4, <2>5, <2>6 DEF Next, Hook
<1>3. UInv /\ Order => SentInOrder
  BY OrderSuffices DEF UInv
<1> QED
  BY <1>1, <1>2, <1>3, InitUInv, StepUInv, PTL DEF Spec

-----------------------------------------------------------------------------
(***************************************************************************)
(* The refused transfer: where it comes from, and what it leads to.        *)
(***************************************************************************)

\* is_sending says that a transfer runs, and none does nor will end.
Stuck == is_sending /\ tx = <<>> /\ hook = "idle"

\* Until a refusal, the UART is busy only with the manager's own transfer or with a
\* task that prints.
BusyInv == refused \/ (gState = "BUSY_TX" => tx # <<>> \/ print = "sending")

\* No task is in HAL_UART_Transmit.
NobodyPrints == print = "idle"

\* A transfer is started only when the manager has none of its own.
LEMMA BusyNext ==
  UInv /\ BusyInv /\ [Next]_vars
  => BusyInv' /\ (refused' /\ ~refused => print = "sending")
<1> DEFINE Goal == BusyInv' /\ (refused' /\ ~refused => print = "sending")
<1> SUFFICES ASSUME UInv, BusyInv, [Next]_vars
             PROVE  Goal
  OBVIOUS
<1>0. TypeOK /\ Control
  BY DEF UInv
<1>1. CASE refused
  <2>1. refused'
    BY <1>1 DEF Next, Hook, Echo, TransmitEnds, HookReads, HookClears, HookSends, PrintfSends,
       Transmit_DMA, vars, hist
  <2> QED
    BY <1>1, <2>1 DEF BusyInv
<1> SUFFICES ASSUME ~refused
             PROVE  Goal
  BY <1>1
<1>2. gState = "BUSY_TX" => tx # <<>> \/ print = "sending"
  BY DEF BusyInv
<1>3. gState # "READY" /\ tx = <<>> => print = "sending"
  BY <1>0, <1>2 DEF TypeOK
<1>4. ASSUME NEW len \in 1 .. RecvSize, Echo(len) PROVE Goal
  <2>1. CASE is_sending
    <3>1. UNCHANGED <<tx, gState, refused, print>>
      BY <1>0, <1>4, <2>1, EchoStep DEF Echo
    <3> QED
      BY <1>2, <3>1 DEF BusyInv
  <2>2. CASE ~is_sending
    <3>1. tx = <<>>
      BY <1>0, <2>2 DEF Control
    <3>2. CASE refused'
      <4>1. gState # "READY"
        BY <1>4, <3>2 DEF Echo, Transmit_DMA
      <4> QED
        BY <1>3, <3>1, <3>2, <4>1 DEF BusyInv
    <3>3. CASE ~refused'
      <4>1. Len(tx') > 0
        BY <1>0, <1>4, <2>2, <3>3, EchoStep
      <4>2. tx' # <<>>
        BY <4>1
      <4> QED
        BY <3>3, <4>2 DEF BusyInv
    <3> QED
      BY <3>2, <3>3
  <2> QED
    BY <2>1, <2>2
<1>5. CASE TransmitEnds
  BY <1>5 DEF TransmitEnds, hist, BusyInv
<1>6. CASE HookReads \/ HookClears
  BY <1>2, <1>6 DEF HookReads, HookClears, bytes, hist, BusyInv
<1>7. CASE HookSends
  <2>1. tx = <<>>
    BY <1>0, <1>7 DEF HookSends, Control
  <2>2. CASE refused'
    <3>1. gState # "READY"
      BY <1>7, <2>2 DEF HookSends, Transmit_DMA
    <3> QED
      BY <1>3, <2>1, <2>2, <3>1 DEF BusyInv
  <2>3. CASE ~refused'
    <3>1. Taken \in 1 .. SendSize /\ Len(tx') = Taken
      BY <1>0, <1>7, <2>3, HookStep
    <3>2. tx' # <<>>
      <4> HIDE DEF Taken
      <4> QED
        BY <3>1
    <3> QED
      BY <2>3, <3>2 DEF BusyInv
  <2> QED
    BY <2>2, <2>3
<1>8. CASE PrintfSends
  BY <1>2, <1>8 DEF PrintfSends, bytes, hist, BusyInv
<1>9. CASE UNCHANGED vars
  BY <1>2, <1>9 DEF vars, bytes, hist, BusyInv
<1> QED
  BY <1>4, <1>5, <1>6, <1>7, <1>8, <1>9 DEF Next, Hook

\* Only a task inside HAL_UART_Transmit makes HAL_UART_Transmit_DMA refuse the
\* manager: its own interrupts never do, whichever preempts the other.
THEOREM RefusalNeedsPrinting == Spec => RefusedWhilePrinting
<1>1. Init => BusyInv
  BY DEF Init, BusyInv
<1> QED
  BY <1>1, BusyNext, InitUInv, StepUInv, PTL DEF Spec, RefusedWhilePrinting

\* So with no task printing on the UART the sender, which does not look at the
\* answer of HAL_UART_Transmit_DMA, misses nothing and never gets stuck.
THEOREM OnlyPrintingRefuses ==
  Spec /\ []NobodyPrints => [](~refused /\ ~Stuck)
<1>1. Init => ~refused
  BY DEF Init
<1>2. ~refused /\ NobodyPrints /\ [refused' /\ ~refused => print = "sending"]_vars => ~refused'
  BY DEF NobodyPrints, vars, hist
<1>3. UInv /\ ~refused => ~Stuck
  BY DEF UInv, Control, Stuck
<1> QED
  BY <1>1, <1>2, <1>3, InitUInv, StepUInv, RefusalNeedsPrinting, PTL
  DEF Spec, RefusedWhilePrinting

\* With no task printing on the UART, an answer of 0 is always true: no send has
\* ever answered 0 for a byte that was neither in the transfer nor in the queue.
THEOREM ZeroIsTrueUnlessPrinting ==
  Spec /\ []NobodyPrints => []~silent
<1>1. (silent => refused) /\ ~refused => ~silent
  OBVIOUS
<1> QED
  BY <1>1, ZeroAnswersAreTrue, OnlyPrintingRefuses, PTL DEF ZeroMeansAll

\* What a refused transfer leads to is for good: every later send finds is_sending
\* and only queues, until the queue is full, and the interrupt that would take
\* from the queue does not come.
THEOREM StuckForEver ==
  Spec => [](Stuck => []Stuck) /\ [][Stuck => UNCHANGED <<tx, sent>>]_vars
<1>1. UInv /\ Stuck /\ [Next]_vars => Stuck' /\ UNCHANGED <<tx, sent>>
  <2> SUFFICES ASSUME UInv, Stuck, [Next]_vars
               PROVE  Stuck' /\ UNCHANGED <<tx, sent>>
    OBVIOUS
  <2>1. ASSUME NEW len \in 1 .. RecvSize, Echo(len)
        PROVE  Stuck' /\ UNCHANGED <<tx, sent>>
    <3>1. UNCHANGED <<is_sending, tx>>
      BY <2>1, EchoStep DEF UInv, Stuck
    <3> QED
      BY <2>1, <3>1 DEF Echo, Stuck
  <2>2. ~(TransmitEnds \/ Hook)
    BY DEF TransmitEnds, Hook, HookReads, HookClears, HookSends, Stuck
  <2>3. CASE PrintfSends \/ UNCHANGED vars
    BY <2>3 DEF PrintfSends, vars, bytes, hist, Stuck
  <2> QED
    BY <2>1, <2>2, <2>3 DEF Next
<1>2. UInv /\ [Next]_vars => [Stuck => UNCHANGED <<tx, sent>>]_vars
  BY <1>1
<1> QED
  BY <1>1, <1>2, InitUInv, StepUInv, PTL DEF Spec
=============================================================================
