------------------------------ MODULE UartSend ------------------------------
(***************************************************************************)
(* The transmit side of Com/uart_manage on the "echo" interface: the       *)
(* receive event sends back what came (uart_manage_dma_send_impl), and the *)
(* transmit-complete interrupt sends on what was queued meanwhile          *)
(* (uart_manage_send_completed_hook).  printf uses the same UART.          *)
(*                                                                         *)
(* The interrupt of a full receive buffer (DMA, priority 0) preempts the   *)
(* hook (UART, priority 5), the one of an idle line does not, and both     *)
(* preempt tasks.  fifo_s_puts and fifo_s_gets run with interrupts off.    *)
(*                                                                         *)
(* Bytes are numbered modulo Numbers in the order they are accepted.       *)
(***************************************************************************)
EXTENDS Naturals, Sequences

CONSTANTS
  RecvSize,  \* recv_buffer_size
  SendSize,  \* send_buffer_size
  FifoSize,  \* send_fifo_size
  PutMod,    \* 2^8: put_len is a uint8_t
  Numbers    \* bound on the numbers of bytes

ASSUME UartAssumption ==
  /\ RecvSize \in Nat \ {0} /\ SendSize \in Nat \ {0} /\ FifoSize \in Nat \ {0}
  /\ PutMod \in Nat \ {0}
  /\ Numbers \in Nat /\ Numbers > SendSize + FifoSize
  /\ RecvSize <= FifoSize

VARIABLES
  is_sending, fifo,
  tx,        \* the bytes of send_buffer the DMA is sending
  gState,    \* huart->gState: "READY" or "BUSY_TX"
  hook,      \* the transmit-complete interrupt: "idle", "test", "empty", "some"
  fifo_data_num,
  print,     \* HAL_UART_Transmit in a task: "idle", "tested", "sending"
  accepted, sent,  \* number of the next byte accepted, sent
  silent,    \* history: a send has answered 0 with bytes neither being sent nor queued
  raced,     \* history: bytes were queued after the hook had found the queue empty
  refused    \* history: HAL_UART_Transmit_DMA was refused, which nothing looks at

bytes == <<fifo, tx, accepted, sent>>
hist == <<silent, raced, refused>>
vars == <<is_sending, bytes, gState, hook, fifo_data_num, print, hist>>

SmallerOf(a, b) == IF a < b THEN a ELSE b
Number(first, m) == [k \in 1 .. m |-> (first + k - 1) % Numbers]

\* HAL_UART_Transmit_DMA.
Transmit_DMA(s) ==
  IF gState = "READY"
  THEN tx' = s /\ gState' = "BUSY_TX" /\ UNCHANGED refused
  ELSE refused' = TRUE /\ UNCHANGED <<tx, gState>>

\* to_send_len and to_tx_fifo_len.
Direct(len) == IF is_sending THEN 0 ELSE SmallerOf(len, SendSize)
Rest(len) ==
  IF is_sending THEN SmallerOf(len, FifoSize)
  ELSE IF len < SendSize THEN 0 ELSE SmallerOf(len - SendSize, FifoSize)

\* What HAL_UART_Transmit_DMA takes of the direct bytes.
DirectTaken(len) == IF gState = "READY" THEN Direct(len) ELSE 0

\* fifo_s_puts.
\* Variant: as if there were always room.
PutsAll(m) == m
Puts(m) == SmallerOf(m, FifoSize - Len(fifo))

\* Variant: the answer of fifo_s_puts is not looked at.
AnswersOkAlways(m) == TRUE
AnswersOk(m) == m = 0 \/ Puts(m) % PutMod = m

\* uart_manage_dma_send_impl, called by echo_callback in the receive event.
Echo(len) ==
  LET direct == Direct(len)
      rest   == Rest(len)
      next   == (accepted + direct) % Numbers
  IN  /\ hook = "idle" \/ len = RecvSize
      /\ IF direct > 0
         THEN is_sending' = TRUE /\ Transmit_DMA(Number(accepted, direct))
         ELSE UNCHANGED <<is_sending, tx, gState, refused>>
      /\ fifo' = fifo \o Number(next, Puts(rest))
      /\ accepted' = (next + Puts(rest)) % Numbers
      /\ silent' = (silent \/ (AnswersOk(rest) /\ DirectTaken(len) + Puts(rest) < len))
      /\ raced' = (raced \/ (hook = "empty" /\ Puts(rest) > 0))
      /\ UNCHANGED <<sent, hook, fifo_data_num, print>>

\* Variant: the hook runs before the UART is ready.
TransmitEndsBusy ==
  /\ tx # <<>>
  /\ hook = "idle"
  /\ sent' = (sent + Len(tx)) % Numbers
  /\ tx' = <<>>
  /\ hook' = "test"
  /\ UNCHANGED <<is_sending, gState, fifo, accepted, fifo_data_num, print, hist>>
\* The transfer is complete: UART_EndTransmit_IT, then the hook.
TransmitEnds ==
  /\ tx # <<>>
  /\ hook = "idle"
  /\ sent' = (sent + Len(tx)) % Numbers
  /\ tx' = <<>>
  /\ gState' = "READY"
  /\ hook' = "test"
  /\ UNCHANGED <<is_sending, fifo, accepted, fifo_data_num, print, hist>>

HookReads ==
  /\ hook = "test"
  /\ fifo_data_num' = Len(fifo)
  /\ hook' = IF fifo_data_num' = 0 THEN "empty" ELSE "some"
  /\ UNCHANGED <<is_sending, bytes, gState, print, hist>>

\* Variant: is_sending stays.
HookStaysSending ==
  /\ hook = "empty"
  /\ hook' = "idle"
  /\ UNCHANGED <<is_sending, bytes, gState, fifo_data_num, print, hist>>
HookClears ==
  /\ hook = "empty"
  /\ is_sending' = FALSE
  /\ hook' = "idle"
  /\ UNCHANGED <<bytes, gState, fifo_data_num, print, hist>>

\* Variant: one byte too many leaves the queue.
HookDropsOne ==
  /\ hook = "some"
  /\ LET m == SmallerOf(SmallerOf(fifo_data_num, SendSize), Len(fifo))
     IN  /\ Transmit_DMA(SubSeq(fifo, 1, m))
         /\ fifo' = SubSeq(fifo, m + 2, Len(fifo))
  /\ is_sending' = TRUE
  /\ hook' = "idle"
  /\ UNCHANGED <<accepted, sent, fifo_data_num, print, silent, raced>>
\* Variant: the newest bytes leave the queue.
HookSendsNewest ==
  /\ hook = "some"
  /\ LET m == SmallerOf(SmallerOf(fifo_data_num, SendSize), Len(fifo))
     IN  /\ Transmit_DMA(SubSeq(fifo, Len(fifo) - m + 1, Len(fifo)))
         /\ fifo' = SubSeq(fifo, 1, Len(fifo) - m)
  /\ is_sending' = TRUE
  /\ hook' = "idle"
  /\ UNCHANGED <<accepted, sent, fifo_data_num, print, silent, raced>>
HookSends ==
  /\ hook = "some"
  /\ LET m == SmallerOf(SmallerOf(fifo_data_num, SendSize), Len(fifo))
     IN  /\ Transmit_DMA(SubSeq(fifo, 1, m))
         /\ fifo' = SubSeq(fifo, m + 1, Len(fifo))
  /\ is_sending' = TRUE
  /\ hook' = "idle"
  /\ UNCHANGED <<accepted, sent, fifo_data_num, print, silent, raced>>

\* HAL_UART_Transmit tests gState and sets it, and sets it back in the end.
PrintfSends ==
  /\ hook = "idle"
  /\ \/ print = "idle" /\ gState = "READY" /\ print' = "tested" /\ UNCHANGED gState
     \/ print = "tested" /\ gState' = "BUSY_TX" /\ print' = "sending"
     \/ print = "sending" /\ gState' = "READY" /\ print' = "idle"
  /\ UNCHANGED <<is_sending, bytes, hook, fifo_data_num, hist>>

Init ==
  /\ is_sending = FALSE /\ fifo = <<>> /\ tx = <<>> /\ gState = "READY"
  /\ hook = "idle" /\ fifo_data_num = 0 /\ print = "idle"
  /\ accepted = 0 /\ sent = 0
  /\ silent = FALSE /\ raced = FALSE /\ refused = FALSE

Hook == HookReads \/ HookClears \/ HookSends

Next ==
  \/ \E len \in 1 .. RecvSize : Echo(len)
  \/ TransmitEnds \/ Hook \/ PrintfSends

\* The DMA and the interrupts go on.
Fairness == WF_vars(TransmitEnds) /\ WF_vars(Hook)

Spec == Init /\ [][Next]_vars /\ Fairness

-----------------------------------------------------------------------------

\* Every variable has its type, and the queue does not outgrow its buffer.
TypeOK ==
  /\ is_sending \in BOOLEAN /\ silent \in BOOLEAN /\ raced \in BOOLEAN /\ refused \in BOOLEAN
  /\ fifo \in Seq(0 .. Numbers - 1) /\ Len(fifo) <= FifoSize
  /\ tx \in Seq(0 .. Numbers - 1) /\ Len(tx) <= SendSize
  /\ gState \in {"READY", "BUSY_TX"}
  /\ hook \in {"idle", "test", "empty", "some"}
  /\ fifo_data_num \in 0 .. FifoSize
  /\ print \in {"idle", "tested", "sending"}
  /\ accepted \in 0 .. Numbers - 1 /\ sent \in 0 .. Numbers - 1

\* Bytes are sent in the order they were accepted, none lost and none twice:
\* what is being sent and what is queued are the accepted bytes not sent yet.
\* It ends with a send in the hook's gap between its look at the queue and its
\* clearing of is_sending, or with one while a task prints.
SentInOrder ==
  ~raced /\ ~refused =>
    /\ tx \o fifo = Number(sent, Len(tx) + Len(fifo))
    /\ accepted = (sent + Len(tx) + Len(fifo)) % Numbers

\* Bytes in the queue have a transfer or a hook to come that takes them, and
\* send_buffer is written only when no transfer reads it, under the same
\* conditions.
NoneStranded ==
  ~raced /\ ~refused =>
    /\ is_sending <=> tx # <<>> \/ hook # "idle"
    /\ fifo # <<>> => is_sending /\ hook # "empty"

\* A send answers 0 only if each of its bytes is being sent or queued, until a
\* transfer has been refused: uart_manage.c:307 does not look at the answer of
\* HAL_UART_Transmit_DMA, so the send whose transfer is refused answers 0 for
\* bytes that are lost.
ZeroMeansAll == silent => refused

Queued(b) == \E k \in 1 .. Len(fifo) : fifo[k] = b

\* Every queued byte is sent, unless a send has fallen in the hook's gap or a
\* transfer has been refused.
Drains == \A b \in 0 .. Numbers - 1 : Queued(b) ~> (raced \/ refused \/ ~Queued(b))

\* Bytes left in the hook's gap are sent too, in the end, as long as sends go on
\* and no transfer is refused: however often the receive event preempts the hook,
\* the next send starts a transfer whose hook finds them.
Sends == \E len \in 1 .. RecvSize : Echo(len)
GapHeals ==
  []~refused /\ []<><<Sends>>_vars =>
    \A b \in 0 .. Numbers - 1 : Queued(b) ~> ~Queued(b)

\* The result that uart_manage.c:307 and 358 ignore is a refusal only while a task is
\* inside HAL_UART_Transmit: the receive event and the hook, whichever preempts
\* the other, never find each other's transfer in the way.
RefusedWhilePrinting == [][refused' /\ ~refused => print = "sending"]_vars
=============================================================================
