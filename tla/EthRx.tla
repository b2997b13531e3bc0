------------------------------- MODULE EthRx -------------------------------
(***************************************************************************)
(* Receiving through the Ethernet interface: the receive ring of the HAL   *)
(* driver (HAL_ETH_ReadData, ETH_UpdateDescriptor), the pool of zero-copy  *)
(* buffers and the flag of its exhaustion in LWIP/Target/ethernetif.c, and *)
(* HAL_ETH_Stop_IT and HAL_ETH_Start_IT as the link thread calls them.     *)
(*                                                                         *)
(* The tasks are scheduled by priority: EthIf is above the tasks that free *)
(* buffers, and those are above the link thread.  A frame fits one buffer. *)
(* The DMA fills the descriptors it owns in ring order, suspends at one it *)
(* does not own until the tail pointer is written, and keeps its position  *)
(* when it is stopped.                                                     *)
(***************************************************************************)
EXTENDS DescriptorRing, FiniteSets

CONSTANTS
  Bufs,    \* the buffers of RX_POOL
  NoBuf,   \* no buffer
  Freers   \* tasks that free received pbufs

ASSUME RxAssumption ==
  /\ IsFiniteSet(Bufs)
  /\ Cardinality(Bufs) >= N
  /\ NoBuf \notin Bufs
  /\ {"EthIf", "EthLink"} \cap Freers = {}

Tasks == {"EthIf", "EthLink"} \cup Freers

VARIABLES
  \* heth.RxDescList and the descriptors.
  own, BackupAddr0, RxDescIdx, RxBuildDescIdx, RxBuildDescCnt,
  pool,            \* buffers free in RX_POOL
  held,            \* buffers lwIP and the application hold
  got,             \* the buffer HAL_ETH_ReadData has taken from the ring
  RxAllocStatus,   \* "OK" or "ERROR"
  built,           \* ETH_UpdateDescriptor has built a descriptor
  RxPktSemaphore,  \* it has its token
  gState,          \* "READY", "BUSY" or "STARTED"
  dma,             \* the descriptor the DMA comes to next
  suspended,       \* the DMA has found a descriptor it does not own
  irq,             \* a receive or buffer-unavailable interrupt is pending
  pc,              \* where each task is
  skew,            \* history: the MAC was started with frames not read or
                   \* descriptors not refilled
  lostWake         \* history: the flag was set after buffers had come back

ring == <<own, BackupAddr0, RxDescIdx, RxBuildDescIdx, RxBuildDescCnt, built>>
bufs == <<pool, held, got>>
hw   == <<dma, suspended, irq>>
hist == <<skew, lostWake>>
vars == <<ring, bufs, RxAllocStatus, RxPktSemaphore, gState, hw, pc, hist>>

Goes(t, from, to) == pc[t] = from /\ pc' = [pc EXCEPT ![t] = to]

\* A task runs while those above it wait.
Asleep == pc["EthIf"] = "wait" /\ ~RxPktSemaphore
\* Variant: the tasks interleave freely.
MayRunAlways(t) == TRUE
MayRun(t) ==
  /\ t \in Freers => Asleep
  /\ t = "EthLink" => Asleep /\ \A f \in Freers : pc[f] = "idle"

(***************************************************************************)
(* ethernetif_input, low_level_input and HAL_ETH_ReadData.                 *)
(***************************************************************************)

Wake ==
  /\ RxPktSemaphore
  /\ Goes("EthIf", "wait", "input")
  /\ RxPktSemaphore' = FALSE
  /\ UNCHANGED <<ring, bufs, RxAllocStatus, gState, hw, hist>>

MayRead == RxAllocStatus = "OK" /\ gState = "STARTED"
FrameReady == ~own[RxDescIdx] /\ RxBuildDescCnt < N

\* low_level_input returns NULL at once.
InputRefused ==
  /\ ~MayRead
  /\ Goes("EthIf", "input", "wait")
  /\ UNCHANGED <<ring, bufs, RxAllocStatus, RxPktSemaphore, gState, hw, hist>>

\* Variant: the pointer to the buffer stays in the descriptor.
ReadKeepsPointer ==
  /\ MayRead /\ FrameReady
  /\ BackupAddr0[RxDescIdx] # NoBuf
  /\ Goes("EthIf", "input", "loop")
  /\ got' = BackupAddr0[RxDescIdx]
  /\ RxDescIdx' = Next_(RxDescIdx)
  /\ RxBuildDescCnt' = RxBuildDescCnt + 1
  /\ UNCHANGED <<own, BackupAddr0, RxBuildDescIdx, built, pool, held, RxAllocStatus,
                 RxPktSemaphore, gState, hw, hist>>
ReadFrame ==
  /\ MayRead /\ FrameReady
  /\ BackupAddr0[RxDescIdx] # NoBuf
  /\ Goes("EthIf", "input", "loop")
  /\ got' = BackupAddr0[RxDescIdx]
  /\ BackupAddr0' = [BackupAddr0 EXCEPT ![RxDescIdx] = NoBuf]
  /\ RxDescIdx' = Next_(RxDescIdx)
  /\ RxBuildDescCnt' = RxBuildDescCnt + 1
  /\ UNCHANGED <<own, RxBuildDescIdx, built, pool, held, RxAllocStatus,
                 RxPktSemaphore, gState, hw, hist>>

\* A descriptor read before and not refilled still says that it has a frame:
\* HAL_ETH_RxLinkCallback writes to an address below NULL.
ReadNull ==
  /\ MayRead /\ FrameReady
  /\ BackupAddr0[RxDescIdx] = NoBuf
  /\ Goes("EthIf", "input", "fault")
  /\ UNCHANGED <<ring, bufs, RxAllocStatus, RxPktSemaphore, gState, hw, hist>>

HardFault_Handler == pc["EthIf"] = "fault" /\ UNCHANGED vars

ReadNothing ==
  /\ MayRead /\ ~FrameReady
  /\ Goes("EthIf", "input", IF RxBuildDescCnt = 0 THEN "wait" ELSE "loop")
  /\ UNCHANGED <<ring, bufs, RxAllocStatus, RxPktSemaphore, gState, hw, hist>>

\* Variant: one frame for each signal.
DeliverOne ==
  /\ got # NoBuf
  /\ Goes("EthIf", "deliver", "wait")
  /\ held' = held \cup {got}
  /\ got' = NoBuf
  /\ UNCHANGED <<ring, pool, RxAllocStatus, RxPktSemaphore, gState, hw, hist>>
\* netif->input, tcpip_input: the mailbox takes the pbuf.
Deliver ==
  /\ got # NoBuf
  /\ Goes("EthIf", "deliver", "input")
  /\ held' = held \cup {got}
  /\ got' = NoBuf
  /\ UNCHANGED <<ring, pool, RxAllocStatus, RxPktSemaphore, gState, hw, hist>>

\* The mailbox or its message pool is full: pbuf_free, here.
DeliverFails ==
  /\ got # NoBuf
  /\ Goes("EthIf", "deliver", "input")
  /\ pool' = pool \cup {got}
  /\ got' = NoBuf
  /\ RxAllocStatus' = "OK"
  /\ RxPktSemaphore' = (RxPktSemaphore \/ RxAllocStatus = "ERROR")
  /\ UNCHANGED <<ring, held, gState, hw, hist>>

DeliverNothing ==
  /\ got = NoBuf
  /\ Goes("EthIf", "deliver", "wait")
  /\ UNCHANGED <<ring, bufs, RxAllocStatus, RxPktSemaphore, gState, hw, hist>>

(***************************************************************************)
(* ETH_UpdateDescriptor, called by EthIf in HAL_ETH_ReadData and by the    *)
(* link thread in HAL_ETH_Start_IT.                                        *)
(***************************************************************************)

\* Variant: RxBuildDescIdx stays.
HandOverStays ==
  /\ own' = [own EXCEPT ![RxBuildDescIdx] = TRUE]
  /\ RxBuildDescIdx' = RxBuildDescIdx
  /\ RxBuildDescCnt' = RxBuildDescCnt - 1
  /\ built' = TRUE
HandOver ==
  /\ own' = [own EXCEPT ![RxBuildDescIdx] = TRUE]
  /\ RxBuildDescIdx' = Next_(RxBuildDescIdx)
  /\ RxBuildDescCnt' = RxBuildDescCnt - 1
  /\ built' = TRUE

Rebuild(t) ==
  /\ MayRun(t)
  /\ RxBuildDescCnt > 0
  /\ BackupAddr0[RxBuildDescIdx] # NoBuf
  /\ Goes(t, "loop", "loop")
  /\ HandOver
  /\ UNCHANGED <<BackupAddr0, RxDescIdx, bufs, RxAllocStatus, RxPktSemaphore, gState,
                 hw, hist>>

\* HAL_ETH_RxAllocateCallback takes a buffer.
Allocate(t) ==
  /\ MayRun(t)
  /\ RxBuildDescCnt > 0
  /\ BackupAddr0[RxBuildDescIdx] = NoBuf
  /\ Goes(t, "loop", "loop")
  /\ \E b \in pool :
       /\ pool' = pool \ {b}
       /\ BackupAddr0' = [BackupAddr0 EXCEPT ![RxBuildDescIdx] = b]
  /\ HandOver
  /\ UNCHANGED <<RxDescIdx, held, got, RxAllocStatus, RxPktSemaphore, gState, hw, hist>>

AllocateFails(t) ==
  /\ MayRun(t)
  /\ RxBuildDescCnt > 0
  /\ BackupAddr0[RxBuildDescIdx] = NoBuf
  /\ pool = {}
  /\ Goes(t, "loop", "failed")
  /\ UNCHANGED <<ring, bufs, RxAllocStatus, RxPktSemaphore, gState, hw, hist>>

\* Variant: the callback does not set the flag.
MarkForgotten(t) ==
  /\ MayRun(t)
  /\ Goes(t, "failed", "tail")
  /\ lostWake' = (lostWake \/ (t = "EthLink" /\ pool # {}))
  /\ UNCHANGED <<ring, bufs, RxAllocStatus, RxPktSemaphore, gState, hw, skew>>
Mark(t) ==
  /\ MayRun(t)
  /\ Goes(t, "failed", "tail")
  /\ RxAllocStatus' = "ERROR"
  /\ lostWake' = (lostWake \/ (t = "EthLink" /\ pool # {}))
  /\ UNCHANGED <<ring, bufs, RxPktSemaphore, gState, hw, skew>>

LoopEnds(t) ==
  /\ MayRun(t)
  /\ RxBuildDescCnt = 0
  /\ Goes(t, "loop", "tail")
  /\ UNCHANGED <<ring, bufs, RxAllocStatus, RxPktSemaphore, gState, hw, hist>>

Update(t) == Rebuild(t) \/ Allocate(t) \/ AllocateFails(t) \/ Mark(t) \/ LoopEnds(t)

\* The tail pointer is written if a descriptor was built: a suspended DMA looks
\* at its descriptor again.
TailWritten ==
  /\ Goes("EthIf", "tail", "deliver")
  /\ suspended' = (suspended /\ ~built)
  /\ built' = FALSE
  /\ UNCHANGED <<own, BackupAddr0, RxDescIdx, RxBuildDescIdx, RxBuildDescCnt, bufs,
                 RxAllocStatus, RxPktSemaphore, gState, dma, irq, hist>>

EthIf ==
  \/ Wake \/ InputRefused \/ ReadFrame \/ ReadNull \/ ReadNothing
  \/ Update("EthIf") \/ TailWritten
  \/ Deliver \/ DeliverFails \/ DeliverNothing

(***************************************************************************)
(* The DMA and its interrupts, which RIE, AIE and RBUE enable while the    *)
(* MAC runs.                                                               *)
(***************************************************************************)

DmaReceives ==
  /\ gState = "STARTED"
  /\ ~suspended
  /\ own[dma]
  /\ own' = [own EXCEPT ![dma] = FALSE]
  /\ dma' = Next_(dma)
  /\ irq' = TRUE
  /\ UNCHANGED <<BackupAddr0, RxDescIdx, RxBuildDescIdx, RxBuildDescCnt, built, bufs,
                 RxAllocStatus, RxPktSemaphore, gState, suspended, pc, hist>>

DmaSuspends ==
  /\ gState = "STARTED"
  /\ ~suspended
  /\ ~own[dma]
  /\ suspended' = TRUE
  /\ irq' = TRUE
  /\ UNCHANGED <<ring, bufs, RxAllocStatus, RxPktSemaphore, gState, dma, pc, hist>>

\* HAL_ETH_RxCpltCallback, and HAL_ETH_ErrorCallback for RBU.
Interrupt ==
  /\ irq
  /\ gState = "STARTED"
  /\ pc["EthIf"] # "fault"
  /\ irq' = FALSE
  /\ RxPktSemaphore' = TRUE
  /\ UNCHANGED <<ring, bufs, RxAllocStatus, gState, dma, suspended, pc, hist>>

(***************************************************************************)
(* pbuf_free_custom, in any task that frees a received pbuf.               *)
(***************************************************************************)

\* LWIP_MEMPOOL_FREE.  EthIf, about to allocate, waits for the pool's mutex
\* while a task that holds it puts its buffer back.
FreeBuffer(f, b) ==
  /\ MayRun(f) \/ pc["EthIf"] = "loop"
  /\ b \in held
  /\ Goes(f, "idle", "test")
  /\ held' = held \ {b}
  /\ pool' = pool \cup {b}
  /\ UNCHANGED <<ring, got, RxAllocStatus, RxPktSemaphore, gState, hw, hist>>

TestFlag(f) ==
  /\ MayRun(f)
  /\ Goes(f, "test", IF RxAllocStatus = "ERROR" THEN "clear" ELSE "idle")
  /\ UNCHANGED <<ring, bufs, RxAllocStatus, RxPktSemaphore, gState, hw, hist>>

ClearFlag(f) ==
  /\ MayRun(f)
  /\ Goes(f, "clear", "release")
  /\ RxAllocStatus' = "OK"
  /\ UNCHANGED <<ring, bufs, RxPktSemaphore, gState, hw, hist>>

Signal(f) ==
  /\ MayRun(f)
  /\ Goes(f, "release", "idle")
  /\ RxPktSemaphore' = TRUE
  /\ UNCHANGED <<ring, bufs, RxAllocStatus, gState, hw, hist>>

Freer(f) == (\E b \in Bufs : FreeBuffer(f, b)) \/ TestFlag(f) \/ ClearFlag(f) \/ Signal(f)

(***************************************************************************)
(* The link thread stops the MAC and starts it again.                      *)
(***************************************************************************)

HAL_ETH_Stop_IT ==
  /\ MayRun("EthLink")
  /\ gState = "STARTED"
  /\ gState' = "READY"
  /\ UNCHANGED <<ring, bufs, RxAllocStatus, RxPktSemaphore, hw, pc, hist>>

Unread == {i \in Desc : ~own[i] /\ BackupAddr0[i] # NoBuf}

\* Variant: all descriptors are added to those to build.
StartAddsAll ==
  /\ MayRun("EthLink")
  /\ gState = "READY"
  /\ Goes("EthLink", "idle", "loop")
  /\ gState' = "BUSY"
  /\ RxBuildDescCnt' = RxBuildDescCnt + N
  /\ skew' = (skew \/ RxBuildDescCnt # 0 \/ Unread # {})
  /\ UNCHANGED <<own, BackupAddr0, RxDescIdx, RxBuildDescIdx, built, bufs, RxAllocStatus,
                 RxPktSemaphore, hw, lostWake>>
\* The number of descriptors to build is set to all; the indices stay.
StartBegins ==
  /\ MayRun("EthLink")
  /\ gState = "READY"
  /\ Goes("EthLink", "idle", "loop")
  /\ gState' = "BUSY"
  /\ RxBuildDescCnt' = N
  /\ skew' = (skew \/ RxBuildDescCnt # 0 \/ Unread # {})
  /\ UNCHANGED <<own, BackupAddr0, RxDescIdx, RxBuildDescIdx, built, bufs, RxAllocStatus,
                 RxPktSemaphore, hw, lostWake>>

\* The DMA is enabled: it looks at its descriptor.
StartEnds ==
  /\ MayRun("EthLink")
  /\ Goes("EthLink", "tail", "idle")
  /\ gState' = "STARTED"
  /\ suspended' = FALSE
  /\ built' = FALSE
  /\ UNCHANGED <<own, BackupAddr0, RxDescIdx, RxBuildDescIdx, RxBuildDescCnt, bufs,
                 RxAllocStatus, RxPktSemaphore, dma, irq, hist>>

Starting == Update("EthLink") \/ StartEnds

\* After the creation of the EthIf task in low_level_init.
Init ==
  /\ own = [i \in Desc |-> FALSE]
  /\ BackupAddr0 = [i \in Desc |-> NoBuf]
  /\ RxDescIdx = 0 /\ RxBuildDescIdx = 0 /\ RxBuildDescCnt = 0 /\ built = FALSE
  /\ pool = Bufs /\ held = {} /\ got = NoBuf
  /\ RxAllocStatus = "OK" /\ RxPktSemaphore = FALSE
  /\ gState = "READY"
  /\ dma = 0 /\ suspended = FALSE /\ irq = FALSE
  /\ pc = [t \in Tasks |-> IF t = "EthIf" THEN "wait" ELSE "idle"]
  /\ skew = FALSE /\ lostWake = FALSE

Next ==
  \/ EthIf \/ HardFault_Handler
  \/ DmaReceives \/ DmaSuspends \/ Interrupt
  \/ \E f \in Freers : Freer(f)
  \/ HAL_ETH_Stop_IT \/ StartBegins \/ Starting

\* EthIf runs when it may, interrupts are served, the DMA looks at its
\* descriptors, and lwIP and the application go on freeing what they hold.
Fairness ==
  /\ WF_vars(EthIf)
  /\ WF_vars(DmaSuspends)
  /\ WF_vars(Interrupt)
  /\ WF_vars(\E f \in Freers : Freer(f))

Spec == Init /\ [][Next]_vars /\ Fairness

-----------------------------------------------------------------------------

\* Every variable has its type.
TypeOK ==
  /\ own \in [Desc -> BOOLEAN]
  /\ BackupAddr0 \in [Desc -> Bufs \cup {NoBuf}]
  /\ RxDescIdx \in Desc /\ RxBuildDescIdx \in Desc /\ dma \in Desc
  /\ RxBuildDescCnt \in 0 .. N
  /\ built \in BOOLEAN
  /\ pool \subseteq Bufs /\ held \subseteq Bufs /\ got \in Bufs \cup {NoBuf}
  /\ RxAllocStatus \in {"OK", "ERROR"} /\ RxPktSemaphore \in BOOLEAN
  /\ gState \in {"READY", "BUSY", "STARTED"}
  /\ suspended \in BOOLEAN /\ irq \in BOOLEAN
  /\ pc \in [Tasks -> {"wait", "input", "loop", "failed", "tail", "deliver",
                       "fault", "idle", "test", "clear", "release"}]
  /\ skew \in BOOLEAN /\ lostWake \in BOOLEAN

InRing == {BackupAddr0[i] : i \in Desc} \ {NoBuf}

\* Each buffer is in one place: in the pool, attached to one descriptor, in the
\* hands of EthIf or of lwIP.  None is lost when an allocation or a delivery
\* fails or the MAC is restarted, and none the DMA may write to is given to lwIP
\* or to the pool (HAL_ETH_ReadData, ETH_UpdateDescriptor, pbuf_free_custom).
BuffersOnce ==
  /\ pool \cup held \cup InRing \cup ({got} \ {NoBuf}) = Bufs
  /\ pool \cap held = {} /\ pool \cap InRing = {} /\ held \cap InRing = {}
  /\ got \notin pool \cup held \cup InRing
  /\ \A i, j \in Desc : BackupAddr0[i] = BackupAddr0[j] /\ BackupAddr0[i] # NoBuf => i = j
  /\ \A i \in Desc : own[i] => BackupAddr0[i] # NoBuf

\* EthIf reads no descriptor twice, which would be a hard fault, unless the MAC
\* has been started with descriptors that were not refilled.
NoFault == pc["EthIf"] = "fault" => skew

\* Frames are read in the order they came: from RxDescIdx on, the descriptors
\* are first those with a frame not read, up to where the DMA is, then those it
\* owns, then those read and not refilled, which end before RxDescIdx.  A start
\* of the MAC with frames not read or descriptors not refilled ends this: it
\* refills all and resets neither RxDescIdx nor the DMA's place.
InOrder ==
  ~skew /\ gState = "STARTED" =>
    /\ At(RxBuildDescIdx, RxBuildDescCnt % N) = RxDescIdx
    /\ \E u \in 0 .. N - RxBuildDescCnt :
         /\ dma = At(RxDescIdx, u % N)
         /\ \A k \in 0 .. N - 1 :
              LET i == At(RxDescIdx, k)
              IN  /\ i \in Unread <=> k < u
                  /\ own[i] <=> u <= k /\ k < N - RxBuildDescCnt

\* A pool found empty is refilled with a signal: while the flag says ERROR, a
\* buffer is still out or a task that has freed one has yet to look at the flag.
\* The link thread breaks this: a task above it may free the last buffers
\* between its failed allocation and its setting of the flag.
ExhaustionSignalled ==
  RxAllocStatus = "ERROR" /\ ~lostWake =>
    \/ held # {} \/ got # NoBuf
    \/ \E f \in Freers : pc[f] \in {"test", "clear"}

Starved == gState = "STARTED" /\ \A i \in Desc : ~own[i]

\* A ring that has run out of descriptors gets one again, once buffers come
\* back, unless the MAC is stopped or the flag was set too late.
Refilled == Starved ~> (~Starved \/ lostWake \/ skew)

\* A frame received is read: no interrupt, signal or pass of the loop is lost.
FramesRead ==
  \A i \in Desc : i \in Unread ~> (i \notin Unread \/ gState # "STARTED" \/ lostWake \/ skew)
=============================================================================
