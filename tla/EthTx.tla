------------------------------- MODULE EthTx -------------------------------
(***************************************************************************)
(* Sending through the Ethernet interface: low_level_output of             *)
(* LWIP/Target/ethernetif.c with the transmit ring of the HAL driver       *)
(* (HAL_ETH_Transmit_IT, HAL_ETH_ReleaseTxPacket), and the link thread     *)
(* that stops and starts the MAC.  Both run under lwIP's core lock.        *)
(*                                                                         *)
(* A packet is one pbuf or two, which is one descriptor.  The DMA sends    *)
(* what lies between its own position and the tail pointer, in order, and  *)
(* keeps its position when it is stopped.  lwIP gives the driver a packet  *)
(* only while it does not hold a reference to it already.                  *)
(***************************************************************************)
EXTENDS DescriptorRing, FiniteSets

CONSTANTS
  Pkts,      \* packets lwIP may send
  NoPkt,     \* no packet
  Speeds,    \* speed and duplex modes the PHY can name
  BootMode,  \* the mode of low_level_init when the PHY names none
  Faults     \* whether a fatal bus error may happen

ASSUME TxAssumption ==
  /\ NoPkt \notin Pkts
  /\ BootMode \in Speeds
  /\ {"down", "negotiating"} \cap Speeds = {}
  /\ Faults \in BOOLEAN

VARIABLES
  \* heth.TxDescList and the descriptors' OWN bits.
  own, PacketAddress, CurTxDesc, releaseIndex, BuffersInUse,
  dma,             \* the descriptor the DMA comes to next
  ti,              \* a transmit-complete interrupt is pending
  TxPktSemaphore,  \* it has its token
  gState,          \* "READY", "STARTED" or "ERROR"
  busy,            \* HAL_ETH_ERROR_BUSY is set in heth.ErrorCode
  \* low_level_output, called by the owner of the core lock.
  lock,            \* "none", "stack" or "link"
  out,             \* "idle", "transmit" or "wait"
  p,               \* its packet
  held,            \* packets the driver holds a reference to
  arp,             \* an ARP request for this host is in tcpip_mbox
  \* The PHY and the link thread.
  phy,             \* "down", "negotiating" or a mode
  netif_up,        \* netif is up and its link is up
  linkchanged, mode,  \* the thread's locals (mode: speed and duplex)
  mac,             \* the mode the MAC is set to
  link,            \* where the thread is: "lock", "poll", "report", "delay"
  blind            \* history: the MAC was last started with no mode named, or
                   \* the PHY has gone down unseen since

ring == <<own, PacketAddress, CurTxDesc, releaseIndex, BuffersInUse>>
hw   == <<dma, ti, TxPktSemaphore>>
call == <<out, p, held>>
phyVars  == <<phy, blind>>
linkVars == <<netif_up, linkchanged, mode, mac, link>>
vars == <<ring, hw, gState, busy, lock, call, arp, phyVars, linkVars>>

(***************************************************************************)
(* low_level_output                                                        *)
(***************************************************************************)

\* The pbuf gets a reference, then the loop begins.
Begin(q) ==
  /\ q \in Pkts \ held
  /\ out' = "transmit"
  /\ p' = q
  /\ held' = held \cup {q}

\* TCP sends only where ip4_route finds an interface that is up.
TcpOutput ==
  /\ lock = "none"
  /\ netif_up
  /\ lock' = "stack"
  /\ \E q \in Pkts : Begin(q)
  /\ UNCHANGED <<ring, hw, gState, busy, arp, phyVars, linkVars>>

ArpRequestArrives ==
  /\ gState = "STARTED"
  /\ arp' = TRUE
  /\ UNCHANGED <<ring, hw, gState, busy, lock, call, phyVars, linkVars>>

\* etharp_input answers on the interface the request came from, up or not.
ArpReply ==
  /\ lock = "none"
  /\ arp
  /\ arp' = FALSE
  /\ lock' = "stack"
  /\ \E q \in Pkts : Begin(q)
  /\ UNCHANGED <<ring, hw, gState, busy, phyVars, linkVars>>

\* The caller gives the core lock back; the link thread then sleeps.
Return ==
  /\ out' = "idle"
  /\ p' = NoPkt
  /\ lock' = "none"
  /\ link' = IF lock = "link" THEN "delay" ELSE link

DescFree == ~own[CurTxDesc] /\ PacketAddress[CurTxDesc] = NoPkt

\* Variant: CurTxDesc stays.
TransmitSticks ==
  /\ out = "transmit"
  /\ gState = "STARTED"
  /\ DescFree
  /\ own' = [own EXCEPT ![CurTxDesc] = TRUE]
  /\ PacketAddress' = [PacketAddress EXCEPT ![CurTxDesc] = p]
  /\ BuffersInUse' = BuffersInUse + 1
  /\ Return
  /\ UNCHANGED <<CurTxDesc, releaseIndex, hw, gState, busy, held, arp, phyVars,
                 netif_up, linkchanged, mode, mac>>
TransmitOk ==
  /\ out = "transmit"
  /\ gState = "STARTED"
  /\ DescFree
  /\ own' = [own EXCEPT ![CurTxDesc] = TRUE]
  /\ PacketAddress' = [PacketAddress EXCEPT ![CurTxDesc] = p]
  /\ CurTxDesc' = Next_(CurTxDesc)
  /\ BuffersInUse' = BuffersInUse + 1
  /\ Return
  /\ UNCHANGED <<releaseIndex, hw, gState, busy, held, arp, phyVars,
                 netif_up, linkchanged, mode, mac>>

\* HAL_ETH_ERROR_BUSY is ored into ErrorCode and nothing clears it again.
TransmitBusy ==
  /\ out = "transmit"
  /\ gState = "STARTED"
  /\ ~DescFree
  /\ busy' = TRUE
  /\ out' = "wait"
  /\ UNCHANGED <<ring, hw, gState, lock, p, held, arp, phyVars, linkVars>>

\* Variant: the packet's reference is kept.
TransmitErrorLeaks ==
  /\ out = "transmit"
  /\ gState # "STARTED"
  /\ IF busy
     THEN out' = "wait" /\ UNCHANGED <<p, lock, link>>
     ELSE Return
  /\ UNCHANGED <<ring, hw, gState, busy, held, arp, phyVars,
                 netif_up, linkchanged, mode, mac>>
\* The MAC is not started: the answer depends on an old BUSY.
TransmitError ==
  /\ out = "transmit"
  /\ gState # "STARTED"
  /\ IF busy
     THEN out' = "wait" /\ UNCHANGED <<p, held, lock, link>>
     ELSE held' = held \ {p} /\ Return
  /\ UNCHANGED <<ring, hw, gState, busy, arp, phyVars,
                 netif_up, linkchanged, mode, mac>>

(***************************************************************************)
(* osSemaphoreAcquire returns with the token or after ETHIF_TX_TIMEOUT;    *)
(* then HAL_ETH_ReleaseTxPacket gives back the packets that have been      *)
(* sent, oldest first, up to the first that has not.                       *)
(***************************************************************************)

\* Variant: the OWN bit is not looked at.
ReleasedAll == 1 .. BuffersInUse
Released == {k \in 1 .. BuffersInUse : \A j \in 1 .. k : ~own[At(releaseIndex, j - 1)]}

\* Variant: the entries of PacketAddress stay.
ReleaseKeepsEntries ==
  /\ out = "wait"
  /\ TxPktSemaphore' = FALSE
  /\ LET freed == {At(releaseIndex, k - 1) : k \in Released}
     IN  /\ held' = held \ {PacketAddress[i] : i \in freed}
         /\ BuffersInUse' = BuffersInUse - Cardinality(Released)
         /\ releaseIndex' = At(releaseIndex, Cardinality(Released) % N)
  /\ out' = "transmit"
  /\ UNCHANGED <<own, PacketAddress, CurTxDesc, dma, ti, gState, busy, lock, p, arp,
                 phyVars, linkVars>>
Release ==
  /\ out = "wait"
  /\ TxPktSemaphore' = FALSE
  /\ LET freed == {At(releaseIndex, k - 1) : k \in Released}
     IN  /\ held' = held \ {PacketAddress[i] : i \in freed}
         /\ PacketAddress' = [i \in Desc |-> IF i \in freed THEN NoPkt ELSE PacketAddress[i]]
         /\ BuffersInUse' = BuffersInUse - Cardinality(Released)
         /\ releaseIndex' = At(releaseIndex, Cardinality(Released) % N)
  /\ out' = "transmit"
  /\ UNCHANGED <<own, CurTxDesc, dma, ti, gState, busy, lock, p, arp, phyVars, linkVars>>

Output == TransmitOk \/ TransmitBusy \/ TransmitError \/ Release

(***************************************************************************)
(* The DMA and its interrupts.                                             *)
(***************************************************************************)

DmaSends ==
  /\ gState = "STARTED"
  /\ own[dma]
  /\ own' = [own EXCEPT ![dma] = FALSE]
  /\ dma' = Next_(dma)
  /\ ti' = TRUE
  /\ UNCHANGED <<PacketAddress, CurTxDesc, releaseIndex, BuffersInUse, TxPktSemaphore,
                 gState, busy, lock, call, arp, phyVars, linkVars>>

HAL_ETH_TxCpltCallback ==
  /\ ti
  /\ gState = "STARTED"
  /\ ti' = FALSE
  /\ TxPktSemaphore' = TRUE
  /\ UNCHANGED <<ring, dma, gState, busy, lock, call, arp, phyVars, linkVars>>

\* HAL_ETH_IRQHandler on a fatal bus error: nothing leaves this state again.
FatalBusError ==
  /\ Faults
  /\ gState = "STARTED"
  /\ gState' = "ERROR"
  /\ UNCHANGED <<ring, hw, busy, lock, call, arp, phyVars, linkVars>>

(***************************************************************************)
(* The PHY, and ethernet_link_thread, which polls it under the core lock.  *)
(***************************************************************************)

PhyLoses ==
  /\ phy # "down"
  /\ phy' = "down"
  /\ UNCHANGED <<ring, hw, gState, busy, lock, call, arp, blind, linkVars>>

PhyNegotiates ==
  /\ phy = "down"
  /\ phy' = "negotiating"
  /\ blind' = (blind \/ netif_up)
  /\ UNCHANGED <<ring, hw, gState, busy, lock, call, arp, linkVars>>

PhySettles ==
  /\ phy = "negotiating"
  /\ phy' \in Speeds
  /\ UNCHANGED <<ring, hw, gState, busy, lock, call, arp, blind, linkVars>>

LinkLocks ==
  /\ link = "lock"
  /\ lock = "none"
  /\ lock' = "link"
  /\ link' = "poll"
  /\ UNCHANGED <<ring, hw, gState, busy, call, arp, phyVars, netif_up, linkchanged,
                 mode, mac>>

LinkSleeps == lock' = "none" /\ link' = "delay"

\* HAL_ETH_Stop_IT, netif_set_down, netif_set_link_down.
LinkGoesDown ==
  /\ link = "poll"
  /\ netif_up
  /\ phy = "down"
  /\ gState' = IF gState = "STARTED" THEN "READY" ELSE gState
  /\ netif_up' = FALSE
  /\ LinkSleeps
  /\ UNCHANGED <<ring, hw, busy, call, arp, phyVars, linkchanged, mode, mac>>

\* Variant: the MAC is started with the mode it had.
LinkComesUpOldMode ==
  /\ link = "poll"
  /\ ~netif_up
  /\ phy # "down"
  /\ linkchanged' = (linkchanged \/ phy \in Speeds)
  /\ mode' = IF phy \in Speeds THEN phy ELSE mode
  /\ IF linkchanged'
     THEN /\ gState' = IF gState = "READY" THEN "STARTED" ELSE gState
          /\ netif_up' = TRUE
          /\ blind' = (phy \notin Speeds)
          /\ link' = "report"
          /\ UNCHANGED lock
     ELSE LinkSleeps /\ UNCHANGED <<gState, netif_up, blind>>
  /\ UNCHANGED <<ring, hw, busy, call, arp, phy, mac>>
\* Variant: the MAC is set up only when the mode is not the last one seen.
LinkComesUpIfChanged ==
  /\ link = "poll"
  /\ ~netif_up
  /\ phy # "down"
  /\ linkchanged' = (linkchanged \/ phy \in Speeds)
  /\ mode' = IF phy \in Speeds THEN phy ELSE mode
  /\ IF linkchanged'
     THEN /\ mac' = IF gState = "READY" /\ mode' # mode THEN mode' ELSE mac
          /\ gState' = IF gState = "READY" THEN "STARTED" ELSE gState
          /\ netif_up' = TRUE
          /\ blind' = (phy \notin Speeds)
          /\ link' = "report"
          /\ UNCHANGED lock
     ELSE LinkSleeps /\ UNCHANGED <<mac, gState, netif_up, blind>>
  /\ UNCHANGED <<ring, hw, busy, call, arp, phy>>
\* HAL_ETH_SetMACConfig and HAL_ETH_Start_IT want the MAC READY; what they
\* return is not looked at.  linkchanged is never reset.
LinkComesUp ==
  /\ link = "poll"
  /\ ~netif_up
  /\ phy # "down"
  /\ linkchanged' = (linkchanged \/ phy \in Speeds)
  /\ mode' = IF phy \in Speeds THEN phy ELSE mode
  /\ IF linkchanged'
     THEN /\ mac' = IF gState = "READY" THEN mode' ELSE mac
          /\ gState' = IF gState = "READY" THEN "STARTED" ELSE gState
          /\ netif_up' = TRUE
          /\ blind' = (phy \notin Speeds)
          /\ link' = "report"
          /\ UNCHANGED lock
     ELSE LinkSleeps /\ UNCHANGED <<mac, gState, netif_up, blind>>
  /\ UNCHANGED <<ring, hw, busy, call, arp, phy>>

LinkUnchanged ==
  /\ link = "poll"
  /\ netif_up <=> phy # "down"
  /\ LinkSleeps
  /\ UNCHANGED <<ring, hw, gState, busy, call, arp, phyVars, netif_up, linkchanged,
                 mode, mac>>

\* netif_set_link_up sends a gratuitous ARP, if there is a pbuf for it.
LinkReports ==
  /\ link = "report"
  /\ out = "idle"
  /\ \/ (\E q \in Pkts : Begin(q)) /\ UNCHANGED <<lock, link>>
     \/ LinkSleeps /\ UNCHANGED call
  /\ UNCHANGED <<ring, hw, gState, busy, arp, phyVars, netif_up, linkchanged, mode, mac>>

LinkWakes ==
  /\ link = "delay"
  /\ link' = "lock"
  /\ UNCHANGED <<ring, hw, gState, busy, lock, call, arp, phyVars, netif_up,
                 linkchanged, mode, mac>>

LinkThread == \/ LinkLocks \/ LinkGoesDown \/ LinkComesUp \/ LinkUnchanged
              \/ LinkReports \/ LinkWakes

\* After MX_LWIP_Init.
Init ==
  /\ own = [i \in Desc |-> FALSE]
  /\ PacketAddress = [i \in Desc |-> NoPkt]
  /\ CurTxDesc = 0 /\ releaseIndex = 0 /\ BuffersInUse = 0
  /\ dma = 0 /\ ti = FALSE /\ TxPktSemaphore = FALSE
  /\ busy = FALSE
  /\ lock = "none" /\ out = "idle" /\ p = NoPkt /\ held = {} /\ arp = FALSE
  /\ phy \in Speeds \cup {"down", "negotiating"}
  /\ netif_up = (phy # "down")
  /\ gState = IF netif_up THEN "STARTED" ELSE "READY"
  /\ mac = IF phy \in Speeds THEN phy ELSE BootMode
  /\ linkchanged = FALSE /\ mode = BootMode
  /\ link = "lock"
  /\ blind = (phy = "negotiating")

Phy == PhyLoses \/ PhyNegotiates \/ PhySettles

Next ==
  \/ TcpOutput \/ ArpRequestArrives \/ ArpReply
  \/ Output
  \/ DmaSends \/ HAL_ETH_TxCpltCallback \/ FatalBusError
  \/ Phy
  \/ LinkThread

\* The DMA works, interrupts are served, and a task that can run does.
Fairness ==
  /\ WF_vars(DmaSends)
  /\ WF_vars(HAL_ETH_TxCpltCallback)
  /\ WF_vars(Output)
  /\ WF_vars(LinkThread)

Spec == Init /\ [][Next]_vars /\ Fairness

-----------------------------------------------------------------------------

\* Every variable has its type, and a caller of low_level_output has the core
\* lock and a packet.
TypeOK ==
  /\ own \in [Desc -> BOOLEAN]
  /\ PacketAddress \in [Desc -> Pkts \cup {NoPkt}]
  /\ CurTxDesc \in Desc /\ releaseIndex \in Desc /\ dma \in Desc
  /\ BuffersInUse \in 0 .. N
  /\ ti \in BOOLEAN /\ TxPktSemaphore \in BOOLEAN /\ busy \in BOOLEAN
  /\ gState \in {"READY", "STARTED", "ERROR"}
  /\ lock \in {"none", "stack", "link"}
  /\ out \in {"idle", "transmit", "wait"}
  /\ p \in Pkts \cup {NoPkt}
  /\ held \subseteq Pkts
  /\ arp \in BOOLEAN
  /\ phy \in Speeds \cup {"down", "negotiating"}
  /\ netif_up \in BOOLEAN /\ linkchanged \in BOOLEAN /\ blind \in BOOLEAN
  /\ mode \in Speeds /\ mac \in Speeds
  /\ link \in {"lock", "poll", "report", "delay"}
  /\ out = "idle" <=> p = NoPkt
  /\ lock = "none" \/ link = "poll" => out = "idle"
  /\ lock = "link" <=> link \in {"poll", "report"}

\* The driver holds exactly one reference to each packet that is in the ring or
\* being sent, and none to any other: no pbuf is leaked on an error path and
\* none is freed twice (pbuf_ref and the two pbuf_free of ethernetif.c).
ReferencesExact ==
  /\ held = ({PacketAddress[i] : i \in Desc} \cup {p}) \ {NoPkt}
  /\ \A i, j \in Desc :
       PacketAddress[i] = PacketAddress[j] /\ PacketAddress[i] # NoPkt => i = j
  /\ \A i \in Desc : p # NoPkt => PacketAddress[i] # p

\* The DMA reads no pbuf that has been given back: a descriptor it owns has a
\* packet with a reference, whatever the semaphore and its timeout do
\* (HAL_ETH_ReleaseTxPacket).
NoEarlyFree == \A i \in Desc : own[i] => PacketAddress[i] \in held

\* The ring is a queue: the packets not given back lie from releaseIndex to
\* CurTxDesc, and those not sent are the last of them, from the DMA's position
\* on, through stops and starts of the MAC.
RingIsQueue ==
  /\ CurTxDesc = At(releaseIndex, BuffersInUse % N)
  /\ \A k \in 0 .. N - 1 : PacketAddress[At(releaseIndex, k)] # NoPkt <=> k < BuffersInUse
  /\ \E s \in 0 .. BuffersInUse :
       /\ dma = At(releaseIndex, s % N)
       /\ \A k \in 0 .. N - 1 : own[At(releaseIndex, k)] <=> s <= k /\ k < BuffersInUse

\* What lwIP believes of the link is what the driver does: the interface is up
\* exactly when the MAC runs, unless a fatal bus error has put the driver in a
\* state HAL_ETH_Start_IT and HAL_ETH_Stop_IT refuse, which the link thread
\* does not notice.
UpMeansStarted == gState # "ERROR" => (netif_up <=> gState = "STARTED")

\* The MAC runs in the mode the PHY has negotiated, unless it was started while
\* the PHY named none, or the PHY went down and up between two polls: from then
\* on nothing sets it right until the next loss of link that a poll sees.
MacFollowsPhy ==
  netif_up /\ phy \in Speeds /\ ~blind /\ gState # "ERROR" => mac = phy

\* Whatever the link thread has missed or taken for granted before, it gets right at
\* the next loss of link it sees: an interface that is down comes up, with the MAC
\* running in the PHY's mode, once the PHY keeps one.  This needs the core lock, so
\* sends must come back (see OutputReturns), and a driver without a fatal error.
LinkRecovers ==
  []<>(out = "idle") =>
    \A s \in Speeds :
      ~netif_up /\ [](phy = s) ~>
        gState = "ERROR" \/ (netif_up /\ gState = "STARTED" /\ mac = s)

\* While the MAC runs, a caller of low_level_output does not wait for ever: a
\* full ring empties, and the semaphore or its timeout wakes the caller to see it.
OutputEnds == (out # "idle") ~> (out = "idle" \/ gState # "STARTED")

\* "return ERR_OK if the packet could be sent, an err_t value if the packet
\* couldn't be sent" (ethernetif.c): low_level_output comes back either way.
OutputReturns == (out # "idle") ~> (out = "idle")
=============================================================================
