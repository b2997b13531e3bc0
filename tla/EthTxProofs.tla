---------------------------- MODULE EthTxProofs ----------------------------
(***************************************************************************)
(* Sending, for any ring, packets and modes: what the driver holds, what   *)
(* the DMA may read, and what the link thread keeps in step.               *)
(***************************************************************************)
EXTENDS EthTx, DescriptorRingProofs, SequenceTheorems, FiniteSetTheorems

-----------------------------------------------------------------------------

\* The ring with s packets sent and not given back, by distances.
Ring(s) ==
  /\ s \in 0 .. BuffersInUse
  /\ dma = At(releaseIndex, s % N)
  /\ CurTxDesc = At(releaseIndex, BuffersInUse % N)
  /\ \A i \in Desc : PacketAddress[i] # NoPkt <=> Distance(i, releaseIndex) < BuffersInUse
  /\ \A i \in Desc : own[i] <=> /\ s <= Distance(i, releaseIndex)
                                /\ Distance(i, releaseIndex) < BuffersInUse

LEMMA TransmitRing ==
  ASSUME TypeOK, NEW s \in 0 .. N, Ring(s), TransmitOk
  PROVE  BuffersInUse < N /\ Ring(s)'
<1>1. releaseIndex \in Desc /\ CurTxDesc \in Desc /\ BuffersInUse \in 0 .. N /\ p # NoPkt
      /\ own \in [Desc -> BOOLEAN] /\ PacketAddress \in [Desc -> Pkts \cup {NoPkt}]
  BY DEF TypeOK, TransmitOk
<1>2. ~(Distance(CurTxDesc, releaseIndex) < BuffersInUse)
  BY <1>1 DEF Ring, TransmitOk, DescFree
<1>3. Distance(CurTxDesc, releaseIndex) \in 0 .. N - 1
  BY <1>1, DistanceType
<1>4. BuffersInUse < N
  BY <1>1, <1>2, <1>3, SizeType
<1>5. Distance(CurTxDesc, releaseIndex) = BuffersInUse
  BY <1>1, <1>4, PositionType DEF Ring
<1>6. /\ releaseIndex' = releaseIndex /\ dma' = dma
      /\ BuffersInUse' = BuffersInUse + 1
      /\ CurTxDesc' = Next_(CurTxDesc)
      /\ own' = [own EXCEPT ![CurTxDesc] = TRUE]
      /\ PacketAddress' = [PacketAddress EXCEPT ![CurTxDesc] = p]
  BY DEF TransmitOk, hw
<1>7. CurTxDesc' = At(releaseIndex', BuffersInUse' % N)
  <2>1. BuffersInUse' \in 0 .. N /\ CurTxDesc' \in Desc
    BY <1>1, <1>4, <1>6, NextType, SizeType
  <2>2. BuffersInUse' < N => Distance(CurTxDesc', releaseIndex) = BuffersInUse'
    BY <1>1, <1>5, <1>6, NextType
  <2>3. BuffersInUse' = N => CurTxDesc' = releaseIndex
    BY <1>1, <1>5, <1>6, NextType
  <2> QED
    BY <1>1, <1>6, <2>1, <2>2, <2>3, PositionIs
<1>8. ASSUME NEW i \in Desc
      PROVE  /\ PacketAddress'[i] # NoPkt <=> Distance(i, releaseIndex) < BuffersInUse + 1
             /\ own'[i] <=> s <= Distance(i, releaseIndex)
                            /\ Distance(i, releaseIndex) < BuffersInUse + 1
  <2>1. Distance(i, releaseIndex) \in 0 .. N - 1
    BY <1>1, DistanceType
  <2>2. s <= BuffersInUse /\ s \in Nat
    BY DEF Ring
  <2>3. CASE i = CurTxDesc
    BY <1>1, <1>5, <1>6, <2>1, <2>2, <2>3
  <2>4. CASE i # CurTxDesc
    <3>1. Distance(i, releaseIndex) # BuffersInUse
      BY <1>1, <1>5, <2>4, SameDistance
    <3>2. PacketAddress'[i] = PacketAddress[i] /\ own'[i] = own[i]
      BY <1>1, <1>6, <2>4
    <3>3. Distance(i, releaseIndex) < BuffersInUse + 1 <=> Distance(i, releaseIndex) < BuffersInUse
      BY <1>1, <2>1, <3>1
    <3> QED
      BY <3>2, <3>3 DEF Ring
  <2> QED
    BY <2>3, <2>4
<1> QED
  BY <1>1, <1>4, <1>6, <1>7, <1>8 DEF Ring

LEMMA DmaRing ==
  ASSUME TypeOK, NEW s \in 0 .. N, Ring(s), DmaSends
  PROVE  s + 1 \in 0 .. N /\ Ring(s + 1)'
<1>1. releaseIndex \in Desc /\ dma \in Desc /\ BuffersInUse \in 0 .. N
      /\ own \in [Desc -> BOOLEAN]
  BY DEF TypeOK
<1>2. s <= Distance(dma, releaseIndex) /\ Distance(dma, releaseIndex) < BuffersInUse
  BY <1>1 DEF Ring, DmaSends
<1>3. Distance(dma, releaseIndex) \in 0 .. N - 1 /\ Distance(releaseIndex, releaseIndex) = 0
  BY <1>1, DistanceType
<1>4. s < N
  BY <1>2, <1>3, SizeType
<1>5. Distance(dma, releaseIndex) = s
  BY <1>1, <1>4, PositionType DEF Ring
<1>6. /\ UNCHANGED <<releaseIndex, BuffersInUse, CurTxDesc, PacketAddress>>
      /\ dma' = Next_(dma)
      /\ own' = [own EXCEPT ![dma] = FALSE]
  BY DEF DmaSends
<1>7. s + 1 \in 0 .. BuffersInUse /\ s + 1 \in 0 .. N
  BY <1>1, <1>2, <1>4, <1>5, SizeType
<1>8. dma' = At(releaseIndex, (s + 1) % N)
  <2>1. dma' \in Desc
    BY <1>1, <1>6, NextType
  <2>2. s + 1 < N => Distance(dma', releaseIndex) = s + 1
    BY <1>1, <1>5, <1>6, NextType
  <2>3. s + 1 = N => dma' = releaseIndex
    BY <1>1, <1>5, <1>6, NextType
  <2> QED
    BY <1>1, <1>7, <2>1, <2>2, <2>3, PositionIs
<1>9. ASSUME NEW i \in Desc
      PROVE  own'[i] <=> s + 1 <= Distance(i, releaseIndex)
                         /\ Distance(i, releaseIndex) < BuffersInUse
  <2>1. Distance(i, releaseIndex) \in 0 .. N - 1
    BY <1>1, DistanceType
  <2>2. CASE i = dma
    BY <1>1, <1>5, <1>6, <2>2
  <2>3. CASE i # dma
    <3>1. Distance(i, releaseIndex) # s
      BY <1>1, <1>5, <2>3, SameDistance
    <3>2. own'[i] = own[i]
      BY <1>1, <1>6, <2>3
    <3> QED
      BY <2>1, <3>1, <3>2 DEF Ring
  <2> QED
    BY <2>2, <2>3
<1> QED
  BY <1>6, <1>7, <1>8, <1>9 DEF Ring

\* What HAL_ETH_ReleaseTxPacket finds to be sent are the s oldest packets.
LEMMA ReleasedIs ==
  ASSUME TypeOK, NEW s \in 0 .. N, Ring(s)
  PROVE  Released = 1 .. s /\ Cardinality(Released) = s
<1>1. releaseIndex \in Desc /\ BuffersInUse \in 0 .. N
  BY DEF TypeOK
<1>2. s \in 0 .. BuffersInUse
  BY DEF Ring
<1>3. \A j \in 1 .. BuffersInUse : own[At(releaseIndex, j - 1)] <=> s <= j - 1
  <2> TAKE j \in 1 .. BuffersInUse
  <2>1. j - 1 \in 0 .. N - 1 /\ j - 1 < BuffersInUse
    BY <1>1, SizeType
  <2>2. At(releaseIndex, j - 1) \in Desc /\ Distance(At(releaseIndex, j - 1), releaseIndex) = j - 1
    BY <1>1, <2>1, AtType
  <2> QED
    BY <2>1, <2>2 DEF Ring
<1>4. Released = 1 .. s
  <2>1. ASSUME NEW k \in 1 .. BuffersInUse
        PROVE  (\A j \in 1 .. k : ~own[At(releaseIndex, j - 1)]) <=> k <= s
    <3>1. CASE k <= s
      BY <1>1, <1>2, <1>3, <3>1
    <3>2. CASE ~(k <= s)
      <4>1. k \in 1 .. k /\ s <= k - 1
        BY <1>1, <1>2, <3>2
      <4> QED
        BY <1>3, <3>2, <4>1
    <3> QED
      BY <3>1, <3>2
  <2> QED
    BY <1>1, <1>2, <2>1 DEF Released
<1>5. Cardinality(1 .. s) = s
  BY FS_Interval
<1> QED
  BY <1>4, <1>5

LEMMA FreedIs ==
  ASSUME TypeOK, NEW s \in 0 .. N, Ring(s)
  PROVE  {At(releaseIndex, k - 1) : k \in Released} = {i \in Desc : Distance(i, releaseIndex) < s}
<1>1. releaseIndex \in Desc /\ Released = 1 .. s
  BY ReleasedIs DEF TypeOK
<1>2. ASSUME NEW k \in 1 .. s
      PROVE  /\ At(releaseIndex, k - 1) \in Desc
             /\ Distance(At(releaseIndex, k - 1), releaseIndex) < s
  <2>1. k - 1 \in 0 .. N - 1 /\ k - 1 < s
    BY SizeType
  <2> QED
    BY <1>1, <2>1, AtType
<1>3. ASSUME NEW i \in Desc, Distance(i, releaseIndex) < s
      PROVE  \E k \in 1 .. s : i = At(releaseIndex, k - 1)
  <2>1. Distance(i, releaseIndex) \in 0 .. N - 1 /\ At(releaseIndex, Distance(i, releaseIndex)) = i
    BY <1>1, DistanceType
  <2>2. Distance(i, releaseIndex) + 1 \in 1 .. s
        /\ (Distance(i, releaseIndex) + 1) - 1 = Distance(i, releaseIndex)
    BY <1>3, <2>1
  <2> QED
    BY <2>1, <2>2
<1> QED
  BY <1>1, <1>2, <1>3

LEMMA ReleaseRing ==
  ASSUME TypeOK, NEW s \in 0 .. N, Ring(s), Release
  PROVE  Ring(0)'
<1>1. /\ releaseIndex \in Desc /\ BuffersInUse \in 0 .. N /\ s \in 0 .. BuffersInUse
      /\ dma \in Desc /\ CurTxDesc \in Desc /\ PacketAddress \in [Desc -> Pkts \cup {NoPkt}]
  BY DEF TypeOK, Ring
<1>2. /\ UNCHANGED <<own, CurTxDesc, dma>>
      /\ BuffersInUse' = BuffersInUse - s
      /\ releaseIndex' = At(releaseIndex, s % N)
      /\ PacketAddress' = [i \in Desc |-> IF Distance(i, releaseIndex) < s THEN NoPkt
                                          ELSE PacketAddress[i]]
  BY ReleasedIs, FreedIs DEF Release
<1>3. releaseIndex' = dma /\ releaseIndex' \in Desc
  BY <1>1, <1>2 DEF Ring
<1>4. BuffersInUse' \in 0 .. N /\ 0 \in 0 .. BuffersInUse' /\ 0 \in 0 .. N
  BY <1>1, <1>2, SizeType
<1>5. dma' = At(releaseIndex', 0 % N)
  <2>1. Distance(dma', releaseIndex') = 0
    BY <1>1, <1>2, <1>3, DistanceType
  <2> QED
    BY <1>2, <1>3, <1>4, <2>1, PositionIs, SizeType
<1>6. ASSUME NEW i \in Desc
      PROVE  Distance(i, releaseIndex') = IF s <= Distance(i, releaseIndex) /\ s # N
                                          THEN Distance(i, releaseIndex) - s
                                          ELSE Distance(i, releaseIndex) - s + N
  <2>1. CASE s = N
    <3>1. releaseIndex' = releaseIndex
      BY <1>1, <1>2, <2>1, PositionType
    <3>2. Distance(i, releaseIndex) \in 0 .. N - 1
      BY <1>1, DistanceType
    <3> QED
      BY <2>1, <3>1, <3>2, SizeType
  <2>2. CASE s # N
    <3>1. s \in 0 .. N - 1 /\ s % N = s
      BY <2>2, WrapType, SizeType
    <3> QED
      BY <1>1, <1>2, <2>2, <3>1, DistanceShifts
  <2> QED
    BY <2>1, <2>2
<1>7. ASSUME NEW i \in Desc
      PROVE  /\ PacketAddress'[i] # NoPkt <=> Distance(i, releaseIndex') < BuffersInUse'
             /\ own'[i] <=> 0 <= Distance(i, releaseIndex')
                            /\ Distance(i, releaseIndex') < BuffersInUse'
  <2>1. Distance(i, releaseIndex) \in 0 .. N - 1 /\ Distance(i, releaseIndex') \in 0 .. N - 1
    BY <1>1, <1>3, DistanceType
  <2>2. Distance(i, releaseIndex') < BuffersInUse'
          <=> s <= Distance(i, releaseIndex) /\ Distance(i, releaseIndex) < BuffersInUse
    BY <1>1, <1>2, <1>6, <2>1, SizeType
  <2>3. PacketAddress'[i] # NoPkt <=> s <= Distance(i, releaseIndex)
                                      /\ Distance(i, releaseIndex) < BuffersInUse
    BY <1>1, <1>2, <2>1 DEF Ring
  <2>4. own'[i] <=> s <= Distance(i, releaseIndex) /\ Distance(i, releaseIndex) < BuffersInUse
    BY <1>2 DEF Ring
  <2> QED
    BY <2>1, <2>2, <2>3, <2>4
<1>8. CurTxDesc' = At(releaseIndex', BuffersInUse' % N)
  <2>1. BuffersInUse' < N => Distance(CurTxDesc', releaseIndex') = BuffersInUse'
    <3>1. CASE BuffersInUse < N
      <4>1. Distance(CurTxDesc, releaseIndex) = BuffersInUse
        BY <1>1, <3>1, PositionType DEF Ring
      <4> QED
        BY <1>1, <1>2, <1>6, <3>1, <4>1, SizeType
    <3>2. CASE BuffersInUse = N
      <4>1. CurTxDesc = releaseIndex
        BY <1>1, <3>2, PositionType DEF Ring
      <4>2. Distance(CurTxDesc, releaseIndex) = 0
        BY <1>1, <4>1, DistanceType
      <4> QED
        BY <1>1, <1>2, <1>6, <3>2, <4>2, SizeType
    <3> QED
      BY <1>1, <3>1, <3>2, SizeType
  <2>2. BuffersInUse' = N => CurTxDesc' = releaseIndex'
    <3> SUFFICES ASSUME BuffersInUse' = N
                 PROVE  CurTxDesc' = releaseIndex'
      OBVIOUS
    <3>1. s = 0 /\ BuffersInUse = N
      BY <1>1, <1>2, SizeType
    <3>2. CurTxDesc = releaseIndex
      BY <1>1, <3>1, PositionType DEF Ring
    <3>3. s < N /\ Distance(dma, releaseIndex) = 0
      BY <1>1, <3>1, PositionType, SizeType DEF Ring
    <3>4. Distance(releaseIndex, releaseIndex) = 0
      BY <1>1, DistanceType
    <3>5. dma = releaseIndex
      BY <1>1, <3>3, <3>4, SameDistance
    <3> QED
      BY <1>2, <1>3, <3>2, <3>5
  <2> QED
    BY <1>1, <1>2, <1>3, <1>4, <2>1, <2>2, PositionIs
<1> QED
  BY <1>4, <1>5, <1>7, <1>8 DEF Ring

-----------------------------------------------------------------------------

RingInv == \E s \in 0 .. N : Ring(s)

LEMMA RingKept == RingInv /\ UNCHANGED <<ring, dma>> => RingInv'
<1> SUFFICES ASSUME RingInv, UNCHANGED <<ring, dma>>
             PROVE  RingInv'
  OBVIOUS
<1>1. PICK s \in 0 .. N : Ring(s)
  BY DEF RingInv
<1>2. Ring(s)'
  BY <1>1 DEF Ring, ring
<1> QED
  BY <1>2 DEF RingInv

LEMMA NextKeepsRing == TypeOK /\ RingInv /\ [Next]_vars => RingInv'
<1> SUFFICES ASSUME TypeOK, RingInv, [Next]_vars
             PROVE  RingInv'
  OBVIOUS
<1>1. PICK s \in 0 .. N : Ring(s)
  BY DEF RingInv
<1>2. CASE TransmitOk
  BY <1>1, <1>2, TransmitRing DEF RingInv
<1>3. CASE DmaSends
  BY <1>1, <1>3, DmaRing DEF RingInv
<1>4. CASE Release
  <2>1. 0 \in 0 .. N
    BY SizeType
  <2> QED
    BY <1>1, <1>4, <2>1, ReleaseRing DEF RingInv
<1>5. CASE TcpOutput \/ ArpRequestArrives \/ ArpReply \/ TransmitBusy \/ TransmitError
  BY <1>5, RingKept DEF TcpOutput, ArpRequestArrives, ArpReply, TransmitBusy, TransmitError, hw
<1>6. CASE HAL_ETH_TxCpltCallback \/ FatalBusError \/ Phy
  BY <1>6, RingKept DEF HAL_ETH_TxCpltCallback, FatalBusError, Phy, PhyLoses, PhyNegotiates,
     PhySettles, hw
<1>7. CASE LinkThread
  BY <1>7, RingKept DEF LinkThread, LinkLocks, LinkGoesDown, LinkComesUp, LinkUnchanged,
     LinkReports, LinkWakes, hw
<1>8. CASE UNCHANGED vars
  BY <1>8, RingKept DEF vars, hw
<1> QED
  BY <1>2, <1>3, <1>4, <1>5, <1>6, <1>7, <1>8 DEF Next, Output

LEMMA InitRing == Init => TypeOK /\ RingInv
<1> SUFFICES ASSUME Init
             PROVE  TypeOK /\ RingInv
  OBVIOUS
<1>1. 0 \in Desc /\ 0 \in 0 .. N
  BY SizeType DEF Desc
<1>2. TypeOK
  BY <1>1, TxAssumption DEF Init, TypeOK
<1>3. \A i \in Desc : Distance(i, 0) \in 0 .. N - 1
  BY <1>1, DistanceType
<1>4. Distance(0, 0) = 0
  BY <1>1, DistanceType
<1>5. 0 = At(0, 0 % N)
  BY <1>1, <1>4, PositionIs, SizeType
<1>6. Ring(0)
  <2>1. \A i \in Desc : ~(Distance(i, 0) < 0)
    BY <1>3
  <2> QED
    BY <1>5, <2>1 DEF Init, Ring
<1> QED
  BY <1>1, <1>2, <1>6 DEF RingInv

LEMMA BeginType ==
  ASSUME NEW q, Begin(q), held \subseteq Pkts
  PROVE  /\ out' = "transmit" /\ p' = q /\ q \in Pkts /\ p' # NoPkt
         /\ held' \subseteq Pkts
BY TxAssumption DEF Begin

\* TypeOK in three parts, so that a step is asked only for the part it changes.
RingType ==
  /\ own \in [Desc -> BOOLEAN]
  /\ PacketAddress \in [Desc -> Pkts \cup {NoPkt}]
  /\ CurTxDesc \in Desc /\ releaseIndex \in Desc /\ dma \in Desc
  /\ BuffersInUse \in 0 .. N
  /\ ti \in BOOLEAN /\ TxPktSemaphore \in BOOLEAN

LinkType ==
  /\ busy \in BOOLEAN /\ gState \in {"READY", "STARTED", "ERROR"}
  /\ phy \in Speeds \cup {"down", "negotiating"}
  /\ netif_up \in BOOLEAN /\ linkchanged \in BOOLEAN /\ blind \in BOOLEAN
  /\ mode \in Speeds /\ mac \in Speeds

CallType ==
  /\ lock \in {"none", "stack", "link"}
  /\ out \in {"idle", "transmit", "wait"}
  /\ p \in Pkts \cup {NoPkt}
  /\ held \subseteq Pkts
  /\ arp \in BOOLEAN
  /\ link \in {"lock", "poll", "report", "delay"}
  /\ out = "idle" <=> p = NoPkt
  /\ lock = "none" \/ link = "poll" => out = "idle"
  /\ lock = "link" <=> link \in {"poll", "report"}

LEMMA TypeParts == TypeOK <=> RingType /\ LinkType /\ CallType
<1>1. TypeOK => RingType
  BY DEF TypeOK, RingType
<1>2. TypeOK => LinkType
  BY DEF TypeOK, LinkType
<1>3. TypeOK => CallType
  BY DEF TypeOK, CallType
<1>4. RingType /\ LinkType /\ CallType => TypeOK
  BY DEF TypeOK, RingType, LinkType, CallType
<1> QED
  BY <1>1, <1>2, <1>3, <1>4

LEMMA TypePartsNext == RingType' /\ LinkType' /\ CallType' => TypeOK'
BY TypeParts, PTL

\* The two parts a step of the ring, or of a caller, leaves alone.
LEMMA PartsKept ==
  /\ RingType /\ UNCHANGED <<ring, hw>> => RingType'
  /\ LinkType /\ UNCHANGED <<gState, busy, phyVars, netif_up, linkchanged, mode, mac>> => LinkType'
  /\ CallType /\ UNCHANGED <<lock, call, arp, link>> => CallType'
<1>1. RingType /\ UNCHANGED <<ring, hw>> => RingType'
  BY DEF RingType, ring, hw
<1>2. LinkType /\ UNCHANGED <<gState, busy, phyVars, netif_up, linkchanged, mode, mac>> => LinkType'
  BY DEF LinkType, phyVars
<1>3. CallType /\ UNCHANGED <<lock, call, arp, link>> => CallType'
  BY DEF CallType, call
<1> QED
  BY <1>1, <1>2, <1>3

LEMMA NextKeepsType == TypeOK /\ RingInv /\ [Next]_vars => TypeOK'
<1> SUFFICES ASSUME TypeOK, RingInv, [Next]_vars
             PROVE  TypeOK'
  OBVIOUS
<1> USE DEF ring, hw, call, phyVars, linkVars
<1>1. CASE TcpOutput
  <2>1. PICK q \in Pkts : Begin(q)
    BY <1>1 DEF TcpOutput
  <2>2. out' = "transmit" /\ p' \in Pkts /\ p' # NoPkt /\ held' \subseteq Pkts
    BY <2>1, BeginType DEF TypeOK
  <2>3. RingType' /\ LinkType'
    BY <1>1, TypeParts, PartsKept DEF TcpOutput
  <2>4. CallType'
    BY <1>1, <2>2 DEF TcpOutput, TypeOK, CallType
  <2> QED
    BY <2>3, <2>4, TypePartsNext
<1>2. CASE ArpRequestArrives
  BY <1>2 DEF ArpRequestArrives, TypeOK
<1>3. CASE ArpReply
  <2>1. PICK q \in Pkts : Begin(q)
    BY <1>3 DEF ArpReply
  <2>2. out' = "transmit" /\ p' \in Pkts /\ p' # NoPkt /\ held' \subseteq Pkts
    BY <2>1, BeginType DEF TypeOK
  <2>3. RingType' /\ LinkType'
    BY <1>3, TypeParts, PartsKept DEF ArpReply
  <2>4. CallType'
    BY <1>3, <2>2 DEF ArpReply, TypeOK, CallType
  <2> QED
    BY <2>3, <2>4, TypePartsNext
<1>4. CASE TransmitOk
  <2>1. PICK s \in 0 .. N : Ring(s)
    BY DEF RingInv
  <2>2. BuffersInUse' \in 0 .. N
    BY <1>4, <2>1, TransmitRing, SizeType DEF TransmitOk, TypeOK
  <2>3. CurTxDesc' \in Desc
    BY <1>4, NextType DEF TransmitOk, TypeOK
  <2>4. own' \in [Desc -> BOOLEAN] /\ PacketAddress' \in [Desc -> Pkts \cup {NoPkt}]
    BY <1>4 DEF TransmitOk, TypeOK
  <2>5. /\ out' = "idle" /\ p' = NoPkt /\ lock' = "none"
        /\ link' \in {"lock", "poll", "report", "delay"} /\ link' \notin {"poll", "report"}
    BY <1>4 DEF TransmitOk, Return, TypeOK
  <2> QED
    BY <1>4, <2>2, <2>3, <2>4, <2>5 DEF TransmitOk, TypeOK
<1>5. CASE TransmitBusy
  BY <1>5 DEF TransmitBusy, TypeOK
<1>6. CASE TransmitError
  <2>1. CASE busy
    BY <1>6, <2>1 DEF TransmitError, TypeOK
  <2>2. CASE ~busy
    <3>1. /\ out' = "idle" /\ p' = NoPkt /\ lock' = "none"
          /\ link' \in {"lock", "poll", "report", "delay"} /\ link' \notin {"poll", "report"}
      BY <1>6, <2>2 DEF TransmitError, Return, TypeOK
    <3> QED
      BY <1>6, <2>2, <3>1 DEF TransmitError, TypeOK
  <2> QED
    BY <2>1, <2>2
<1>7. CASE Release
  <2>1. PICK s \in 0 .. N : Ring(s)
    BY DEF RingInv
  <2>2. BuffersInUse' = BuffersInUse - s /\ s \in 0 .. BuffersInUse /\ BuffersInUse \in 0 .. N
    BY <1>7, <2>1, ReleasedIs DEF Release, Ring, TypeOK
  <2>3. releaseIndex' \in Desc
    BY <1>7, <2>1, ReleasedIs, PositionType DEF Release, TypeOK
  <2>4. PacketAddress' \in [Desc -> Pkts \cup {NoPkt}] /\ held' \subseteq Pkts
    BY <1>7 DEF Release, TypeOK
  <2>5. BuffersInUse' \in 0 .. N
    BY <2>2, SizeType
  <2>6. out = "wait" /\ out' = "transmit" /\ p' = p /\ lock' = lock /\ link' = link
    BY <1>7 DEF Release
  <2>7. RingType'
    BY <1>7, <2>3, <2>4, <2>5 DEF Release, TypeOK, RingType
  <2>8. LinkType'
    BY <1>7, TypeParts, PartsKept DEF Release
  <2>9. CallType'
    BY <1>7, <2>4, <2>6 DEF Release, TypeOK, CallType
  <2> QED
    BY <2>7, <2>8, <2>9, TypePartsNext
<1>8. CASE DmaSends
  <2>1. dma' \in Desc /\ own' \in [Desc -> BOOLEAN]
    BY <1>8, NextType DEF DmaSends, TypeOK
  <2>2. RingType'
    BY <1>8, <2>1 DEF DmaSends, TypeOK, RingType
  <2>3. LinkType' /\ CallType'
    BY <1>8, TypeParts, PartsKept DEF DmaSends
  <2> QED
    BY <2>2, <2>3, TypePartsNext
<1>9. CASE HAL_ETH_TxCpltCallback
  <2>1. RingType'
    BY <1>9, TypeParts DEF HAL_ETH_TxCpltCallback, RingType
  <2>2. LinkType' /\ CallType'
    BY <1>9, TypeParts, PartsKept DEF HAL_ETH_TxCpltCallback
  <2> QED
    BY <2>1, <2>2, TypePartsNext
<1>10. CASE FatalBusError
  BY <1>10 DEF FatalBusError, TypeOK
<1>11. CASE Phy
  BY <1>11 DEF Phy, PhyLoses, PhyNegotiates, PhySettles, TypeOK
<1>12. CASE LinkLocks
  BY <1>12 DEF LinkLocks, TypeOK
<1>13. CASE LinkGoesDown
  BY <1>13 DEF LinkGoesDown, LinkSleeps, TypeOK
<1>14. CASE LinkComesUp
  <2>1. mode' \in Speeds /\ linkchanged' \in BOOLEAN
    BY <1>14 DEF LinkComesUp, TypeOK
  <2>2. mac' \in Speeds /\ gState' \in {"READY", "STARTED", "ERROR"}
        /\ netif_up' \in BOOLEAN /\ blind' \in BOOLEAN
    BY <1>14, <2>1 DEF LinkComesUp, TypeOK
  <2>3. out = "idle" /\ UNCHANGED <<out, p>>
    BY <1>14 DEF LinkComesUp, TypeOK
  <2>4. \/ link' = "report" /\ lock' = "link"
        \/ link' = "delay" /\ lock' = "none"
    BY <1>14 DEF LinkComesUp, LinkSleeps, TypeOK
  <2> QED
    BY <1>14, <2>1, <2>2, <2>3, <2>4 DEF LinkComesUp, TypeOK
<1>15. CASE LinkUnchanged
  BY <1>15 DEF LinkUnchanged, LinkSleeps, TypeOK
<1>16. CASE LinkReports
  <2>1. ASSUME NEW q \in Pkts, Begin(q), UNCHANGED <<lock, link>>
        PROVE  TypeOK'
    BY <1>16, <2>1, BeginType DEF LinkReports, TypeOK
  <2>2. ASSUME LinkSleeps, UNCHANGED call
        PROVE  TypeOK'
    BY <1>16, <2>2 DEF LinkReports, LinkSleeps, TypeOK
  <2> QED
    BY <1>16, <2>1, <2>2 DEF LinkReports
<1>17. CASE LinkWakes
  BY <1>17 DEF LinkWakes, TypeOK
<1>18. CASE UNCHANGED vars
  BY <1>18 DEF vars, TypeOK
<1> QED
  BY <1>1, <1>2, <1>3, <1>4, <1>5, <1>6, <1>7, <1>8, <1>9, <1>10, <1>11, <1>12, <1>13,
     <1>14, <1>15, <1>16, <1>17, <1>18
  DEF Next, Output, LinkThread

\* The ring is well formed in every reachable state.
THEOREM TypeCorrect == Spec => [](TypeOK /\ RingInv)
<1>1. Init => TypeOK /\ RingInv
  BY InitRing
<1>2. TypeOK /\ RingInv /\ [Next]_vars => (TypeOK /\ RingInv)'
  BY NextKeepsType, NextKeepsRing
<1> QED
  BY <1>1, <1>2, PTL DEF Spec

\* The packets not given back lie between releaseIndex and CurTxDesc, those not
\* sent from the DMA's place on.
THEOREM RingStaysQueue == Spec => []RingIsQueue
<1>1. TypeOK /\ RingInv => RingIsQueue
  <2> SUFFICES ASSUME TypeOK, RingInv
               PROVE  RingIsQueue
    OBVIOUS
  <2>1. PICK s \in 0 .. N : Ring(s)
    BY DEF RingInv
  <2>2. ASSUME NEW k \in 0 .. N - 1
        PROVE  /\ PacketAddress[At(releaseIndex, k)] # NoPkt <=> k < BuffersInUse
               /\ own[At(releaseIndex, k)] <=> s <= k /\ k < BuffersInUse
    <3>1. At(releaseIndex, k) \in Desc /\ Distance(At(releaseIndex, k), releaseIndex) = k
      BY AtType DEF TypeOK
    <3> QED
      BY <2>1, <3>1 DEF Ring
  <2> QED
    BY <2>1, <2>2 DEF Ring, RingIsQueue
<1> QED
  BY <1>1, TypeCorrect, PTL

-----------------------------------------------------------------------------

\* Giving back what the DMA has sent drops one reference to each packet.
LEMMA ReleaseReferences ==
  ASSUME TypeOK, RingInv, ReferencesExact, NoEarlyFree, Release
  PROVE  ReferencesExact' /\ NoEarlyFree'
<1>1. PICK s \in 0 .. N : Ring(s)
  BY DEF RingInv
<1> DEFINE freed == {i \in Desc : Distance(i, releaseIndex) < s}
<1>2. /\ UNCHANGED <<own, p>>
      /\ PacketAddress' = [i \in Desc |-> IF i \in freed THEN NoPkt ELSE PacketAddress[i]]
      /\ held' = held \ {PacketAddress[i] : i \in freed}
  BY <1>1, ReleasedIs, FreedIs DEF Release
<1>3. \A i \in freed : ~own[i]
  <2> TAKE i \in freed
  <2>1. Distance(i, releaseIndex) \in 0 .. N - 1 /\ s \in 0 .. N
    BY DistanceType DEF TypeOK
  <2> QED
    BY <1>1, <2>1 DEF Ring
<1> HIDE DEF freed
<1>4. freed \subseteq Desc
  BY DEF freed
<1>5. \A i \in Desc : PacketAddress'[i] = IF i \in freed THEN NoPkt ELSE PacketAddress[i]
  BY <1>2
<1>6. held' = ({PacketAddress'[i] : i \in Desc} \cup {p}) \ {NoPkt}
  BY <1>2, <1>4, <1>5 DEF ReferencesExact
<1>7. ReferencesExact'
  BY <1>2, <1>5, <1>6 DEF ReferencesExact
<1>8. NoEarlyFree'
  BY <1>2, <1>3, <1>4, <1>5 DEF ReferencesExact, NoEarlyFree
<1> QED
  BY <1>7, <1>8

\* A packet a caller begins with is one the driver does not hold.
LEMMA BeginReferences ==
  ASSUME TypeOK, ReferencesExact, NoEarlyFree, out = "idle", NEW q \in Pkts, Begin(q),
         UNCHANGED ring
  PROVE  ReferencesExact' /\ NoEarlyFree'
<1>1. p = NoPkt /\ q # NoPkt /\ p' = q /\ q \notin held /\ held' = held \cup {q}
      /\ UNCHANGED <<own, PacketAddress>>
  BY TxAssumption DEF TypeOK, Begin, ring
<1>2. \A i \in Desc : PacketAddress[i] # q
  BY <1>1 DEF ReferencesExact
<1> QED
  BY <1>1, <1>2 DEF ReferencesExact, NoEarlyFree

LEMMA NextKeepsReferences ==
  TypeOK /\ RingInv /\ ReferencesExact /\ NoEarlyFree /\ [Next]_vars
    => ReferencesExact' /\ NoEarlyFree'
<1> SUFFICES ASSUME TypeOK, RingInv, ReferencesExact, NoEarlyFree, [Next]_vars
             PROVE  ReferencesExact' /\ NoEarlyFree'
  OBVIOUS
<1>1. ASSUME UNCHANGED <<own, PacketAddress, held, p>>
      PROVE  ReferencesExact' /\ NoEarlyFree'
  BY <1>1 DEF ReferencesExact, NoEarlyFree
<1>2. CASE TcpOutput \/ ArpReply \/ LinkReports
  <2>1. CASE \E q \in Pkts : Begin(q)
    <3>1. PICK q \in Pkts : Begin(q)
      BY <2>1
    <3>2. out = "idle" /\ UNCHANGED ring
      BY <1>2 DEF TcpOutput, ArpReply, LinkReports, TypeOK
    <3> QED
      BY <3>1, <3>2, BeginReferences
  <2>2. CASE ~ \E q \in Pkts : Begin(q)
    BY <1>1, <1>2, <2>2 DEF TcpOutput, ArpReply, LinkReports, ring, call
  <2> QED
    BY <2>1, <2>2
<1>3. CASE TransmitOk
  <2>1. /\ CurTxDesc \in Desc /\ PacketAddress[CurTxDesc] = NoPkt /\ p # NoPkt /\ p' = NoPkt
        /\ p \in held /\ held' = held
        /\ own' = [own EXCEPT ![CurTxDesc] = TRUE]
        /\ PacketAddress' = [PacketAddress EXCEPT ![CurTxDesc] = p]
    BY <1>3 DEF TransmitOk, DescFree, Return, TypeOK, ReferencesExact
  <2>2. \A i \in Desc : /\ PacketAddress'[i] = IF i = CurTxDesc THEN p ELSE PacketAddress[i]
                        /\ own'[i] = IF i = CurTxDesc THEN TRUE ELSE own[i]
    BY <2>1 DEF TypeOK
  <2>3. {PacketAddress'[i] : i \in Desc} \ {NoPkt}
          = ({PacketAddress[i] : i \in Desc} \cup {p}) \ {NoPkt}
    <3> DEFINE before == {PacketAddress[i] : i \in Desc}
               after == {PacketAddress'[i] : i \in Desc}
    <3>1. ASSUME NEW x \in after
          PROVE  x \in before \cup {p}
      BY <2>2
    <3>2. ASSUME NEW x \in before, x # NoPkt
          PROVE  x \in after
      <4>1. PICK i \in Desc : x = PacketAddress[i]
        OBVIOUS
      <4>2. i # CurTxDesc
        BY <2>1, <3>2, <4>1
      <4>3. PacketAddress'[i] = x
        BY <2>2, <4>1, <4>2
      <4> QED
        BY <4>3
    <3>3. p \in after
      <4>1. PacketAddress'[CurTxDesc] = p
        BY <2>1, <2>2
      <4> QED
        BY <2>1, <4>1
    <3> HIDE DEF before, after
    <3>4. after \ {NoPkt} = (before \cup {p}) \ {NoPkt}
      BY <3>1, <3>2, <3>3
    <3> QED
      BY <3>4 DEF before, after
  <2> QED
    BY <2>1, <2>2, <2>3 DEF ReferencesExact, NoEarlyFree
<1>4. CASE TransmitError
  <2>1. CASE busy
    BY <1>1, <1>4, <2>1 DEF TransmitError, ring
  <2>2. CASE ~busy
    <3>1. p' = NoPkt /\ held' = held \ {p} /\ UNCHANGED <<own, PacketAddress>> /\ p # NoPkt
      BY <1>4, <2>2 DEF TransmitError, Return, ring, TypeOK
    <3> QED
      BY <3>1 DEF ReferencesExact, NoEarlyFree
  <2> QED
    BY <2>1, <2>2
<1>5. CASE Release
  BY <1>5, ReleaseReferences
<1>6. CASE DmaSends
  <2>1. UNCHANGED <<PacketAddress, held, p>> /\ own' = [own EXCEPT ![dma] = FALSE]
    BY <1>6 DEF DmaSends, call
  <2>2. \A i \in Desc : own'[i] => own[i]
    BY <2>1 DEF TypeOK
  <2> QED
    BY <2>1, <2>2 DEF ReferencesExact, NoEarlyFree
<1>7. CASE ArpRequestArrives \/ TransmitBusy \/ HAL_ETH_TxCpltCallback \/ FatalBusError
  BY <1>1, <1>7 DEF ArpRequestArrives, TransmitBusy, HAL_ETH_TxCpltCallback, FatalBusError,
     ring, call
<1>8. CASE Phy
  BY <1>1, <1>8 DEF Phy, PhyLoses, PhyNegotiates, PhySettles, ring, call
<1>9. CASE LinkLocks \/ LinkGoesDown \/ LinkComesUp \/ LinkUnchanged \/ LinkWakes
  BY <1>1, <1>9 DEF LinkLocks, LinkGoesDown, LinkComesUp, LinkUnchanged, LinkWakes, ring, call
<1>10. CASE UNCHANGED vars
  BY <1>1, <1>10 DEF vars, ring, call
<1> QED
  BY <1>2, <1>3, <1>4, <1>5, <1>6, <1>7, <1>8, <1>9, <1>10 DEF Next, Output, LinkThread

LEMMA InitReferences == Init => ReferencesExact /\ NoEarlyFree
BY DEF Init, ReferencesExact, NoEarlyFree

LEMMA ReferencesHold == Spec => [](ReferencesExact /\ NoEarlyFree)
<1>1. TypeOK /\ RingInv /\ (ReferencesExact /\ NoEarlyFree) /\ [Next]_vars
        => (ReferencesExact /\ NoEarlyFree)'
  BY NextKeepsReferences
<1> QED
  BY <1>1, InitReferences, TypeCorrect, PTL DEF Spec

\* No packet is leaked or freed twice, on any path of low_level_output.
THEOREM ReferencesAreExact == Spec => []ReferencesExact
BY ReferencesHold, PTL

\* The DMA never reads a packet that was given back.
THEOREM NothingFreedEarly == Spec => []NoEarlyFree
BY ReferencesHold, PTL

-----------------------------------------------------------------------------

\* A started interface that names no mode yet is on record.
LinkInv ==
  /\ UpMeansStarted
  /\ netif_up /\ phy = "negotiating" => blind
  /\ MacFollowsPhy

LEMMA NextKeepsLink == TypeOK /\ LinkInv /\ [Next]_vars => LinkInv'
<1> SUFFICES ASSUME TypeOK, LinkInv, [Next]_vars
             PROVE  LinkInv'
  OBVIOUS
<1> USE DEF LinkInv, UpMeansStarted, MacFollowsPhy
<1>1. ASSUME UNCHANGED <<netif_up, phy, blind, mac, gState>>
      PROVE  LinkInv'
  BY <1>1
<1>2. CASE TcpOutput \/ ArpRequestArrives \/ ArpReply
  BY <1>1, <1>2 DEF TcpOutput, ArpRequestArrives, ArpReply, phyVars, linkVars
<1>3. CASE Output
  BY <1>1, <1>3 DEF Output, TransmitOk, TransmitBusy, TransmitError, Release, phyVars, linkVars
<1>4. CASE DmaSends \/ HAL_ETH_TxCpltCallback
  BY <1>1, <1>4 DEF DmaSends, HAL_ETH_TxCpltCallback, phyVars, linkVars
<1>5. CASE FatalBusError
  BY <1>5 DEF FatalBusError, phyVars, linkVars
<1>6. CASE PhyLoses
  BY <1>6, TxAssumption DEF PhyLoses, linkVars
<1>7. CASE PhyNegotiates
  BY <1>7, TxAssumption DEF PhyNegotiates, linkVars
<1>8. CASE PhySettles
  BY <1>8, TxAssumption DEF PhySettles, linkVars, TypeOK
<1>9. CASE LinkGoesDown
  BY <1>9 DEF LinkGoesDown, phyVars, TypeOK
<1>10. CASE LinkComesUp
  <2>1. CASE linkchanged'
    <3>1. /\ gState' = IF gState = "READY" THEN "STARTED" ELSE gState
          /\ mac' = IF gState = "READY" THEN mode' ELSE mac
          /\ netif_up' = TRUE /\ blind' = (phy \notin Speeds) /\ phy' = phy
          /\ mode' = IF phy \in Speeds THEN phy ELSE mode
      BY <1>10, <2>1 DEF LinkComesUp
    <3>2. gState # "ERROR" => gState = "READY"
      BY <1>10 DEF LinkComesUp, TypeOK
    <3>3. phy = "negotiating" => phy \notin Speeds
      BY TxAssumption
    <3> QED
      BY <3>1, <3>2, <3>3
  <2>2. CASE ~linkchanged'
    BY <1>1, <1>10, <2>2 DEF LinkComesUp
  <2> QED
    BY <2>1, <2>2
<1>11. CASE LinkLocks \/ LinkUnchanged \/ LinkReports \/ LinkWakes
  BY <1>1, <1>11 DEF LinkLocks, LinkUnchanged, LinkReports, LinkWakes, phyVars
<1>12. CASE UNCHANGED vars
  BY <1>1, <1>12 DEF vars, phyVars, linkVars
<1> QED
  BY <1>2, <1>3, <1>4, <1>5, <1>6, <1>7, <1>8, <1>9, <1>10, <1>11, <1>12
  DEF Next, Phy, LinkThread

LEMMA LinkHolds == Spec => []LinkInv
<1>1. Init => LinkInv
  BY TxAssumption DEF Init, LinkInv, UpMeansStarted, MacFollowsPhy
<1> QED
  BY <1>1, NextKeepsLink, TypeCorrect, PTL DEF Spec

\* lwIP's interface is up exactly when the MAC runs, without fatal errors.
THEOREM InterfaceFollowsMac == Spec => []UpMeansStarted
<1>1. LinkInv => UpMeansStarted
  BY DEF LinkInv
<1> QED
  BY <1>1, LinkHolds, PTL

\* The MAC runs in the mode negotiated, unless it was started blind.
THEOREM MacFollows == Spec => []MacFollowsPhy
<1>1. LinkInv => MacFollowsPhy
  BY DEF LinkInv
<1> QED
  BY <1>1, LinkHolds, PTL

-----------------------------------------------------------------------------
(***************************************************************************)
(* The order of packets, on the wire and back to lwIP.                     *)
(***************************************************************************)

\* The packets not given back, oldest first, how many of them are sent, and the
\* rest, which the DMA has still to send.
InDriver == [k \in 1 .. BuffersInUse |-> PacketAddress[At(releaseIndex, k - 1)]]
Sent     == Cardinality(Released)
ToSend   == SubSeq(InDriver, Sent + 1, BuffersInUse)

\* Packets go out in the order low_level_output was called, each once: a
\* successful call adds its packet at the end, the DMA sends the first, and
\* nothing else (a release, an error, a stop or start of the MAC) adds, drops or
\* moves one (HAL_ETH_Transmit_IT, HAL_ETH_Stop_IT, HAL_ETH_Start_IT).
WireOrder ==
  [][ /\ TransmitOk => ToSend' = Append(ToSend, p)
      /\ DmaSends => /\ ToSend # <<>>
                     /\ PacketAddress[dma] = Head(ToSend)
                     /\ ToSend' = Tail(ToSend)
      /\ ~(TransmitOk \/ DmaSends) => ToSend' = ToSend ]_vars

\* A packet is given back only after it was sent, in the order of the calls, and
\* by nothing but HAL_ETH_ReleaseTxPacket, which drops the reference of each
\* packet it takes from the ring and of no other.
ReleaseOrder ==
  [][ /\ TransmitOk => InDriver' = Append(InDriver, p) /\ held' = held
      /\ Release => /\ InDriver' = ToSend
                    /\ held' = held \ {InDriver[k] : k \in 1 .. Sent}
      /\ ~(TransmitOk \/ Release) => InDriver' = InDriver ]_vars

LEMMA SubSeqAppends ==
  ASSUME NEW S, NEW q \in Seq(S), NEW x \in S, NEW s \in 0 .. Len(q)
  PROVE  SubSeq(Append(q, x), s + 1, Len(q) + 1) = Append(SubSeq(q, s + 1, Len(q)), x)
<1> DEFINE a == Append(q, x)
<1>1. a \in Seq(S) /\ Len(a) = Len(q) + 1 /\ a[Len(q) + 1] = x
      /\ \A i \in 1 .. Len(q) : a[i] = q[i]
  BY AppendProperties
<1>2. Len(q) \in Nat /\ s \in Nat /\ s <= Len(q)
  OBVIOUS
<1>3. SubSeq(a, s + 1, Len(q)) = SubSeq(q, s + 1, Len(q))
  <2>1. a = q \o <<x>>
    BY AppendIsConcat
  <2>2. CASE s = Len(q)
    BY <1>2, <2>2, SubSeqEmpty
  <2>3. CASE s # Len(q)
    <3>1. s + 1 \in 1 .. Len(q) /\ Len(q) \in 1 .. Len(q) /\ <<x>> \in Seq(S)
      BY <1>2, <2>3
    <3> QED
      BY <2>1, <3>1, SubSeqOfConcat1
  <2> QED
    BY <2>2, <2>3
<1>4. SubSeq(a, s + 1, Len(q) + 1) = SubSeq(a, s + 1, Len(q)) \o <<x>>
  <2>1. s + 1 \in 1 .. Len(a) /\ Len(q) + 1 \in s + 1 .. Len(a) /\ (Len(q) + 1) - 1 = Len(q)
    BY <1>1, <1>2
  <2> HIDE DEF a
  <2> QED
    BY <1>1, <2>1, SubSeqRecursiveSecond
<1>5. SubSeq(q, s + 1, Len(q)) \in Seq(S)
  <2>1. \A i \in s + 1 .. Len(q) : q[i] \in S
    BY <1>2
  <2> QED
    BY <1>2, <2>1, SubSeqProperties
<1> HIDE DEF a
<1>6. SubSeq(a, s + 1, Len(q) + 1) = Append(SubSeq(q, s + 1, Len(q)), x)
  BY <1>3, <1>4, <1>5, AppendIsConcat
<1> QED
  BY <1>6 DEF a

LEMMA SubSeqDrops ==
  ASSUME NEW S, NEW q \in Seq(S), NEW s \in Nat, s < Len(q)
  PROVE  /\ SubSeq(q, s + 1, Len(q)) # <<>>
         /\ Head(SubSeq(q, s + 1, Len(q))) = q[s + 1]
         /\ Tail(SubSeq(q, s + 1, Len(q))) = SubSeq(q, s + 2, Len(q))
<1>1. s + 1 \in 1 .. Len(q) /\ Len(q) \in s + 1 .. Len(q) /\ (s + 1) + 1 = s + 2
      /\ Len(q) \in Int /\ s + 1 \in Int /\ s + 1 <= Len(q)
  OBVIOUS
<1>2. SubSeq(q, s + 1, Len(q)) # <<>>
  <2>1. \A i \in s + 1 .. Len(q) : q[i] \in S
    OBVIOUS
  <2> DEFINE rest == SubSeq(q, s + 1, Len(q))
  <2>2. rest \in Seq(S) /\ Len(rest) = Len(q) - (s + 1) + 1
    BY <1>1, <2>1, SubSeqProperties
  <2> HIDE DEF rest
  <2>3. Len(rest) # 0
    BY <1>1, <2>2
  <2>4. rest # <<>>
    BY <2>2, <2>3
  <2> QED
    BY <2>4 DEF rest
<1> QED
  BY <1>1, <1>2, HeadTailOfSubSeq

\* Going on along the ring from a position of it.
LEMMA AtAt ==
  ASSUME NEW r \in Desc, NEW s \in 0 .. N - 1, NEW j \in 0 .. N - 1, s + j < N
  PROVE  At(At(r, s), j) = At(r, s + j)
BY SizeType DEF Desc, At

LEMMA InDriverType ==
  TypeOK /\ RingInv => InDriver \in Seq(Pkts) /\ Len(InDriver) = BuffersInUse
<1> SUFFICES ASSUME TypeOK, RingInv
             PROVE  InDriver \in Seq(Pkts) /\ Len(InDriver) = BuffersInUse
  OBVIOUS
<1>1. PICK s \in 0 .. N : Ring(s)
  BY DEF RingInv
<1>2. BuffersInUse \in 0 .. N /\ releaseIndex \in Desc
      /\ PacketAddress \in [Desc -> Pkts \cup {NoPkt}]
  BY DEF TypeOK
<1>3. ASSUME NEW k \in 1 .. BuffersInUse
      PROVE  PacketAddress[At(releaseIndex, k - 1)] \in Pkts
  <2>1. k - 1 \in 0 .. N - 1 /\ k - 1 < BuffersInUse
    BY <1>2, SizeType
  <2>2. At(releaseIndex, k - 1) \in Desc /\ Distance(At(releaseIndex, k - 1), releaseIndex) = k - 1
    BY <1>2, <2>1, AtType
  <2> QED
    BY <1>1, <1>2, <2>1, <2>2 DEF Ring
<1>4. InDriver \in [1 .. BuffersInUse -> Pkts] /\ BuffersInUse \in Nat
  BY <1>2, <1>3 DEF InDriver
<1> QED
  BY <1>4

LEMMA SentIs == \A s \in 0 .. N : TypeOK /\ Ring(s) => Sent = s
BY ReleasedIs DEF Sent

LEMMA SentIsNext == (\A s \in 0 .. N : TypeOK /\ Ring(s) => Sent = s)'
BY SentIs, PTL

LEMMA TransmitOrder ==
  ASSUME TypeOK, RingInv, TypeOK', TransmitOk
  PROVE  InDriver' = Append(InDriver, p) /\ ToSend' = Append(ToSend, p) /\ held' = held
<1>1. PICK s \in 0 .. N : Ring(s)
  BY DEF RingInv
<1>2. BuffersInUse < N /\ Ring(s)'
  BY <1>1, TransmitRing
<1>3. Sent = s /\ s \in 0 .. BuffersInUse
  BY <1>1, SentIs DEF Ring
<1>4. Sent' = s
  BY <1>2, SentIsNext
<1>5. /\ BuffersInUse \in 0 .. N /\ releaseIndex \in Desc /\ CurTxDesc \in Desc
      /\ PacketAddress \in [Desc -> Pkts \cup {NoPkt}]
      /\ releaseIndex' = releaseIndex /\ held' = held
      /\ BuffersInUse' = BuffersInUse + 1
      /\ PacketAddress' = [PacketAddress EXCEPT ![CurTxDesc] = p]
      /\ p \in Pkts
  BY TxAssumption DEF TypeOK, TransmitOk
<1>6. CurTxDesc = At(releaseIndex, BuffersInUse)
  <2>1. BuffersInUse % N = BuffersInUse
    BY <1>2, <1>5, WrapType
  <2> QED
    BY <1>1, <2>1 DEF Ring
<1>7. ASSUME NEW k \in 1 .. BuffersInUse
      PROVE  PacketAddress'[At(releaseIndex, k - 1)] = PacketAddress[At(releaseIndex, k - 1)]
  <2>1. k - 1 \in 0 .. N - 1 /\ BuffersInUse \in 0 .. N - 1 /\ k - 1 # BuffersInUse
    BY <1>2, <1>5, SizeType
  <2>2. At(releaseIndex, k - 1) # CurTxDesc /\ At(releaseIndex, k - 1) \in Desc
    BY <1>5, <1>6, <2>1, AtType
  <2> QED
    BY <1>5, <2>2
<1>8. InDriver \in Seq(Pkts) /\ Len(InDriver) = BuffersInUse
  BY InDriverType
<1>9. PacketAddress'[At(releaseIndex, BuffersInUse)] = p
  BY <1>5, <1>6
<1>10. InDriver' = [k \in 1 .. BuffersInUse + 1 |->
                      IF k <= BuffersInUse THEN InDriver[k] ELSE p]
  <2>1. InDriver' = [k \in 1 .. BuffersInUse + 1 |-> PacketAddress'[At(releaseIndex, k - 1)]]
    BY <1>5 DEF InDriver
  <2>2. ASSUME NEW k \in 1 .. BuffersInUse + 1
        PROVE  PacketAddress'[At(releaseIndex, k - 1)]
                 = IF k <= BuffersInUse THEN InDriver[k] ELSE p
    <3>1. CASE k <= BuffersInUse
      BY <1>5, <1>7, <3>1 DEF InDriver
    <3>2. CASE ~(k <= BuffersInUse)
      <4>1. k - 1 = BuffersInUse
        BY <1>5, <3>2
      <4> QED
        BY <1>9, <3>2, <4>1
    <3> QED
      BY <3>1, <3>2
  <2> QED
    BY <2>1, <2>2
<1>11. InDriver' = Append(InDriver, p)
  <2> DEFINE Longer == Append(InDriver, p)
  <2>1. /\ Longer \in Seq(Pkts) /\ Len(Longer) = BuffersInUse + 1
        /\ \A k \in 1 .. BuffersInUse : Longer[k] = InDriver[k]
        /\ Longer[BuffersInUse + 1] = p
    BY <1>5, <1>8, AppendProperties
  <2> HIDE DEF Longer
  <2>2. Longer = [k \in 1 .. BuffersInUse + 1 |-> Longer[k]]
    BY <2>1
  <2>3. \A k \in 1 .. BuffersInUse + 1 :
          Longer[k] = IF k <= BuffersInUse THEN InDriver[k] ELSE p
    BY <1>5, <2>1
  <2>4. Longer = InDriver'
    BY <1>10, <2>2, <2>3
  <2> QED
    BY <2>4 DEF Longer
<1>12. ToSend' = SubSeq(Append(InDriver, p), s + 1, Len(InDriver) + 1)
  BY <1>4, <1>5, <1>8, <1>11 DEF ToSend
<1>13. ToSend = SubSeq(InDriver, s + 1, Len(InDriver))
  BY <1>3, <1>8 DEF ToSend
<1> QED
  BY <1>3, <1>5, <1>8, <1>11, <1>12, <1>13, SubSeqAppends

LEMMA DmaOrder ==
  ASSUME TypeOK, RingInv, TypeOK', DmaSends
  PROVE  /\ InDriver' = InDriver
         /\ ToSend # <<>> /\ PacketAddress[dma] = Head(ToSend) /\ ToSend' = Tail(ToSend)
<1>1. PICK s \in 0 .. N : Ring(s)
  BY DEF RingInv
<1>2. s + 1 \in 0 .. N /\ Ring(s + 1)'
  BY <1>1, DmaRing
<1>3. Sent = s /\ s \in 0 .. BuffersInUse
  BY <1>1, SentIs DEF Ring
<1>4. Sent' = s + 1
  BY <1>2, SentIsNext
<1>5. UNCHANGED <<releaseIndex, BuffersInUse, PacketAddress>>
  BY DEF DmaSends
<1>6. InDriver' = InDriver
  BY <1>5 DEF InDriver
<1>7. InDriver \in Seq(Pkts) /\ Len(InDriver) = BuffersInUse
  BY InDriverType
<1>8. s < BuffersInUse
  BY <1>2, <1>3, <1>5 DEF Ring, TypeOK
<1>9. PacketAddress[dma] = InDriver[s + 1]
  <2>1. s % N = s
    BY <1>2, WrapType, SizeType
  <2>2. dma = At(releaseIndex, s) /\ (s + 1) - 1 = s /\ s + 1 \in 1 .. BuffersInUse
    BY <1>1, <1>3, <1>8, <2>1 DEF Ring, TypeOK
  <2> QED
    BY <2>2 DEF InDriver
<1>10. ToSend = SubSeq(InDriver, s + 1, Len(InDriver))
  BY <1>3, <1>7 DEF ToSend
<1>11. ToSend' = SubSeq(InDriver, s + 2, Len(InDriver))
  <2>1. (s + 1) + 1 = s + 2
    OBVIOUS
  <2> QED
    BY <1>4, <1>5, <1>6, <1>7, <2>1 DEF ToSend
<1>12. s \in Nat /\ s < Len(InDriver)
  BY <1>7, <1>8
<1>13. /\ SubSeq(InDriver, s + 1, Len(InDriver)) # <<>>
       /\ Head(SubSeq(InDriver, s + 1, Len(InDriver))) = InDriver[s + 1]
       /\ Tail(SubSeq(InDriver, s + 1, Len(InDriver))) = SubSeq(InDriver, s + 2, Len(InDriver))
  BY ONLY <1>7, <1>12, SubSeqDrops
<1> QED
  BY ONLY <1>6, <1>9, <1>10, <1>11, <1>13

LEMMA GiveBackOrder ==
  ASSUME TypeOK, RingInv, TypeOK', Release
  PROVE  /\ InDriver' = ToSend /\ ToSend' = ToSend
         /\ held' = held \ {InDriver[k] : k \in 1 .. Sent}
<1>1. PICK s \in 0 .. N : Ring(s)
  BY DEF RingInv
<1>2. Ring(0)' /\ 0 \in 0 .. N
  BY <1>1, ReleaseRing, SizeType
<1>3. Sent = s /\ s \in 0 .. BuffersInUse
  BY <1>1, SentIs DEF Ring
<1>4. Sent' = 0
  BY <1>2, SentIsNext
<1>5. BuffersInUse \in 0 .. N /\ releaseIndex \in Desc
  BY DEF TypeOK
<1>6. /\ BuffersInUse' = BuffersInUse - s
      /\ releaseIndex' = At(releaseIndex, s % N)
      /\ PacketAddress' = [i \in Desc |-> IF Distance(i, releaseIndex) < s THEN NoPkt
                                          ELSE PacketAddress[i]]
  BY <1>1, ReleasedIs, FreedIs DEF Release
<1>7. ASSUME NEW k \in 1 .. BuffersInUse - s
      PROVE  PacketAddress'[At(releaseIndex', k - 1)] = InDriver[s + k]
  <2>1. s \in 0 .. N - 1 /\ k - 1 \in 0 .. N - 1 /\ s + (k - 1) < N /\ s + k \in 1 .. BuffersInUse
        /\ s + (k - 1) \in 0 .. N - 1 /\ s + (k - 1) = (s + k) - 1 /\ s + (k - 1) >= s
    BY <1>3, <1>5, SizeType
  <2>2. s % N = s
    BY <2>1, WrapType, SizeType
  <2>3. At(releaseIndex', k - 1) = At(releaseIndex, s + (k - 1))
    BY <1>5, <1>6, <2>1, <2>2, AtAt
  <2>4. /\ At(releaseIndex, s + (k - 1)) \in Desc
        /\ Distance(At(releaseIndex, s + (k - 1)), releaseIndex) = s + (k - 1)
    BY <1>5, <2>1, AtType
  <2>5. PacketAddress'[At(releaseIndex', k - 1)] = PacketAddress[At(releaseIndex, s + (k - 1))]
    BY <1>6, <2>1, <2>3, <2>4
  <2> QED
    BY <2>1, <2>5 DEF InDriver
<1>8. InDriver \in Seq(Pkts) /\ Len(InDriver) = BuffersInUse
  BY InDriverType
<1>9. ToSend = [k \in 1 .. BuffersInUse - s |-> InDriver[s + k]]
  <2>1. ToSend = SubSeq(InDriver, s + 1, BuffersInUse)
    BY <1>3 DEF ToSend
  <2> QED
    BY <1>3, <1>5, <1>8, <2>1
<1>10. InDriver' = ToSend
  <2>1. InDriver' = [k \in 1 .. BuffersInUse - s |-> PacketAddress'[At(releaseIndex', k - 1)]]
    BY <1>6 DEF InDriver
  <2> QED
    BY <1>7, <1>9, <2>1
<1>11. ToSend' = ToSend
  <2>1. ToSend' = SubSeq(ToSend, 1, BuffersInUse - s)
    BY <1>4, <1>6, <1>10 DEF ToSend
  <2>2. BuffersInUse - s \in Nat /\ ToSend \in Seq(Pkts) /\ Len(ToSend) = BuffersInUse - s
    BY <1>3, <1>5, <1>8 DEF ToSend
  <2> QED
    BY <2>1, <2>2
<1>12. held' = held \ {InDriver[k] : k \in 1 .. Sent}
  <2> DEFINE freed == {At(releaseIndex, k - 1) : k \in Released}
  <2>1. held' = held \ {PacketAddress[i] : i \in freed} /\ Released = 1 .. s
    BY <1>1, ReleasedIs DEF Release
  <2>2. \A k \in 1 .. s : InDriver[k] = PacketAddress[At(releaseIndex, k - 1)]
    BY <1>3, <1>5 DEF InDriver
  <2>3. {PacketAddress[i] : i \in freed} = {InDriver[k] : k \in 1 .. s}
    BY <2>1, <2>2
  <2> HIDE DEF freed
  <2> QED
    BY <1>3, <2>1, <2>3
<1> QED
  BY <1>10, <1>11, <1>12

\* Everything else leaves the ring as it is.
LEMMA RestKeepsOrder ==
  ASSUME [Next]_vars, ~TransmitOk, ~DmaSends, ~Release
  PROVE  InDriver' = InDriver /\ ToSend' = ToSend
<1>1. UNCHANGED ring
  BY DEF Next, TcpOutput, ArpRequestArrives, ArpReply, Output, TransmitBusy, TransmitError,
     HAL_ETH_TxCpltCallback, FatalBusError, Phy, PhyLoses, PhyNegotiates, PhySettles,
     LinkThread, LinkLocks, LinkGoesDown, LinkComesUp, LinkUnchanged, LinkReports, LinkWakes,
     vars
<1>2. Released' = Released
  BY <1>1 DEF Released, ring
<1> QED
  BY <1>1, <1>2 DEF InDriver, ToSend, Sent, ring

\* Packets go out in the order of the calls, whatever happens to the link.
THEOREM SentInCallOrder == Spec => WireOrder
<1>1. TypeOK /\ RingInv /\ (TypeOK /\ RingInv)' /\ [Next]_vars =>
        [ /\ TransmitOk => ToSend' = Append(ToSend, p)
          /\ DmaSends => /\ ToSend # <<>>
                         /\ PacketAddress[dma] = Head(ToSend)
                         /\ ToSend' = Tail(ToSend)
          /\ ~(TransmitOk \/ DmaSends) => ToSend' = ToSend ]_vars
  BY TransmitOrder, DmaOrder, GiveBackOrder, RestKeepsOrder
<1> QED
  BY <1>1, TypeCorrect, PTL DEF Spec, WireOrder

\* Packets come back to lwIP in the same order, and only after they were sent.
THEOREM GivenBackInOrder == Spec => ReleaseOrder
<1>1. TypeOK /\ RingInv /\ (TypeOK /\ RingInv)' /\ [Next]_vars =>
        [ /\ TransmitOk => InDriver' = Append(InDriver, p) /\ held' = held
          /\ Release => /\ InDriver' = ToSend
                        /\ held' = held \ {InDriver[k] : k \in 1 .. Sent}
          /\ ~(TransmitOk \/ Release) => InDriver' = InDriver ]_vars
  BY TransmitOrder, DmaOrder, GiveBackOrder, RestKeepsOrder
<1> QED
  BY <1>1, TypeCorrect, PTL DEF Spec, ReleaseOrder

-----------------------------------------------------------------------------
(***************************************************************************)
(* Whether a call comes back.  OutputEnds and OutputReturns are left to    *)
(* TLC; these are the facts of the code under them.                        *)
(***************************************************************************)

\* A call is in its loop, the MAC does not run, and an old HAL_ETH_ERROR_BUSY
\* makes the loop take the driver's refusal for a full ring.
Wedged == out # "idle" /\ gState # "STARTED" /\ busy

\* From any state of low_level_output there is a way on: while the MAC runs the
\* ring has a free descriptor, or packets to give back, or one the DMA will
\* send; while it does not, the loop ends at its next refusal, unless it is
\* wedged.  A caller that waits has always been refused for a full ring.
OutputHasAWay ==
  out # "idle" =>
    \/ gState = "STARTED" /\ (DescFree \/ Released # {} \/ own[dma])
    \/ gState # "STARTED" /\ ~busy /\ out = "transmit"
    \/ Wedged

WaitInv == out = "wait" => busy

LEMMA NextKeepsWait == WaitInv /\ [Next]_vars => WaitInv'
<1> SUFFICES ASSUME WaitInv, [Next]_vars
             PROVE  WaitInv'
  OBVIOUS
<1>1. CASE TcpOutput \/ ArpReply \/ LinkReports
  BY <1>1 DEF TcpOutput, ArpReply, LinkReports, Begin, call, WaitInv
<1>2. CASE Output
  BY <1>2 DEF Output, TransmitOk, TransmitBusy, TransmitError, Release, Return, WaitInv
<1>3. CASE ArpRequestArrives \/ DmaSends \/ HAL_ETH_TxCpltCallback \/ FatalBusError \/ Phy
  BY <1>3 DEF ArpRequestArrives, DmaSends, HAL_ETH_TxCpltCallback, FatalBusError, Phy, PhyLoses,
     PhyNegotiates, PhySettles, call, WaitInv
<1>4. CASE LinkLocks \/ LinkGoesDown \/ LinkComesUp \/ LinkUnchanged \/ LinkWakes
  BY <1>4 DEF LinkLocks, LinkGoesDown, LinkComesUp, LinkUnchanged, LinkWakes, call, WaitInv
<1>5. CASE UNCHANGED vars
  BY <1>5 DEF vars, call, WaitInv
<1> QED
  BY <1>1, <1>2, <1>3, <1>4, <1>5 DEF Next, LinkThread

\* A ring is never stuck while the MAC runs: full, it has something to give back
\* or the DMA owns its oldest descriptor.
LEMMA RingGoesOn ==
  ASSUME TypeOK, RingInv
  PROVE  DescFree \/ Released # {} \/ own[dma]
<1>1. PICK s \in 0 .. N : Ring(s)
  BY DEF RingInv
<1>2. /\ BuffersInUse \in 0 .. N /\ releaseIndex \in Desc /\ CurTxDesc \in Desc
      /\ dma \in Desc /\ s \in 0 .. BuffersInUse
  BY <1>1 DEF TypeOK, Ring
<1>3. CASE BuffersInUse < N
  <2>1. Distance(CurTxDesc, releaseIndex) = BuffersInUse
    BY <1>1, <1>2, <1>3, PositionType DEF Ring
  <2> QED
    BY <1>1, <1>2, <2>1 DEF Ring, DescFree
<1>4. CASE BuffersInUse = N /\ s = 0
  <2>1. Distance(dma, releaseIndex) = 0
    BY <1>1, <1>2, <1>4, PositionType, SizeType DEF Ring
  <2> QED
    BY <1>1, <1>2, <1>4, <2>1, SizeType DEF Ring
<1>5. CASE s > 0
  <2>1. 1 \in 1 .. s /\ Released = 1 .. s
    BY <1>1, <1>2, <1>5, ReleasedIs
  <2> QED
    BY <2>1
<1> QED
  BY <1>2, <1>3, <1>4, <1>5, SizeType

\* A call can always go on, or it is wedged: no third case exists.
THEOREM OutputCanGoOn == Spec => []OutputHasAWay
<1>1. Init => WaitInv
  BY DEF Init, WaitInv
<1>2. TypeOK /\ RingInv /\ WaitInv => OutputHasAWay
  BY RingGoesOn DEF TypeOK, WaitInv, OutputHasAWay, Wedged
<1> QED
  BY <1>1, <1>2, NextKeepsWait, TypeCorrect, PTL DEF Spec

\* A wedged call stays so, whatever the PHY, the interrupts and the link thread
\* do: only that thread starts the MAC, and it polls under the lock the call
\* holds.  So the violation of OutputReturns that run eth_tx_link_down shows
\* ends only with a reset, for every ring size and set of packets.
THEOREM WedgedForEver == Spec => [](Wedged => [](Wedged /\ link # "poll"))
<1>1. TypeOK /\ Wedged => link # "poll"
  BY DEF TypeOK, Wedged
<1>2. TypeOK /\ Wedged /\ [Next]_vars => Wedged'
  <2> SUFFICES ASSUME TypeOK, Wedged, [Next]_vars
               PROVE  Wedged'
    OBVIOUS
  <2>1. lock # "none" /\ link # "poll" /\ out # "idle"
    BY DEF TypeOK, Wedged
  <2>2. CASE Output
    BY <2>2 DEF Output, TransmitOk, TransmitBusy, TransmitError, Release, Wedged
  <2>3. CASE ArpRequestArrives \/ DmaSends \/ HAL_ETH_TxCpltCallback \/ FatalBusError
    BY <2>3 DEF ArpRequestArrives, DmaSends, HAL_ETH_TxCpltCallback, FatalBusError, Wedged
  <2>4. CASE Phy
    BY <2>4 DEF Phy, PhyLoses, PhyNegotiates, PhySettles, call, Wedged
  <2>5. CASE LinkWakes
    BY <2>5 DEF LinkWakes, call, Wedged
  <2>6. ~(TcpOutput \/ ArpReply \/ LinkLocks \/ LinkGoesDown \/ LinkComesUp \/ LinkUnchanged
          \/ LinkReports)
    BY <2>1 DEF TcpOutput, ArpReply, LinkLocks, LinkGoesDown, LinkComesUp, LinkUnchanged,
       LinkReports
  <2>7. CASE UNCHANGED vars
    BY <2>7 DEF vars, call, Wedged
  <2> QED
    BY <2>2, <2>3, <2>4, <2>5, <2>6, <2>7 DEF Next, LinkThread
<1> QED
  BY <1>1, <1>2, TypeCorrect, PTL DEF Spec

=============================================================================
